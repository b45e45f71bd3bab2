--------------------------- MODULE MCAttachments ---------------------------
(***************************************************************************)
(* Attachments in five profiles: two slots that upload two packages of one *)
(* identifier; lost calls and restarts; pieces of the browser between      *)
(* those of a send; packages that are left to their TTL, one of them of    *)
(* the largest size; and failing stores with locked sessions.  A blob has  *)
(* two pieces, which do not fall on the bounds of its two chunks.          *)
(***************************************************************************)
EXTENDS Attachments, TLC

CONSTANTS s1, s2, b1, b2

Calm == [slots |-> {s1}, blobs |-> {b1}, sizes |-> {4}, starts |-> 1, sends |-> 1,
         pieces |-> 0, waits |-> 0, locks |-> 0, crashes |-> 0, faults |-> 0, lost |-> 0]

Racing == [Calm EXCEPT !.slots = {s1, s2}, !.starts = 2, !.sends = 2]
Retrying == [Calm EXCEPT !.slots = {s1, s2}, !.sends = 2, !.lost = 2, !.crashes = 1]
Browser == [Calm EXCEPT !.slots = {s1, s2}, !.pieces = 1, !.lost = 1]
Waiting == [Calm EXCEPT !.blobs = {b1, b2}, !.sizes = {4, 7}, !.starts = 3, !.waits = 2]
Failing == [Calm EXCEPT !.sends = 2, !.faults = 2, !.locks = 1, !.crashes = 1]

MCProfiles == {Racing, Retrying, Browser, Waiting, Failing}

Symmetry == Permutations(Keys)
=============================================================================
