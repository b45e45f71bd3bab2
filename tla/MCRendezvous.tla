---------------------------- MODULE MCRendezvous ----------------------------
(***************************************************************************)
(* Two daemons, two codes and one further device, in nine profiles:        *)
(* requests of one daemon that overlap; daemons and stores that fail while *)
(* messages pass, and while members change; a relay that fails and         *)
(* restarts; lost relay calls while two codes are in use; invites that     *)
(* expire with two codes, and while messages pass; a device that is added, *)
(* removed by one daemon and revoked by the other; a contact that is       *)
(* deleted while daemons and stores fail.                                  *)
(***************************************************************************)
EXTENDS Rendezvous, TLC

CONSTANTS h, g, c1, c2, o

MCDaemons == {h, g}
MCCodes == {c1, c2}
MCOthers == {o}

Quiet == [codes |-> 1, tasks |-> 1, crashes |-> 0, faults |-> 0, calls |-> 0,
          expired |-> 0, commits |-> 1, sends |-> 0, deletes |-> 0]

Overlapping == [Quiet EXCEPT !.codes = 2, !.tasks = 2]
FailingMessages == [Quiet EXCEPT !.crashes = 1, !.faults = 1, !.sends = 2]
FailingCommits == [Quiet EXCEPT !.crashes = 1, !.faults = 1, !.commits = 2]
FailingRelay == [Quiet EXCEPT !.crashes = 2, !.calls = 2]
LossyRelay == [Quiet EXCEPT !.codes = 2, !.calls = 1]
SlowCodes == [Quiet EXCEPT !.codes = 2, !.expired = 1]
SlowMessages == [Quiet EXCEPT !.expired = 1, !.sends = 1]
MergedRemovals == [Quiet EXCEPT !.commits = 4, !.sends = 1]
DeletedContacts == [Quiet EXCEPT !.crashes = 1, !.faults = 1, !.sends = 1, !.deletes = 1]

MCProfiles == {Overlapping, FailingMessages, FailingCommits, FailingRelay, LossyRelay,
               SlowCodes, SlowMessages, MergedRemovals, DeletedContacts}

Symmetry == Permutations(MCDaemons) \cup Permutations(MCCodes)
=============================================================================
