--------------------------- MODULE PairingSession ---------------------------
(***************************************************************************)
(* The pairing session of one daemon as a value (apps/daemon/src/          *)
(* pairing.rs): one operator per method of PairingSession.  A method that  *)
(* answers Err leaves the session as it was, so an operator is paired with *)
(* the predicate that says when its method answers Ok.                     *)
(*                                                                         *)
(* A peer is a verified signed invite, a record with at least the fields   *)
(* account and device; the relay and the conversation it names only tell   *)
(* two invites of one account apart.  Whether an invite's expires_at has   *)
(* passed is an argument.  The safety number is a hash of both accounts    *)
(* and devices, so presenting "the" number of a peer is presenting that    *)
(* peer.                                                                   *)
(*                                                                         *)
(* An operator marked Slip, here and in the other modules, is the operator *)
(* after it with one plausible mistake.  No specification uses it: put in  *)
(* the place of that operator, it must break the property that guards      *)
(* against the mistake.                                                    *)
(***************************************************************************)

CONSTANTS
    Invites,        \* verified invites other daemons may present
    LocalAccount,   \* the account of this daemon
    NoPeer          \* no peer staged

ASSUME InviteAssumption == NoPeer \notin Invites

PairingStates ==
    {"Idle", "InviteCreated", "Verified", "Established", "Rejected"}

Session == [state : PairingStates, peer : Invites \cup {NoPeer},
            safety_verified : BOOLEAN]

NewSession == [state |-> "Idle", peer |-> NoPeer, safety_verified |-> FALSE]

CanMarkInviteCreated(p) == p.state # "Verified"

\* Only the state changes: peer and safety_verified of an established
\* session stay where they are.
MarkInviteCreated(p) == [p EXCEPT !.state = "InviteCreated"]

CanVerifyPeer(p, i, expired) ==
    /\ i.account # LocalAccount
    /\ i \notin expired
    /\ p.state # "Verified"
    /\ p.state = "Established" =>
         p.peer # NoPeer /\ p.peer.account # i.account

\* Slip: the confirmation of an earlier peer is kept.
VerifyPeerKeepsSafety(p, i) ==
    IF p.state = "Established"
    THEN [p EXCEPT !.peer = i, !.safety_verified = TRUE]
    ELSE [p EXCEPT !.state = "Verified", !.peer = i]

\* A session that is already established stays so: the new peer counts as
\* confirmed, whether or not the peer before it still did.
VerifyPeer(p, i) ==
    IF p.state = "Established"
    THEN [p EXCEPT !.peer = i, !.safety_verified = TRUE]
    ELSE [state |-> "Verified", peer |-> i, safety_verified |-> FALSE]

CanApprove(p, expired) ==
    /\ p.peer # NoPeer /\ p.peer \notin expired
    /\ p.state = "Verified" /\ p.safety_verified

Approve(p) == [p EXCEPT !.state = "Established"]

\* Answer Duplicate, which the authority takes for success.
ApprovedBefore(p, expired) ==
    /\ p.peer # NoPeer /\ p.peer \notin expired
    /\ p.state = "Established"

CanReconfirm(p) ==
    \/ p.state = "Verified"
    \/ p.state = "Established" /\ ~p.safety_verified

\* presented is the peer whose safety number the user typed.
CanConfirmSafety(p, presented) ==
    /\ CanReconfirm(p)
    /\ p.safety_verified \/ (p.peer # NoPeer /\ p.peer = presented)

ConfirmSafety(p) == [p EXCEPT !.safety_verified = TRUE]

CanUnverifySafety(p) == p.state = "Established" /\ p.safety_verified

UnverifySafety(p) == [p EXCEPT !.safety_verified = FALSE]

CanReject(p) == p.state \in {"Verified", "Established"}

CanInvalidateBinding(p) == p.state = "Established"

\* Slip: the peer of a rejected session stays.
RejectKeepsPeer(p) == [p EXCEPT !.state = "Rejected", !.safety_verified = FALSE]

\* reject and invalidate_binding.
Reject(p) ==
    [p EXCEPT !.state = "Rejected", !.peer = NoPeer, !.safety_verified = FALSE]

CanMessage(p) == p.state = "Established" /\ p.safety_verified

CanMessageAt(p, expired) ==
    CanMessage(p) /\ p.peer # NoPeer /\ p.peer \notin expired

\* What restore accepts of a snapshot; anything else is CorruptStore.
RestorableSession(p) ==
    /\ (p.peer # NoPeer) <=> (p.state \in {"Verified", "Established"})
    /\ p.safety_verified => p.state \in {"Verified", "Established"}
=============================================================================
