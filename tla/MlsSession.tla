----------------------------- MODULE MlsSession -----------------------------
(***************************************************************************)
(* One MLS session of a daemon as a value (apps/daemon/src/                *)
(* mls_session.rs): one operator per method of MlsSession, paired with the *)
(* predicate that says when the method answers Ok.  A method that answers  *)
(* Err leaves the session as it was.                                       *)
(*                                                                         *)
(* What OpenMLS does inside a group is modelled from how the daemon uses   *)
(* it.  A group is known by the daemon that founded it and the             *)
(* conversation it was founded for.  A commit opens an epoch, and every    *)
(* commit takes a number of its own, since two commits on one epoch open   *)
(* epochs with different secrets.  A sender numbers its messages within an *)
(* epoch (gen) and a receiver uses up the key of every message it opens    *)
(* (seen).  Messages of other epochs cannot be opened.  The private half   *)
(* of a key package is used up by the join it was made for.                *)
(***************************************************************************)
EXTENDS Naturals, Sequences

CONSTANT NoSession

\* create_group on a new session: the daemon alone, in a group of its own.
CreateGroup(d, c) ==
    [group |-> <<d, c>>, epoch |-> 0, members |-> {d}, gen |-> 0, seen |-> {},
     packages |-> {}, poisoned |-> FALSE]

\* The key package a daemon makes for a conversation.
KeyPackage(d, c) == [owner |-> d, conversation |-> c]

\* Slip: the checkpoint is taken before the key package is made.
PrepareTooEarly(d, c) == CreateGroup(d, c)

\* The state prepare saves before it hands out the key package.
Prepare(d, c) == [CreateGroup(d, c) EXCEPT !.packages = {KeyPackage(d, c)}]

Usable(s) == s # NoSession /\ ~s.poisoned

Poison(s) == IF s = NoSession THEN s ELSE [s EXCEPT !.poisoned = TRUE]

\* Every commit: the counters of the previous epoch go.
Commit(s, members, epoch) ==
    [s EXCEPT !.members = members, !.epoch = epoch, !.gen = 0, !.seen = {}]

\* A device is in a group at most once, and only a member can commit.
CanAddMember(d, s, m) == Usable(s) /\ d \in s.members /\ m \notin s.members

Owners(packages, n) == {packages[i].owner : i \in 1..n}

\* The first n packages added, one commit each, the last epoch being
\* epoch + n.  The commits themselves are dropped: only the welcomes leave.
AddMembers(s, packages, n, epoch) ==
    IF n = 0 THEN s
    ELSE Commit(s, s.members \cup Owners(packages, n), epoch + n)

\* The n-th package can be added after the n - 1 before it.
CanAddNext(d, s, packages, n) ==
    /\ CanAddMember(d, s, packages[n].owner)
    /\ packages[n].owner \notin Owners(packages, n - 1)

Welcomes(s, packages, epoch) ==
    [i \in 1..Len(packages) |->
        [package |-> packages[i], group |-> s.group, epoch |-> epoch + i,
         members |-> s.members \cup Owners(packages, i)]]

CanRemoveMember(d, s, m) == Usable(s) /\ d \in s.members /\ m \in s.members

RemoveMember(s, m, epoch) == Commit(s, s.members \ {m}, epoch)

CanJoin(s, w) == Usable(s) /\ w.package \in s.packages

Join(s, w) ==
    [Commit(s, w.members, w.epoch) EXCEPT !.group = w.group,
                                          !.packages = @ \ {w.package}]

CanEncrypt(d, s) == Usable(s) /\ d \in s.members

Encrypt(s) == [s EXCEPT !.gen = @ + 1]

\* What leaves the daemon d for a message it encrypts in session s.
Ciphertext(d, s) ==
    [group |-> s.group, epoch |-> s.epoch, from |-> d, gen |-> s.gen]

SameEpoch(d, s, w) ==
    /\ Usable(s) /\ d \in s.members
    /\ w.group = s.group /\ w.epoch = s.epoch /\ w.from \in s.members \ {d}

CanDecrypt(d, s, w) == SameEpoch(d, s, w) /\ <<w.from, w.gen>> \notin s.seen

Decrypt(s, w) == [s EXCEPT !.seen = @ \cup {<<w.from, w.gen>>}]

\* The message that carries a removal to the other members.
CommitMessage(d, s, m, epoch) ==
    [group |-> s.group, epoch |-> s.epoch, from |-> d,
     members |-> s.members \ {m}, next |-> epoch]

MergeCommit(s, w) == Commit(s, w.members, w.next)
=============================================================================
