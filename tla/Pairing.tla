------------------------------- MODULE Pairing -------------------------------
(***************************************************************************)
(* The pairing authority of one daemon: the pairing session and the        *)
(* contact directory in memory, their records in the encrypted store, and  *)
(* every authority operation that changes them (apps/daemon/src/           *)
(* authority.rs, with the handlers of http_server.rs and the routes of     *)
(* authority_routes.rs that call them), with failed commits, crashes and   *)
(* restarts in between.                                                    *)
(*                                                                         *)
(* Every operation runs under the authority's and the store's mutex, so it *)
(* is one action.  All of them change the memory first and commit after;   *)
(* a commit that fails answers an error and does not undo the change.      *)
(***************************************************************************)
EXTENDS PairingSession, Naturals

CONSTANTS
    Expiring,       \* bound: invites whose time runs out in a behaviour
    MaxCrashes,     \* bound: restarts in a behaviour
    MaxFaults       \* bound: failed store commits in a behaviour

ASSUME PairingAssumption ==
    Expiring \subseteq Invites /\ MaxCrashes \in Nat /\ MaxFaults \in Nat

Accounts == {i.account : i \in Invites}

VARIABLES
    pairing,        \* the PairingSession in memory
    stored,         \* the record "pairing/state"
    contacts,       \* per account: the invite the contact was taken from
    storedContacts, \* the record "contacts/directory"
    awaiting,       \* a consumed code waits for its welcome (memory only)
    expired,        \* invites whose expires_at is past
    daemon,         \* "up", "down", or "refused" to start
    crashes, faults,
    vetted,         \* invites whose confirmation stands: the user compared the
                    \* safety number since the invite was last staged or
                    \* unlocked, or it took the place of such a peer
    relocked,       \* invites staged on top of an established session whose
                    \* confirmation did not stand
    dropped,        \* the invite last rejected, until it is staged again
    unremoved       \* contacts removed in memory while the commit failed

view == <<pairing, stored, contacts, storedContacts, awaiting>>
ghosts == <<vetted, relocked, dropped>>
vars == <<view, expired, daemon, crashes, faults, ghosts, unremoved>>

Directory == [Accounts -> Invites \cup {NoPeer}]

TypeOK ==
    /\ pairing \in Session /\ stored \in Session
    /\ contacts \in Directory /\ storedContacts \in Directory
    /\ awaiting \in BOOLEAN
    /\ daemon \in {"up", "down", "refused"}
    /\ crashes \in 0..MaxCrashes /\ faults \in 0..MaxFaults
    /\ expired \in SUBSET Invites
    /\ vetted \in SUBSET Invites /\ relocked \in SUBSET Invites
    /\ dropped \in Invites \cup {NoPeer} /\ unremoved \in SUBSET Accounts

Init ==
    /\ pairing = NewSession /\ stored = NewSession
    /\ contacts = [a \in Accounts |-> NoPeer] /\ storedContacts = contacts
    /\ awaiting = FALSE /\ expired = {} /\ daemon = "up"
    /\ crashes = 0 /\ faults = 0
    /\ vetted = {} /\ relocked = {} /\ dropped = NoPeer /\ unremoved = {}

-----------------------------------------------------------------------------
\* Commits

Up == daemon = "up"

\* n of the commits of a step fail.
Failing(n) == faults + n <= MaxFaults /\ faults' = faults + n

\* The session becomes p in memory and is committed, unless the commit fails.
Persist(p, fails) ==
    /\ pairing' = p
    /\ stored' = IF fails THEN stored ELSE p

PersistContacts(c, fails) ==
    /\ contacts' = c
    /\ storedContacts' = IF fails THEN storedContacts ELSE c
    /\ unremoved' = IF fails
                    THEN unremoved \cup {a \in Accounts : contacts[a] # NoPeer /\ c[a] = NoPeer}
                    ELSE {}

\* A step that changes the session alone.
Change(p) ==
    /\ \E fails \in BOOLEAN : Persist(p, fails) /\ Failing(IF fails THEN 1 ELSE 0)
    /\ UNCHANGED <<contacts, storedContacts, unremoved, expired, daemon, crashes>>

\* The change of the session was committed.
Committed == stored' = pairing'

\* Slip: the device is compared with the stored directory.
DeviceConflictStored(i) ==
    storedContacts[i.account] # NoPeer /\ storedContacts[i.account].device # i.device

\* Another device of a known account is refused.
DeviceConflict(i) ==
    contacts[i.account] # NoPeer /\ contacts[i.account].device # i.device

\* The contact of the peer's account takes the peer's binding.
RegisterApprovedContact(i, fails) ==
    IF DeviceConflict(i)
    THEN ~fails /\ UNCHANGED <<contacts, storedContacts, unremoved>>
    ELSE PersistContacts([contacts EXCEPT ![i.account] = i], fails)

-----------------------------------------------------------------------------
\* The operations of the authority

CreateInvite ==
    /\ Up /\ CanMarkInviteCreated(pairing)
    /\ Change(MarkInviteCreated(pairing))
    /\ UNCHANGED <<awaiting, ghosts>>

\* What confirmed i no longer counts.
Forget(i) ==
    IF Committed
    THEN vetted' = vetted \ {i} /\ relocked' = relocked \ {i}
    ELSE UNCHANGED <<vetted, relocked>>

\* stage_peer, from invites/stage, from the key package a guest left
\* (auto-sync), or from a consumed code: the guest then also waits for a
\* welcome, unless its own answer does not reach the relay.
StagePeer(i, consumed) ==
    /\ Up /\ CanVerifyPeer(pairing, i, expired)
    /\ Change(VerifyPeer(pairing, i))
    /\ awaiting' = (awaiting \/ (consumed /\ Committed))
    /\ IF pairing.state = "Established"
       THEN IF pairing.safety_verified /\ pairing.peer \in vetted
            THEN vetted' = vetted \cup {i} /\ UNCHANGED relocked
            ELSE relocked' = relocked \cup {i} /\ UNCHANGED vetted
       ELSE Forget(i)
    /\ dropped' = IF dropped = i THEN NoPeer ELSE dropped

Confirm(presented) ==
    /\ Up /\ CanConfirmSafety(pairing, presented)
    /\ Change(ConfirmSafety(pairing))
    /\ vetted' = IF pairing.safety_verified THEN vetted ELSE vetted \cup {presented}
    /\ UNCHANGED <<awaiting, relocked, dropped>>

Unverify ==
    /\ Up /\ CanUnverifySafety(pairing)
    /\ Change(UnverifySafety(pairing))
    /\ Forget(pairing.peer)
    /\ UNCHANGED <<awaiting, dropped>>

\* pairing/approve up to the release of the mutexes.  Nothing is registered
\* when the session's own commit fails.
ApprovePairing ==
    /\ Up
    /\ CanApprove(pairing, expired) \/ ApprovedBefore(pairing, expired)
    /\ \/ /\ Persist(Approve(pairing), TRUE) /\ Failing(1)
          /\ UNCHANGED <<contacts, storedContacts, unremoved>>
       \/ /\ Persist(Approve(pairing), FALSE)
          /\ \E fails \in BOOLEAN :
               /\ RegisterApprovedContact(pairing.peer, fails)
               /\ Failing(IF fails THEN 1 ELSE 0)
    /\ UNCHANGED <<awaiting, expired, daemon, crashes, ghosts>>

\* The last section of pairing/complete-session, after the welcome was
\* joined.  An approval that is refused or not committed is ignored.
CompleteSession ==
    LET accepted == CanApprove(pairing, expired) \/ ApprovedBefore(pairing, expired)
        p == IF accepted THEN Approve(pairing) ELSE pairing
    IN  /\ Up /\ awaiting
        /\ pairing.peer # NoPeer /\ pairing.peer \notin expired
        /\ \E f1, f2 \in BOOLEAN :
             /\ f1 => accepted
             /\ Persist(p, f1 \/ ~accepted)
             /\ RegisterApprovedContact(pairing.peer, f2)
             /\ Failing((IF f1 THEN 1 ELSE 0) + (IF f2 THEN 1 ELSE 0))
             /\ awaiting' = (f2 \/ DeviceConflict(pairing.peer))
        /\ UNCHANGED <<expired, daemon, crashes, ghosts>>

\* pairing/reject, or a relay that answers 410 for the bound capability.
RejectPairing ==
    /\ Up /\ CanReject(pairing)
    /\ Change(Reject(pairing))
    /\ dropped' = IF Committed THEN pairing.peer ELSE dropped
    /\ UNCHANGED <<awaiting, vetted, relocked>>

InvalidateBinding ==
    /\ Up /\ CanInvalidateBinding(pairing)
    /\ Change(Reject(pairing))
    /\ dropped' = IF Committed THEN pairing.peer ELSE dropped
    /\ UNCHANGED <<awaiting, vetted, relocked>>

\* The contact's part of contacts/delete; Rendezvous has the session's.
RemoveContact(a) ==
    /\ Up /\ contacts[a] # NoPeer
    /\ \E fails \in BOOLEAN :
         /\ PersistContacts([contacts EXCEPT ![a] = NoPeer], fails)
         /\ Failing(IF fails THEN 1 ELSE 0)
    /\ UNCHANGED <<pairing, stored, awaiting, expired, daemon, crashes, ghosts>>

\* An alias, a block, a bound conversation or a read mark of a contact, and
\* the batch of an incoming message, commit the directory as it is in memory.
UpdateContact ==
    /\ Up /\ \E a \in Accounts : contacts[a] # NoPeer
    /\ \E fails \in BOOLEAN :
         PersistContacts(contacts, fails) /\ Failing(IF fails THEN 1 ELSE 0)
    /\ UNCHANGED <<pairing, stored, awaiting, expired, daemon, crashes, ghosts>>

\* The directory becomes what its record says.
RestoreContacts == contacts' = storedContacts /\ unremoved' = {}

\* When the batch of an incoming message fails, the directory is read back.
MessageBatchFails ==
    /\ Up /\ RestoreContacts /\ Failing(1)
    /\ UNCHANGED <<pairing, stored, storedContacts, awaiting, expired, daemon,
                   crashes, ghosts>>

-----------------------------------------------------------------------------
\* Time, crashes, restarts

InviteExpires(i) ==
    /\ i \in Expiring \ expired /\ expired' = expired \cup {i}
    /\ UNCHANGED <<view, daemon, crashes, faults, ghosts, unremoved>>

Crash ==
    /\ Up /\ crashes < MaxCrashes
    /\ daemon' = "down" /\ crashes' = crashes + 1
    /\ UNCHANGED <<view, expired, faults, ghosts, unremoved>>

\* A crash between the two commits of an approval.
CrashInApproval ==
    /\ Up /\ crashes < MaxCrashes
    /\ CanApprove(pairing, expired) \/ ApprovedBefore(pairing, expired)
    /\ Persist(Approve(pairing), FALSE)
    /\ daemon' = "down" /\ crashes' = crashes + 1
    /\ UNCHANGED <<contacts, storedContacts, awaiting, expired, faults, ghosts, unremoved>>

Restart ==
    /\ daemon = "down"
    /\ IF RestorableSession(stored)
       THEN daemon' = "up" /\ pairing' = stored /\ RestoreContacts
       ELSE daemon' = "refused" /\ UNCHANGED <<pairing, contacts, unremoved>>
    /\ awaiting' = FALSE
    /\ UNCHANGED <<stored, storedContacts, expired, crashes, faults, ghosts>>

Next ==
    \/ CreateInvite \/ ApprovePairing \/ CompleteSession \/ Unverify
    \/ RejectPairing \/ InvalidateBinding \/ UpdateContact \/ MessageBatchFails
    \/ \E i \in Invites : Confirm(i) \/ InviteExpires(i)
    \/ \E i \in Invites, consumed \in BOOLEAN : StagePeer(i, consumed)
    \/ \E a \in Accounts : RemoveContact(a)
    \/ Crash \/ CrashInApproval \/ Restart

Spec == Init /\ [][Next]_vars

-----------------------------------------------------------------------------
\* Properties

Sessions == {pairing, stored}

\* Messaging opens only towards a peer whose confirmation stands: the user
\* compared its safety number after it was last staged or unlocked, or it was
\* staged on top of an established session with such a peer and inherits the
\* confirmation (verify_peer).  It holds of the stored session too, so a
\* restart opens nothing by itself, whatever commits failed.  The exception is
\* a peer staged on top of an established session that unverify_safety has
\* locked again: verify_peer confirms it although there is nothing to inherit.
OpenOnlyAfterComparison ==
    \A p \in Sessions :
        p.safety_verified /\ p.state \in {"Verified", "Established"}
            => p.peer \in vetted \cup relocked

\* Once a rejection (or the relay's 410) is committed, the rejected binding is
\* in neither the session nor its record until the user stages it again: no
\* restart, failed commit or new invite brings it back.
RejectedNotReused ==
    dropped # NoPeer => \A p \in Sessions : p.peer # dropped

\* The only stored session a restart refuses is one where a new invite was
\* made on top of an established pairing.
OnlyReplacedInviteBreaksRestore ==
    ~RestorableSession(stored) => stored.state = "InviteCreated" /\ stored.peer # NoPeer

\* A contact keeps its device: the binding of an account moves between invites
\* of one device only, also when a failed batch or a restart puts the stored
\* directory in the place of the one in memory (restore_contacts).  Only a
\* contact whose removal was answered with an error, and which was paired anew
\* from another device since, may come back with the device it had.
ContactKeepsDevice ==
    [][\A a \in Accounts :
        contacts[a] # NoPeer /\ contacts'[a] # NoPeer
            => contacts'[a].device = contacts[a].device \/ a \in unremoved]_vars
=============================================================================
