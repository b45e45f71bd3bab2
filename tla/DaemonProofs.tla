---------------------------- MODULE DaemonProofs ----------------------------
(***************************************************************************)
(* Proofs about one daemon: its pairing authority (module Pairing), for    *)
(* any set of invites and any number of crashes and failed commits; and    *)
(* the mutexes its handlers lock around the authority and the rest of the  *)
(* state (module Locks), for any number of slots and any set of handlers   *)
(* whose paths are well formed: mutexes are locked in the order of their   *)
(* numbers and none is held at the end.  The paths of all the handlers but *)
(* attachment_send are (HandlersWellFormed): a section that locks in order *)
(* is, and so is one well-formed path after another.                       *)
(***************************************************************************)
EXTENDS Pairing, Locks, TLAPS

-----------------------------------------------------------------------------
(* The pairing authority *)

\* What a commit of the session p leaves, stored or not (Persist in Change).
LEMMA ChangeEffect ==
    ASSUME NEW p \in Session, TypeOK, Change(p)
    PROVE  /\ pairing' = p /\ stored' \in {stored, p}
           /\ faults' \in 0..MaxFaults
           /\ UNCHANGED <<contacts, storedContacts, unremoved, expired, daemon, crashes>>
  BY SMTT(30), PairingAssumption DEF Change, Persist, Failing, TypeOK

\* The methods of PairingSession return sessions.
LEMMA MethodTypes ==
    ASSUME NEW p \in Session
    PROVE  /\ MarkInviteCreated(p) \in Session
           /\ \A i \in Invites : VerifyPeer(p, i) \in Session
           /\ Approve(p) \in Session /\ ConfirmSafety(p) \in Session
           /\ UnverifySafety(p) \in Session /\ Reject(p) \in Session
  BY Zenon DEF Session, PairingStates, MarkInviteCreated, VerifyPeer, Approve,
         ConfirmSafety, UnverifySafety, Reject

\* The three variables of the contact directory have their types.
DirectoryTyped ==
    contacts \in Directory /\ storedContacts \in Directory /\ unremoved \in SUBSET Accounts

\* A commit of a directory keeps it one, stored or not.
LEMMA PersistTypes ==
    ASSUME DirectoryTyped, NEW c \in Directory, NEW f \in BOOLEAN, PersistContacts(c, f)
    PROVE  DirectoryTyped'
  BY DEF DirectoryTyped, PersistContacts

\* register_approved_contact keeps the directory a directory.
LEMMA RegisterTypes ==
    ASSUME DirectoryTyped, NEW i \in Invites, NEW f \in BOOLEAN,
           RegisterApprovedContact(i, f)
    PROVE  DirectoryTyped'
<1>1. CASE DeviceConflict(i)
  BY <1>1 DEF DirectoryTyped, RegisterApprovedContact
<1>2. CASE ~DeviceConflict(i)
  <2>1. [contacts EXCEPT ![i.account] = i] \in Directory
    BY DEF DirectoryTyped, Directory
  <2> QED
    BY <1>2, <2>1, PersistTypes DEF RegisterApprovedContact
<1> QED
  BY <1>1, <1>2

\* Forgetting a confirmation leaves sets of invites.
LEMMA ForgetTypes ==
    ASSUME TypeOK, NEW i, Forget(i)
    PROVE  vetted' \in SUBSET Invites /\ relocked' \in SUBSET Invites
  BY DEF TypeOK, Forget

-----------------------------------------------------------------------------
\* Every value the daemon holds or stores for the pairing has its type, in
\* every behaviour of Pairing (state of PairingSession and ContactDirectory).
LEMMA Typing == Spec => []TypeOK
<1>1. Init => TypeOK
  <2>1. NewSession \in Session
    BY DEF NewSession, Session, PairingStates
  <2>2. [a \in Accounts |-> NoPeer] \in Directory
    BY DEF Directory
  <2>3. Init => awaiting \in BOOLEAN
    BY Zenon DEF Init
  <2> QED
    BY <2>1, <2>2, <2>3, PairingAssumption DEF Init, TypeOK
<1>2. TypeOK /\ [Next]_vars => TypeOK'
  <2> SUFFICES ASSUME TypeOK, [Next]_vars PROVE TypeOK'
    OBVIOUS
  <2> USE PairingAssumption
  <2>0. DirectoryTyped
    BY DEF TypeOK, DirectoryTyped
  <2>1. CASE CreateInvite
    BY <2>1, MethodTypes, ChangeEffect DEF TypeOK, CreateInvite, ghosts
  <2>2. CASE Unverify
    <3>1. Change(UnverifySafety(pairing)) /\ UNCHANGED <<awaiting, dropped>>
      BY <2>2 DEF Unverify
    <3>2. vetted' \in SUBSET Invites /\ relocked' \in SUBSET Invites
      BY <2>2, ForgetTypes DEF Unverify
    <3> QED
      BY SMTT(30), <3>1, <3>2, MethodTypes, ChangeEffect DEF TypeOK
  <2>3. CASE RejectPairing \/ InvalidateBinding
    <3>1. Reject(pairing) \in Session
      BY Zenon, MethodTypes DEF TypeOK, Session, PairingStates, Reject
    <3>2. Change(Reject(pairing)) /\ UNCHANGED <<awaiting, vetted, relocked>>
          /\ dropped' \in {pairing.peer, dropped}
      BY <2>3 DEF RejectPairing, InvalidateBinding
    <3> QED
      BY SMTT(30), <3>1, <3>2, ChangeEffect DEF TypeOK, Session
  <2>4. ASSUME NEW i \in Invites, Confirm(i) PROVE TypeOK'
    BY <2>4, MethodTypes, ChangeEffect DEF TypeOK, Confirm
  <2>5. ASSUME NEW i \in Invites, NEW c \in BOOLEAN, StagePeer(i, c) PROVE TypeOK'
    <3>1. Change(VerifyPeer(pairing, i)) /\ VerifyPeer(pairing, i) \in Session
      BY <2>5, MethodTypes DEF StagePeer, TypeOK
    <3>2. vetted' \in SUBSET Invites /\ relocked' \in SUBSET Invites
      <4>1. CASE pairing.state = "Established"
        BY <2>5, <4>1 DEF StagePeer, TypeOK
      <4>2. CASE pairing.state # "Established"
        BY <2>5, <4>2, ForgetTypes DEF StagePeer
      <4> QED
        BY <4>1, <4>2
    <3>3. awaiting' \in BOOLEAN /\ dropped' \in Invites \cup {NoPeer}
      BY <2>5 DEF StagePeer, TypeOK
    <3> QED
      BY SMTT(30), <3>1, <3>2, <3>3, ChangeEffect DEF TypeOK
  <2>6. CASE ApprovePairing
    <3>1. pairing.peer \in Invites
      BY <2>6 DEF ApprovePairing, CanApprove, ApprovedBefore, TypeOK, Session
    <3>2. pairing' \in Session /\ stored' \in Session /\ faults' \in 0..MaxFaults
      BY <2>6, <3>1, MethodTypes DEF ApprovePairing, Persist, Failing, TypeOK
    <3>3. UNCHANGED <<contacts, storedContacts, unremoved>>
          \/ \E f \in BOOLEAN : RegisterApprovedContact(pairing.peer, f)
      BY Zenon, <2>6 DEF ApprovePairing
    <3>4. DirectoryTyped'
      BY <2>0, <3>1, <3>3, RegisterTypes DEF DirectoryTyped
    <3> QED
      BY <2>6, <3>2, <3>4 DEF ApprovePairing, TypeOK, ghosts, DirectoryTyped
  <2>7. CASE CompleteSession
    <3> DEFINE accepted == CanApprove(pairing, expired) \/ ApprovedBefore(pairing, expired)
               p == IF accepted THEN Approve(pairing) ELSE pairing
    <3>1. pairing.peer \in Invites
      BY <2>7 DEF CompleteSession, TypeOK, Session
    <3>2. p \in Session
      BY <3>1, MethodTypes DEF TypeOK
    <3>3. PICK f1, f2 \in BOOLEAN :
             /\ Persist(p, f1 \/ ~accepted)
             /\ RegisterApprovedContact(pairing.peer, f2)
             /\ Failing((IF f1 THEN 1 ELSE 0) + (IF f2 THEN 1 ELSE 0))
             /\ awaiting' = (f2 \/ DeviceConflict(pairing.peer))
      BY <2>7 DEF CompleteSession
    <3>4. pairing' \in Session /\ stored' \in Session
      BY <3>2, <3>3 DEF Persist, TypeOK
    <3>5. faults' \in 0..MaxFaults
      BY <3>3 DEF Failing, TypeOK
    <3>6. DirectoryTyped'
      BY <2>0, <3>1, <3>3, RegisterTypes
    <3>7. awaiting' \in BOOLEAN
      BY <3>3 DEF DeviceConflict
    <3> QED
      BY <2>7, <3>4, <3>5, <3>6, <3>7 DEF CompleteSession, TypeOK, ghosts, DirectoryTyped
  <2>8. CASE UpdateContact \/ \E a \in Accounts : RemoveContact(a)
    <3>1. PICK c \in Directory, f \in BOOLEAN :
            PersistContacts(c, f) /\ Failing(IF f THEN 1 ELSE 0)
      BY <2>8 DEF UpdateContact, RemoveContact, TypeOK, Directory
    <3>2. DirectoryTyped' /\ faults' \in 0..MaxFaults
      BY <2>0, <3>1, PersistTypes DEF Failing, TypeOK
    <3>3. UNCHANGED <<pairing, stored, awaiting, expired, daemon, crashes, ghosts>>
      BY Zenon, <2>8 DEF UpdateContact, RemoveContact
    <3> QED
      BY <3>2, <3>3 DEF TypeOK, ghosts, DirectoryTyped
  <2>9. CASE MessageBatchFails
    BY <2>9 DEF TypeOK, MessageBatchFails, RestoreContacts, Failing, ghosts
  <2>10. ASSUME NEW i \in Invites, InviteExpires(i) PROVE TypeOK'
    BY <2>10 DEF TypeOK, InviteExpires, view, ghosts
  <2>11. CASE Crash
    BY <2>11 DEF TypeOK, Crash, view, ghosts
  <2>12. CASE CrashInApproval
    <3>1. pairing.peer \in Invites
      BY <2>12 DEF CrashInApproval, CanApprove, ApprovedBefore, TypeOK, Session
    <3> QED
      BY <2>12, <3>1, MethodTypes DEF TypeOK, CrashInApproval, Persist, ghosts
  <2>13. CASE Restart
    BY ZenonT(60), <2>13 DEF TypeOK, Restart, RestoreContacts, ghosts
  <2>14. CASE UNCHANGED vars
    BY <2>14 DEF TypeOK, vars, view, ghosts
  <2> QED
    BY <2>1, <2>2, <2>3, <2>4, <2>5, <2>6, <2>7, <2>8, <2>9, <2>10, <2>11,
       <2>12, <2>13, <2>14 DEF Next
<1> QED
  BY <1>1, <1>2, PTL DEF Spec

-----------------------------------------------------------------------------
(* The shape of a session, in memory and stored: a verified or established *)
(* one has a peer, a rejected or new one has none, and a safety number is  *)
(* confirmed only for a peer.  A new invite on top of an established       *)
(* session keeps both, which is why the state InviteCreated is not bound   *)
(* to either.                                                              *)
Shape(p) ==
    /\ p.state \in {"Verified", "Established"} => p.peer # NoPeer
    /\ p.state \in {"Idle", "Rejected"} => p.peer = NoPeer
    /\ p.safety_verified => p.peer # NoPeer

Compared(p, v) ==
    p.safety_verified /\ p.state \in {"Verified", "Established"} => p.peer \in v

Undropped(p, d) == d # NoPeer => p.peer # d

\* What is shown of the session in memory and of the stored one at once: with
\* TypeOK it is inductive, and it implies the three invariants.
Good(p, v, d) == Shape(p) /\ Compared(p, v) /\ Undropped(p, d)

\* The peers a session may be open towards.
Trusted == vetted \cup relocked

IInv == Good(pairing, Trusted, dropped) /\ Good(stored, Trusted, dropped)

\* A session stays good when more peers are trusted.
LEMMA TrustGrows ==
    ASSUME NEW p \in Session, NEW v, NEW w, NEW d, v \subseteq w, Good(p, v, d)
    PROVE  Good(p, w, d)
  BY DEF Good, Compared

\* The methods that stage no peer keep a session good.
LEMMA MethodsGood ==
    ASSUME NEW p \in Session, NEW v, NEW d, Good(p, v, d)
    PROVE  /\ Good(MarkInviteCreated(p), v, d)
           /\ \A w : Good(UnverifySafety(p), w, d)
           /\ p.state \in {"Verified", "Established"} /\ (p.state = "Verified" => p.safety_verified)
                => Good(Approve(p), v, d)
  BY DEF Session, PairingStates, Good, Shape, Compared, Undropped,
         MarkInviteCreated, UnverifySafety, Approve

\* A confirmation is forgotten only when the change is in both sessions.
LEMMA ForgetEffect ==
    ASSUME NEW i, Forget(i)
    PROVE  stored' = pairing' \/ Trusted' = Trusted
  BY DEF Forget, Committed, Trusted

\* The inductive invariant holds in every behaviour, whatever commits fail
\* and wherever the daemon crashes (the authority changes its memory before
\* it commits and does not undo).
THEOREM Inductive == Spec => []IInv
<1> USE InviteAssumption
<1>1. Init => IInv
  BY DEF Init, IInv, NewSession, Good, Shape, Compared, Undropped
<1>2. TypeOK /\ IInv /\ [Next]_vars => IInv'
  <2> SUFFICES ASSUME TypeOK, IInv, [Next]_vars PROVE IInv'
    OBVIOUS
  <2>1. pairing \in Session /\ stored \in Session
    BY DEF TypeOK
  <2>2. Good(pairing, Trusted, dropped) /\ Good(stored, Trusted, dropped)
    BY DEF IInv
  <2>0. UNCHANGED ghosts => Trusted' = Trusted /\ dropped' = dropped
    BY DEF ghosts, Trusted
  <2>3. CASE CreateInvite
    <3>1. pairing' = MarkInviteCreated(pairing) /\ stored' \in {stored, pairing'}
          /\ Trusted' = Trusted /\ dropped' = dropped
      BY <2>0, <2>1, <2>3, MethodTypes, ChangeEffect DEF CreateInvite
    <3> QED
      BY <2>1, <2>2, <3>1, MethodsGood DEF IInv
  <2>4. CASE Unverify
    <3>1. pairing' = UnverifySafety(pairing) /\ stored' \in {stored, pairing'}
          /\ dropped' = dropped
      BY <2>1, <2>4, MethodTypes, ChangeEffect DEF Unverify
    <3>2. stored' = pairing' \/ Trusted' = Trusted
      BY <2>4, ForgetEffect DEF Unverify
    <3>3. \A w : Good(UnverifySafety(pairing), w, dropped)
      BY <2>1, <2>2, MethodsGood
    <3> QED
      BY <2>2, <3>1, <3>2, <3>3 DEF IInv
  <2>5. CASE RejectPairing \/ InvalidateBinding
    <3>1. pairing' = Reject(pairing) /\ stored' \in {stored, pairing'}
      BY <2>1, <2>5, MethodTypes, ChangeEffect DEF RejectPairing, InvalidateBinding
    <3>2. Trusted' = Trusted
          /\ dropped' = IF stored' = pairing' THEN pairing.peer ELSE dropped
      BY <2>5 DEF RejectPairing, InvalidateBinding, Trusted, Committed
    <3>3. \A v, d : Good(Reject(pairing), v, d)
      BY <2>1 DEF Session, Reject, Good, Shape, Compared, Undropped
    <3>4. CASE stored' = pairing'
      BY <3>1, <3>3, <3>4 DEF IInv
    <3>5. CASE stored' # pairing'
      BY <2>2, <3>1, <3>2, <3>3, <3>5 DEF IInv
    <3> QED
      BY <3>4, <3>5
  <2>6. ASSUME NEW i \in Invites, Confirm(i) PROVE IInv'
    <3>1. pairing' = ConfirmSafety(pairing) /\ stored' \in {stored, pairing'}
      BY <2>1, <2>6, MethodTypes, ChangeEffect DEF Confirm
    <3>2. Trusted' = (IF pairing.safety_verified THEN Trusted ELSE Trusted \cup {i})
          /\ dropped' = dropped /\ Trusted \subseteq Trusted'
      BY <2>6 DEF Confirm, Trusted
    <3>3. Good(ConfirmSafety(pairing), Trusted', dropped)
      BY <2>1, <2>2, <2>6, <3>2
      DEF Session, Confirm, CanConfirmSafety, CanReconfirm, ConfirmSafety, Good,
          Shape, Compared, Undropped
    <3> QED
      BY <2>1, <2>2, <3>1, <3>2, <3>3, TrustGrows DEF IInv
  <2>7. ASSUME NEW i \in Invites, NEW c \in BOOLEAN, StagePeer(i, c) PROVE IInv'
    <3>1. pairing' = VerifyPeer(pairing, i) /\ stored' \in {stored, pairing'}
      BY <2>1, <2>7, MethodTypes, ChangeEffect DEF StagePeer
    <3>2. /\ pairing.state = "Established" => Trusted' = Trusted \cup {i}
          /\ pairing.state # "Established" => stored' = pairing' \/ Trusted' = Trusted
          /\ dropped' = (IF dropped = i THEN NoPeer ELSE dropped)
      <4>1. CASE pairing.state = "Established"
        BY <2>7, <4>1 DEF StagePeer, Trusted
      <4>2. CASE pairing.state # "Established"
        BY <2>7, <4>2, ForgetEffect DEF StagePeer
      <4> QED
        BY <4>1, <4>2
    <3>3. Good(VerifyPeer(pairing, i), Trusted', dropped')
      BY <2>1, <2>7, <3>2
      DEF Session, PairingStates, VerifyPeer, Good, Shape, Compared, Undropped
    <3>4. stored' = pairing' \/ Good(stored, Trusted', dropped')
      BY <2>1, <2>2, <3>2 DEF Good, Shape, Compared, Undropped
    <3> QED
      BY <3>1, <3>3, <3>4 DEF IInv
  <2>8. CASE ApprovePairing \/ CrashInApproval
    <3>1. CanApprove(pairing, expired) \/ ApprovedBefore(pairing, expired)
      BY Zenon, <2>8 DEF ApprovePairing, CrashInApproval
    <3>2. pairing' = Approve(pairing) /\ stored' \in {stored, pairing'}
          /\ UNCHANGED ghosts
      BY <2>8 DEF ApprovePairing, CrashInApproval, Persist
    <3> QED
      BY <2>0, <2>1, <2>2, <3>1, <3>2, MethodsGood DEF CanApprove, ApprovedBefore, IInv
  <2>9. CASE CompleteSession
    <3> DEFINE accepted == CanApprove(pairing, expired) \/ ApprovedBefore(pairing, expired)
    <3>1. /\ pairing' = IF accepted THEN Approve(pairing) ELSE pairing
          /\ stored' \in {stored, pairing'} /\ UNCHANGED ghosts
      BY <2>9 DEF CompleteSession, Persist
    <3>2. accepted => Good(Approve(pairing), Trusted, dropped)
      BY <2>1, <2>2, MethodsGood DEF CanApprove, ApprovedBefore
    <3> QED
      BY <2>0, <2>2, <3>1, <3>2 DEF IInv
  <2>10. CASE UpdateContact \/ MessageBatchFails \/ \E a \in Accounts : RemoveContact(a)
    <3>1. UNCHANGED <<pairing, stored, ghosts>>
      BY Zenon, <2>10 DEF UpdateContact, MessageBatchFails, RemoveContact
    <3> QED
      BY <2>0, <2>2, <3>1 DEF IInv
  <2>11. CASE Crash \/ \E i \in Invites : InviteExpires(i)
    BY <2>0, <2>2, <2>11 DEF Crash, InviteExpires, IInv, view
  <2>12. CASE Restart
    BY <2>0, <2>2, <2>12 DEF Restart, IInv
  <2>13. CASE UNCHANGED vars
    BY <2>0, <2>2, <2>13 DEF IInv, vars, view
  <2> QED
    BY <2>3, <2>4, <2>5, <2>6, <2>7, <2>8, <2>9, <2>10, <2>11, <2>12, <2>13 DEF Next
<1> QED
  BY <1>1, <1>2, Typing, PTL DEF Spec

-----------------------------------------------------------------------------
\* Messaging opens, now or after a restart, only towards a peer whose
\* confirmation stands, or who was staged on top of an established session
\* that had been locked again (can_message, verify_peer, confirm_safety,
\* unverify_safety of PairingSession).
THEOREM OpenNeedsComparison == Spec => []OpenOnlyAfterComparison
<1>1. IInv => OpenOnlyAfterComparison
  BY DEF IInv, Good, Compared, Trusted, OpenOnlyAfterComparison, Sessions
<1> QED
  BY <1>1, Inductive, PTL

\* A rejected binding stays out of the session and its record until it is
\* staged again (reject, invalidate_binding).
THEOREM RejectionHolds == Spec => []RejectedNotReused
<1>1. IInv => RejectedNotReused
  BY DEF IInv, Good, Undropped, RejectedNotReused, Sessions
<1> QED
  BY <1>1, Inductive, PTL

\* The stored session a restart refuses is always a new invite on top of an
\* established pairing (mark_invite_created against restore).
THEOREM OnlyReplacedInviteRefused == Spec => []OnlyReplacedInviteBreaksRestore
<1>1. TypeOK /\ IInv => OnlyReplacedInviteBreaksRestore
  BY DEF TypeOK, Session, PairingStates, IInv, Good, Shape,
         RestorableSession, OnlyReplacedInviteBreaksRestore
<1> QED
  BY <1>1, Typing, Inductive, PTL

-----------------------------------------------------------------------------
\* A stored contact is in memory too, from the same device, unless its removal
\* was not committed: what restore_contacts puts back is no other device.
Agree(a) ==
    storedContacts[a] # NoPeer =>
      \/ a \in unremoved
      \/ contacts[a] # NoPeer /\ contacts[a].device = storedContacts[a].device

DirectoriesAgree == \A a \in Accounts : Agree(a)

SameDevice ==
    \A a \in Accounts :
        contacts[a] # NoPeer /\ contacts'[a] # NoPeer
            => contacts'[a].device = contacts[a].device \/ a \in unremoved

\* upsert_verified refuses another device of a known account, so that a
\* directory in memory stays in agreement with its record.
LEMMA RegisterKeepsDevice ==
    ASSUME DirectoryTyped, DirectoriesAgree, NEW i \in Invites, NEW f \in BOOLEAN,
           RegisterApprovedContact(i, f)
    PROVE  SameDevice /\ DirectoriesAgree'
<1>1. CASE DeviceConflict(i)
  BY <1>1 DEF RegisterApprovedContact, SameDevice, DirectoriesAgree, Agree
<1>2. CASE ~DeviceConflict(i)
  <2>1. contacts' = [contacts EXCEPT ![i.account] = i] /\ i.account \in Accounts
    BY <1>2 DEF RegisterApprovedContact, PersistContacts, Accounts
  <2>2. /\ storedContacts' = IF f THEN storedContacts ELSE contacts'
        /\ f => unremoved \subseteq unremoved'
    BY <1>2, <2>1 DEF RegisterApprovedContact, PersistContacts
  <2>3. SameDevice
    BY <1>2, <2>1 DEF DirectoryTyped, Directory, DeviceConflict, SameDevice
  <2>4. ASSUME NEW a \in Accounts PROVE Agree(a)'
    <3>1. CASE ~f
      BY <2>2, <3>1 DEF Agree
    <3>2. CASE f /\ a # i.account
      BY <2>1, <2>2, <3>2 DEF Agree, DirectoriesAgree, DirectoryTyped, Directory
    <3>3. CASE f /\ a = i.account
      BY <1>2, <2>1, <2>2, <3>3, InviteAssumption
      DEF Agree, DirectoriesAgree, DirectoryTyped, Directory, DeviceConflict
    <3> QED
      BY <3>1, <3>2, <3>3
  <2> QED
    BY <2>3, <2>4 DEF DirectoriesAgree
<1> QED
  BY <1>1, <1>2

\* Every step keeps the two directories in agreement and moves no contact to
\* another device.
LEMMA DirectoryStep ==
    ASSUME TypeOK, DirectoriesAgree, [Next]_vars
    PROVE  DirectoriesAgree' /\ SameDevice
<1>0. DirectoryTyped
  BY DEF TypeOK, DirectoryTyped
<1>1. CASE UNCHANGED <<contacts, storedContacts, unremoved>>
  BY <1>1 DEF DirectoriesAgree, Agree, SameDevice
<1>2. CASE ApprovePairing
  <2>1. pairing.peer \in Invites
    BY <1>2 DEF ApprovePairing, CanApprove, ApprovedBefore, TypeOK, Session
  <2> QED
    BY Zenon, <1>0, <1>1, <1>2, <2>1, RegisterKeepsDevice DEF ApprovePairing
<1>3. CASE CompleteSession
  <2>1. pairing.peer \in Invites
    BY <1>3 DEF CompleteSession, TypeOK, Session
  <2>2. \E f \in BOOLEAN : RegisterApprovedContact(pairing.peer, f)
    BY <1>3 DEF CompleteSession
  <2> QED
    BY <1>0, <2>1, <2>2, RegisterKeepsDevice
<1>4. ASSUME NEW a \in Accounts, RemoveContact(a)
      PROVE  DirectoriesAgree' /\ SameDevice
  <2>1. PICK f \in BOOLEAN : PersistContacts([contacts EXCEPT ![a] = NoPeer], f)
    BY <1>4 DEF RemoveContact
  <2>2. /\ contacts' = [contacts EXCEPT ![a] = NoPeer] /\ contacts[a] # NoPeer
        /\ storedContacts' = IF f THEN storedContacts ELSE contacts'
        /\ f => unremoved \cup {a} \subseteq unremoved'
    BY <1>0, <1>4, <2>1 DEF RemoveContact, PersistContacts, DirectoryTyped, Directory
  <2>3. SameDevice
    BY <1>0, <2>2 DEF SameDevice, DirectoryTyped, Directory
  <2>4. ASSUME NEW b \in Accounts PROVE Agree(b)'
    BY <1>0, <2>2 DEF Agree, DirectoriesAgree, DirectoryTyped, Directory
  <2> QED
    BY <2>3, <2>4 DEF DirectoriesAgree
<1>5. CASE UpdateContact
  <2>1. PICK f \in BOOLEAN : PersistContacts(contacts, f)
    BY <1>5 DEF UpdateContact
  <2>2. /\ contacts' = contacts
        /\ storedContacts' = IF f THEN storedContacts ELSE contacts
        /\ f => unremoved \subseteq unremoved'
    BY <2>1 DEF PersistContacts
  <2> QED
    BY <2>2 DEF DirectoriesAgree, Agree, SameDevice
<1>6. CASE MessageBatchFails \/ Restart
  <2>1. CASE RestoreContacts /\ storedContacts' = storedContacts
    BY <1>0, <2>1 DEF RestoreContacts, DirectoriesAgree, Agree, SameDevice,
                      DirectoryTyped, Directory
  <2>2. \/ RestoreContacts /\ storedContacts' = storedContacts
        \/ UNCHANGED <<contacts, storedContacts, unremoved>>
    BY Zenon, <1>6 DEF MessageBatchFails, Restart
  <2> QED
    BY <1>1, <2>1, <2>2, Zenon
<1>7. CASE UNCHANGED vars
  BY <1>1, <1>7 DEF vars, view
<1> QED
  BY Zenon, <1>1, <1>2, <1>3, <1>4, <1>5, <1>6, <1>7
  DEF Next, CreateInvite, Unverify, RejectPairing, InvalidateBinding, Confirm,
      StagePeer, Change, InviteExpires, Crash, CrashInApproval, view

\* No registration, failed batch or restart moves a contact to another device,
\* unless its removal was answered with an error (register_approved_contact,
\* contacts/delete, restore_contacts).
THEOREM ContactsKeepTheirDevice == Spec => ContactKeepsDevice
<1>1. Init => DirectoriesAgree
  BY DEF Init, DirectoriesAgree, Agree
<1>2. TypeOK /\ DirectoriesAgree /\ [Next]_vars => DirectoriesAgree' /\ [SameDevice]_vars
  BY DirectoryStep
<1>3. ContactKeepsDevice <=> [][SameDevice]_vars
  BY PTL DEF ContactKeepsDevice, SameDevice
<1> QED
  BY <1>1, <1>2, <1>3, Typing, PTL DEF Spec

-----------------------------------------------------------------------------
(* The mutexes of the handlers *)

\* A websocket upgrade follows a path too.
LEMMA WebsocketType == WebsocketPaths \subseteq Seq(Step)
<1>1. <<Bridge>> \in Seq(Step) /\ <<Release>> \in Seq(Step)
  BY DEF Bridge, Release, Step
<1>2. \A s, t \in Seq(Step) : s \o t \in Seq(Step)
  OBVIOUS
<1>3. BridgeOnly \in Seq(Step)
  BY <1>1, <1>2 DEF BridgeOnly, Section
<1> QED
  BY <1>2, <1>3 DEF WebsocketPaths

\* Every worker has a path, a counter and every mutex an owner, whatever the
\* handlers do (AppState, blocking_slots).
LEMMA LocksTyping == LocksSpec => []LocksTypeOK
<1> USE LocksAssumption
<1>1. LocksInit => LocksTypeOK
  BY DEF LocksInit, LocksTypeOK
<1>2. LocksTypeOK /\ [LocksNext]_locksVars => LocksTypeOK'
  <2> SUFFICES ASSUME LocksTypeOK, [LocksNext]_locksVars PROVE LocksTypeOK'
    OBVIOUS
  <2>1. ASSUME NEW w \in Slots, NEW p \in Paths, Begin(w, p), UNCHANGED upgrades
        PROVE  LocksTypeOK'
    BY <2>1 DEF LocksTypeOK, Begin, Workers
  <2>2. CASE Upgrade
    BY <2>2, WebsocketType DEF LocksTypeOK, Upgrade, Begin, Workers
  <2>3. ASSUME NEW w \in Workers, Work(w) PROVE LocksTypeOK'
    <3>1. ASSUME NEW m \in Mutexes, Lock(w, m) PROVE LocksTypeOK'
      BY <2>3, <3>1 DEF LocksTypeOK, Lock, Work, Advance
    <3>2. CASE Unlock(w)
      <4>1. owner' \in [Mutexes -> Workers \cup {Nobody}]
        BY <3>2 DEF LocksTypeOK, Unlock
      <4>2. path' \in [Workers -> Seq(Step)] /\ pc' \in [Workers -> Nat \ {0}]
        <5>1. CASE Advance(w)
          BY <5>1 DEF LocksTypeOK, Advance
        <5>2. CASE Return(w)
          BY <5>2 DEF LocksTypeOK, Return
        <5> QED
          BY <3>2, <5>1, <5>2 DEF Unlock
      <4> QED
        BY <2>3, <4>1, <4>2 DEF LocksTypeOK, Work
    <3>3. CASE RelayEnds(w)
      BY <2>3, <3>3 DEF LocksTypeOK, RelayEnds, Work, Advance
    <3>4. CASE End(w)
      BY <2>3, <3>4 DEF LocksTypeOK, End, Work, Return
    <3> QED
      BY <2>3, <3>1, <3>2, <3>3, <3>4 DEF Work
  <2>4. CASE UNCHANGED locksVars
    BY <2>4 DEF LocksTypeOK, locksVars
  <2> QED
    BY <2>1, <2>2, <2>3, <2>4 DEF LocksNext
<1> QED
  BY <1>1, <1>2, PTL DEF LocksSpec

-----------------------------------------------------------------------------
\* What a handler holds as it goes along its path.
LEMMA HeldAtStart == \A p : HeldAt(p, 1) = {}
  BY DEF HeldAt

\* A step that releases nothing keeps what is held and adds what it locks.
LEMMA HeldAfter ==
    ASSUME NEW p \in Seq(Step), NEW j \in 1..Len(p), p[j] # Release
    PROVE  /\ HeldAt(p, j) \subseteq HeldAt(p, j + 1)
           /\ p[j] \in Mutexes => p[j] \in HeldAt(p, j + 1)
<1> DEFINE Live(k, n) == p[k] \in Mutexes /\ \A i \in k..(n - 1) : p[i] # Release
<1>1. \A k \in 1..(j - 1) : Live(k, j) => Live(k, j + 1)
  OBVIOUS
<1>2. HeldAt(p, j) = {p[k] : k \in {i \in 1..(j - 1) : Live(i, j)}}
  BY DEF HeldAt
<1>3. HeldAt(p, j + 1) = {p[k] : k \in {i \in 1..j : Live(i, j + 1)}}
  BY DEF HeldAt
<1>4. p[j] \in Mutexes => Live(j, j + 1)
  OBVIOUS
<1>5. \A k \in 1..(j - 1) : k \in 1..j
  OBVIOUS
<1>6. j \in 1..j
  OBVIOUS
<1> HIDE DEF Live
<1>7. HeldAt(p, j) \subseteq HeldAt(p, j + 1)
  <2> SUFFICES ASSUME NEW m \in HeldAt(p, j)
               PROVE  m \in HeldAt(p, j + 1)
    OBVIOUS
  <2>1. PICK k \in 1..(j - 1) : Live(k, j) /\ m = p[k]
    BY <1>2, Zenon
  <2>2. k \in 1..j /\ Live(k, j + 1)
    BY <1>1, <1>5, <2>1, Zenon
  <2> QED
    BY <1>3, <2>1, <2>2, Zenon
<1>8. p[j] \in Mutexes => p[j] \in HeldAt(p, j + 1)
  BY <1>3, <1>4, <1>6, Zenon
<1> QED
  BY <1>7, <1>8

-----------------------------------------------------------------------------
(* The owner of a mutex locked it on the path it is on and has not         *)
(* released it since.  LocksInit satisfies it, every step keeps it, and with    *)
(* the order of the locks on a path it rules out a circle of waits.        *)
Held ==
    /\ \A w \in Workers : path[w] = <<>> \/ path[w] \in Paths \cup WebsocketPaths
    /\ \A w \in Workers : pc[w] \in 1..(Len(path[w]) + 1)
    /\ \A m \in Mutexes, w \in Workers : owner[m] = w => m \in HeldAt(path[w], pc[w])

\* A handler that begins holds nothing yet.
LEMMA BeginKeepsHeld ==
    ASSUME LocksTypeOK, Held, NEW w \in Workers, NEW p \in Paths \cup WebsocketPaths,
           p \in Seq(Step), Begin(w, p)
    PROVE  Held'
<1>1. path[w] = <<>> /\ pc[w] = 1
  BY DEF Begin, Busy, Held, LocksTypeOK
<1>2. \A m \in Mutexes : owner[m] # w
  BY <1>1, HeldAtStart DEF Held
<1>3. path' = [path EXCEPT ![w] = p] /\ pc' = pc /\ owner' = owner
  BY DEF Begin
<1>4. \A v \in Workers : path'[v] = <<>> \/ path'[v] \in Paths \cup WebsocketPaths
  BY <1>3 DEF Held, LocksTypeOK
<1>5. \A v \in Workers : pc'[v] \in 1..(Len(path'[v]) + 1)
  BY <1>1, <1>3 DEF Held, LocksTypeOK
<1>6. \A m \in Mutexes, v \in Workers : owner'[m] = v => m \in HeldAt(path'[v], pc'[v])
  BY <1>2, <1>3 DEF Held, LocksTypeOK
<1> QED
  BY <1>4, <1>5, <1>6 DEF Held

\* The path holds no mutex at its end.
ReleasesAll(p) == HeldAt(p, Len(p) + 1) = {}

\* Every step along a path keeps owners and paths in agreement.
LEMMA WorkKeepsHeld ==
    ASSUME LocksTypeOK, Held, \A p \in Paths \cup WebsocketPaths : ReleasesAll(p),
           NEW w \in Workers, Work(w)
    PROVE  Held'
<1> USE LocksAssumption
<1>1. path[w] \in Seq(Step) /\ pc[w] \in Nat \ {0}
  BY DEF LocksTypeOK
<1>2. ASSUME NEW m \in Mutexes, Lock(w, m) PROVE Held'
  <2>1. /\ owner[m] = Nobody /\ owner' = [owner EXCEPT ![m] = w]
        /\ pc' = [pc EXCEPT ![w] = pc[w] + 1] /\ path' = path
        /\ pc[w] \in 1..Len(path[w]) /\ path[w][pc[w]] = m
    BY <1>2 DEF Lock, AtStep, Advance
  <2>2. m # Release
    BY DEF Mutexes, Release
  <2>3. HeldAt(path[w], pc[w]) \cup {m} \subseteq HeldAt(path[w], pc[w] + 1)
    BY <1>1, <2>1, <2>2, HeldAfter
  <2>4. \A v \in Workers : pc'[v] \in 1..(Len(path'[v]) + 1)
    BY <1>1, <2>1 DEF Held, LocksTypeOK
  <2>5. \A n \in Mutexes, v \in Workers : owner'[n] = v => n \in HeldAt(path'[v], pc'[v])
    <3> SUFFICES ASSUME NEW n \in Mutexes, NEW v \in Workers, owner'[n] = v
                 PROVE  n \in HeldAt(path[v], pc'[v])
      BY <2>1
    <3>1. CASE v = w
      BY <2>1, <2>3, <3>1 DEF Held, LocksTypeOK
    <3>2. CASE v # w
      BY <2>1, <3>2 DEF Held, LocksTypeOK
    <3> QED
      BY <3>1, <3>2
  <2> QED
    BY <2>1, <2>4, <2>5 DEF Held
<1>3. CASE Unlock(w)
  <2>1. owner' = [m \in Mutexes |-> IF owner[m] = w THEN Nobody ELSE owner[m]]
        /\ pc[w] \in 1..Len(path[w]) /\ (Advance(w) \/ Return(w))
    BY <1>3 DEF Unlock, AtStep
  <2>2. \A m \in Mutexes, v \in Workers : owner'[m] = v => v # w /\ owner[m] = v
    BY <2>1 DEF LocksTypeOK, Workers
  <2>3. \A v \in Workers : v # w => path'[v] = path[v] /\ pc'[v] = pc[v]
    BY <2>1 DEF Advance, Return, LocksTypeOK
  <2>4. path'[w] \in {<<>>, path[w]} /\ pc'[w] \in 1..(Len(path'[w]) + 1)
    BY <1>1, <2>1 DEF Advance, Return, LocksTypeOK
  <2> QED
    BY <2>2, <2>3, <2>4 DEF Held
<1>4. CASE RelayEnds(w)
  <2>1. /\ owner' = owner /\ pc' = [pc EXCEPT ![w] = pc[w] + 1] /\ path' = path
        /\ pc[w] \in 1..Len(path[w]) /\ path[w][pc[w]] = Relay
    BY <1>4 DEF RelayEnds, AtStep, Advance
  <2>2. HeldAt(path[w], pc[w]) \subseteq HeldAt(path[w], pc[w] + 1)
    BY <1>1, <2>1, HeldAfter DEF Relay, Release
  <2>3. \A v \in Workers : pc'[v] \in 1..(Len(path'[v]) + 1)
    BY <1>1, <2>1 DEF Held, LocksTypeOK
  <2>4. \A m \in Mutexes, v \in Workers : owner'[m] = v => m \in HeldAt(path'[v], pc'[v])
    BY <2>1, <2>2 DEF Held, LocksTypeOK
  <2> QED
    BY <2>1, <2>3, <2>4 DEF Held
<1>5. CASE End(w)
  <2>1. path' = [path EXCEPT ![w] = <<>>] /\ pc' = [pc EXCEPT ![w] = 1] /\ owner' = owner
        /\ path[w] # <<>> /\ pc[w] > Len(path[w])
    BY <1>5 DEF End, Busy, Return
  <2>2. ReleasesAll(path[w]) /\ pc[w] = Len(path[w]) + 1
    BY <1>1, <2>1 DEF Held
  <2>3. \A m \in Mutexes : owner[m] # w
    BY <2>2 DEF Held, ReleasesAll
  <2>4. \A v \in Workers : path'[v] = <<>> \/ path'[v] \in Paths \cup WebsocketPaths
    BY <2>1 DEF Held, LocksTypeOK
  <2>5. \A v \in Workers : pc'[v] \in 1..(Len(path'[v]) + 1)
    BY <2>1 DEF Held, LocksTypeOK
  <2>6. \A m \in Mutexes, v \in Workers : owner'[m] = v => m \in HeldAt(path'[v], pc'[v])
    BY <2>1, <2>3 DEF Held, LocksTypeOK
  <2> QED
    BY <2>4, <2>5, <2>6 DEF Held
<1> QED
  BY <1>2, <1>3, <1>4, <1>5 DEF Work

\* A guard is live only where its handler's path says so.
THEOREM OwnersHold ==
    ASSUME \A p \in Paths \cup WebsocketPaths : ReleasesAll(p)
    PROVE  LocksSpec => []Held
<1>1. LocksInit => Held
  BY LocksAssumption DEF LocksInit, Held, Workers
<1>2. LocksTypeOK /\ Held /\ [LocksNext]_locksVars => Held'
  <2> SUFFICES ASSUME LocksTypeOK, Held, [LocksNext]_locksVars PROVE Held'
    OBVIOUS
  <2>1. ASSUME NEW w \in Slots, NEW p \in Paths, Begin(w, p) PROVE Held'
    BY <2>1, BeginKeepsHeld, LocksAssumption DEF Workers
  <2>2. CASE Upgrade
    BY <2>2, BeginKeepsHeld, WebsocketType DEF Upgrade, Workers
  <2>3. ASSUME NEW w \in Workers, Work(w) PROVE Held'
    BY <2>3, WorkKeepsHeld
  <2>4. CASE UNCHANGED locksVars
    BY <2>4 DEF Held, locksVars
  <2> QED
    BY <2>1, <2>2, <2>3, <2>4 DEF LocksNext
<1> QED
  BY <1>1, <1>2, LocksTyping, PTL DEF LocksSpec

\* A worker that waits for m waits only for mutexes above those it owns.
LEMMA WaitsUpwards ==
    ASSUME LocksTypeOK, Held, \A p \in Paths \cup WebsocketPaths : WellFormed(p),
           NEW w \in Workers, NEW m \in Mutexes, NEW n \in Mutexes,
           owner[m] = w, Waits(w, n)
    PROVE  m < n
<1>1. m \in HeldAt(path[w], pc[w])
  BY DEF Held
<1>2. pc[w] \in 1..Len(path[w]) /\ path[w][pc[w]] = n
  BY DEF Waits, AtStep
<1>3. LocksInOrder(path[w])
  BY <1>2 DEF Held, WellFormed
<1> QED
  BY <1>1, <1>2, <1>3 DEF LocksInOrder

\* No handlers of the daemon wait for each other in a circle, for any number
\* of slots, when every path locks in order (the lock order of http_server.rs).
\* The worker of a circle that waits for the highest mutex would wait for one
\* that waits for a higher one.
THEOREM OrderedHandlersNeverCircle ==
    ASSUME \A p \in Paths \cup WebsocketPaths : WellFormed(p)
    PROVE  LocksSpec => []NoCircularWait
<1>1. LocksTypeOK /\ Held => NoCircularWait
  <2> SUFFICES ASSUME LocksTypeOK, Held, NEW S \in SUBSET Workers,
                      \A w \in S : \E m \in Mutexes : Waits(w, m) /\ owner[m] \in S
               PROVE  S = {}
    BY Zenon DEF NoCircularWait
  <2> DEFINE Circle(m) == \E w \in S : Waits(w, m) /\ owner[m] \in S
  <2>1. \A m \in Mutexes : Circle(m) => \E n \in Mutexes : m < n /\ Circle(n)
    <3> SUFFICES ASSUME NEW m \in Mutexes, owner[m] \in S
                 PROVE  \E n \in Mutexes : m < n /\ Circle(n)
      OBVIOUS
    <3>1. PICK n \in Mutexes : Waits(owner[m], n) /\ owner[n] \in S
      OBVIOUS
    <3> QED
      BY <3>1, WaitsUpwards
  <2>2. \A m \in Mutexes : ~Circle(m)
    <3> HIDE DEF Circle
    <3>1. ~Circle(5)
      BY <2>1 DEF Mutexes
    <3>2. ~Circle(4)
      BY <2>1, <3>1 DEF Mutexes
    <3>3. ~Circle(3)
      BY <2>1, <3>1, <3>2 DEF Mutexes
    <3>4. ~Circle(2)
      BY <2>1, <3>1, <3>2, <3>3 DEF Mutexes
    <3>5. ~Circle(1)
      BY <2>1, <3>1, <3>2, <3>3, <3>4 DEF Mutexes
    <3> QED
      BY <3>1, <3>2, <3>3, <3>4, <3>5 DEF Mutexes
  <2> QED
    BY <2>2
<1>2. \A p \in Paths \cup WebsocketPaths : ReleasesAll(p)
  BY DEF WellFormed, ReleasesAll
<1>3. LocksSpec => []Held
  BY <1>2, OwnersHold
<1> QED
  BY <1>1, <1>3, LocksTyping, PTL

-----------------------------------------------------------------------------
\* HeldAt by its elements.
LEMMA HeldAtMember ==
    ASSUME NEW p, NEW j, NEW m
    PROVE  m \in HeldAt(p, j) <=>
             \E k \in 1..(j - 1) : /\ p[k] = m /\ p[k] \in Mutexes
                                   /\ \A n \in k..(j - 1) : p[n] # Release
  BY DEF HeldAt

\* One section that locks upwards, with a relay request at its end or without.
LEMMA SectionWellFormed ==
    ASSUME NEW l \in Seq(Step \ {Release}),
           \A i, j \in 1..Len(l) : i < j => l[i] < l[j]
    PROVE  Section(l) \in Seq(Step) /\ WellFormed(Section(l))
<1> DEFINE p == Section(l)
<1>1. /\ p \in Seq(Step) /\ Len(p) = Len(l) + 1 /\ Len(l) \in Nat
      /\ \A i \in 1..Len(l) : p[i] = l[i] /\ p[i] \in Step
      /\ p[Len(p)] = Release
  BY DEF Section, Step, Release
<1> HIDE DEF p
<1>2. ASSUME NEW j \in 1..Len(p), p[j] \in Mutexes, NEW m \in HeldAt(p, j)
      PROVE  m < p[j]
  <2>1. PICK k \in 1..(j - 1) : p[k] = m
    BY HeldAtMember
  <2>2. j # Len(p)
    BY <1>1, <1>2 DEF Mutexes, Release
  <2> QED
    BY <1>1, <2>1, <2>2
<1>3. HeldAt(p, Len(p) + 1) = {}
  <2> SUFFICES ASSUME NEW m \in HeldAt(p, Len(p) + 1) PROVE FALSE
    OBVIOUS
  <2>1. PICK k \in 1..Len(p) : \A n \in k..Len(p) : p[n] # Release
    BY <1>1, HeldAtMember
  <2> QED
    BY <1>1, <2>1
<1> QED
  BY <1>1, <1>2, <1>3 DEF WellFormed, LocksInOrder, p

\* A relay request with no mutex held, and no step at all.
LEMMA UnlockedWellFormed ==
    /\ <<Relay>> \in Seq(Step) /\ WellFormed(<<Relay>>)
    /\ <<>> \in Seq(Step) /\ WellFormed(<<>>)
<1>1. <<Relay>> \in Seq(Step) /\ <<Relay>>[1] \notin Mutexes /\ Len(<<Relay>>) = 1
  BY DEF Relay, Step, Mutexes
<1>2. WellFormed(<<Relay>>)
  BY <1>1 DEF WellFormed, LocksInOrder, HeldAt
<1>3. <<>> \in Seq(Step) /\ Len(<<>>) = 0
  OBVIOUS
<1>4. WellFormed(<<>>)
  BY <1>3 DEF WellFormed, LocksInOrder, HeldAt
<1> QED
  BY <1>1, <1>2, <1>3, <1>4

\* A path after one that releases all: nothing is held where they meet.
LEMMA ConcatHeld ==
    ASSUME NEW p \in Seq(Step), NEW q \in Seq(Step), ReleasesAll(p)
    PROVE  /\ \A j \in 1..Len(p) : HeldAt(p \o q, j) \subseteq HeldAt(p, j)
           /\ \A j \in 1..(Len(q) + 1) : HeldAt(p \o q, Len(p) + j) \subseteq HeldAt(q, j)
<1> DEFINE r == p \o q
<1>1. /\ r \in Seq(Step) /\ Len(r) = Len(p) + Len(q) /\ Len(p) \in Nat /\ Len(q) \in Nat
      /\ \A i \in 1..Len(p) : r[i] = p[i]
      /\ \A i \in 1..Len(q) : r[Len(p) + i] = q[i]
  OBVIOUS
<1> HIDE DEF r
<1>2. ASSUME NEW j \in 1..Len(p), NEW m \in HeldAt(r, j) PROVE m \in HeldAt(p, j)
  <2>1. PICK k \in 1..(j - 1) : /\ r[k] = m /\ r[k] \in Mutexes
                                /\ \A n \in k..(j - 1) : r[n] # Release
    BY HeldAtMember
  <2>2. \A n \in k..(j - 1) : n \in 1..Len(p)
    BY <1>1
  <2>3. p[k] = m /\ p[k] \in Mutexes /\ \A n \in k..(j - 1) : p[n] # Release
    BY SMTT(30), <1>1, <2>1, <2>2
  <2> QED
    BY <2>3, HeldAtMember
<1>3. ASSUME NEW j \in 1..(Len(q) + 1), NEW m \in HeldAt(r, Len(p) + j)
      PROVE  m \in HeldAt(q, j)
  <2>1. PICK k \in 1..(Len(p) + j - 1) :
          /\ r[k] = m /\ r[k] \in Mutexes
          /\ \A n \in k..(Len(p) + j - 1) : r[n] # Release
    BY HeldAtMember
  <2>2. k > Len(p)
    <3> SUFFICES ASSUME k \in 1..Len(p) PROVE FALSE
      BY <1>1, <2>1
    <3>1. p[k] = m /\ p[k] \in Mutexes
          /\ \A n \in k..(Len(p) + 1 - 1) : p[n] # Release
      BY SMTT(30), <1>1, <2>1
    <3>2. m \in HeldAt(p, Len(p) + 1)
      BY SMTT(30), <1>1, <3>1, HeldAtMember
    <3> QED
      BY <3>2 DEF ReleasesAll
  <2> DEFINE i == k - Len(p)
  <2>3. i \in 1..(j - 1) /\ k = Len(p) + i
    BY <1>1, <2>1, <2>2
  <2> HIDE DEF i
  <2>4. q[i] = m /\ q[i] \in Mutexes /\ \A n \in i..(j - 1) : q[n] # Release
    <3>1. ASSUME NEW n \in i..(j - 1) PROVE q[n] # Release
      <4>1. n \in 1..Len(q) /\ Len(p) + n \in k..(Len(p) + j - 1)
        BY SMTT(30), <1>1, <2>3
      <4> QED
        BY SMTT(30), <1>1, <2>1, <4>1
    <3> QED
      BY SMTT(30), <1>1, <2>1, <2>3, <3>1
  <2> QED
    BY Zenon, <2>3, <2>4, HeldAtMember
<1> QED
  BY <1>2, <1>3 DEF r

\* A well-formed path after another is one.
LEMMA ConcatWellFormed ==
    ASSUME NEW p \in Seq(Step), NEW q \in Seq(Step), WellFormed(p), WellFormed(q)
    PROVE  p \o q \in Seq(Step) /\ WellFormed(p \o q)
<1> DEFINE r == p \o q
<1>1. /\ r \in Seq(Step) /\ Len(r) = Len(p) + Len(q) /\ Len(p) \in Nat /\ Len(q) \in Nat
      /\ \A i \in 1..Len(p) : r[i] = p[i]
      /\ \A i \in 1..Len(q) : r[Len(p) + i] = q[i]
  OBVIOUS
<1>2. ASSUME NEW j \in 1..Len(p), NEW m \in HeldAt(r, j) PROVE m \in HeldAt(p, j)
  BY <1>2, ConcatHeld DEF WellFormed, ReleasesAll
<1>3. ASSUME NEW j \in 1..(Len(q) + 1), NEW m \in HeldAt(r, Len(p) + j)
      PROVE  m \in HeldAt(q, j)
  BY <1>3, ConcatHeld DEF WellFormed, ReleasesAll
<1> HIDE DEF r
<1>4. ASSUME NEW j \in 1..Len(r), r[j] \in Mutexes, NEW m \in HeldAt(r, j)
      PROVE  m < r[j]
  <2>1. CASE j <= Len(p)
    BY SMTT(30), <1>1, <1>2, <1>4, <2>1 DEF WellFormed, LocksInOrder
  <2>2. CASE j > Len(p)
    <3> DEFINE i == j - Len(p)
    <3>1. i \in 1..Len(q) /\ i \in 1..(Len(q) + 1) /\ j = Len(p) + i
      BY <1>1, <2>2
    <3> HIDE DEF i
    <3>2. m \in HeldAt(q, i)
      BY <1>3, <1>4, <3>1
    <3> QED
      BY SMTT(30), <1>1, <1>4, <3>1, <3>2 DEF WellFormed, LocksInOrder
  <2> QED
    BY <1>1, <2>1, <2>2
<1>5. HeldAt(r, Len(r) + 1) = {}
  <2>1. Len(r) + 1 = Len(p) + (Len(q) + 1) /\ Len(q) + 1 \in 1..(Len(q) + 1)
    BY <1>1
  <2>2. \A m \in HeldAt(r, Len(r) + 1) : m \in HeldAt(q, Len(q) + 1)
    BY <1>3, <2>1
  <2> QED
    BY <2>2 DEF WellFormed
<1> QED
  BY <1>1, <1>4, <1>5 DEF WellFormed, LocksInOrder, r

\* What a handler's path is made of.
Proper(p) == p \in Seq(Step) /\ WellFormed(p)

(* The paths of every handler but attachment_send, and of the websocket    *)
(* upgrade, lock in order and release what they lock.                      *)
LEMMA HandlersWellFormed == \A p \in OrderedPaths \cup WebsocketPaths : Proper(p)
<1> DEFINE Rising(l) == /\ l \in Seq(Step \ {Release})
                        /\ \A i, j \in 1..Len(l) : i < j => l[i] < l[j]
<1>1. \A l : Rising(l) => Proper(Section(l))
  BY SectionWellFormed DEF Proper
<1>2. /\ Rising(<<Bridge>>) /\ Rising(<<Authority>>) /\ Rising(<<Authority, Store>>)
      /\ Rising(<<Catalog, Store>>) /\ Rising(<<Bridge, Authority>>)
  BY DEF Step, Release, Bridge, Authority, Catalog, Store
<1>3. /\ Rising(<<Authority, Catalog, Store>>) /\ Rising(<<Catalog, Store, Ledger>>)
  BY DEF Step, Release, Authority, Catalog, Store, Ledger
<1>4. Rising(<<Authority, Catalog, Store, Ledger>>)
  BY DEF Step, Release, Authority, Catalog, Store, Ledger
<1>5. Rising(<<Bridge, Authority, Catalog, Store, Ledger>>)
  BY DEF Step, Release, Bridge, Authority, Catalog, Store, Ledger
<1>6. Rising(<<Bridge, Authority, Catalog, Store, Ledger, Relay>>)
  BY DEF Step, Release, Bridge, Authority, Catalog, Store, Ledger, Relay
<1> HIDE DEF Rising
<1>7. /\ Proper(BridgeOnly) /\ Proper(AuthorityOnly) /\ Proper(AuthorityStore)
      /\ Proper(CatalogStore) /\ Proper(AuthorityCatalogStore)
      /\ Proper(CatalogStoreLedger) /\ Proper(AuthorityToLedger)
      /\ Proper(Section(<<Bridge, Authority>>))
      /\ Proper(Section(<<Bridge, Authority, Catalog, Store, Ledger>>))
      /\ Proper(Section(<<Bridge, Authority, Catalog, Store, Ledger, Relay>>))
  BY <1>1, <1>2, <1>3, <1>4, <1>5, <1>6 DEF BridgeOnly, AuthorityOnly, AuthorityStore,
     CatalogStore, AuthorityCatalogStore, CatalogStoreLedger, AuthorityToLedger
<1>8. Proper(<<Relay>>) /\ Proper(<<>>)
  BY UnlockedWellFormed DEF Proper
<1>9. \A p, q : Proper(p) /\ Proper(q) => Proper(p \o q)
  BY ConcatWellFormed DEF Proper
<1> HIDE DEF Proper
<1>10. \A p \in RoutePaths \cup DeviceChangePaths \cup WebsocketPaths : Proper(p)
  BY Zenon, <1>7, <1>9 DEF RoutePaths, DeviceChangePaths, WebsocketPaths
<1>11. \A p \in CreateInvitePaths \cup AutoSyncPaths \cup CompleteSessionPaths
              \cup ApprovePaths \cup RevokeInvitePaths : Proper(p)
  BY Zenon, <1>7, <1>8, <1>9 DEF CreateInvitePaths, AutoSyncPaths, CompleteSessionPaths,
     ApprovePaths, RevokeInvitePaths
<1>12. \A p \in ConsumeInvitePaths : Proper(p)
  BY Zenon, <1>7, <1>8, <1>9 DEF ConsumeInvitePaths
<1>13. \A p \in UploadChunkPaths \cup UploadCompletedPaths \cup DownloadChunkPaths : Proper(p)
  BY Zenon, <1>7, <1>8, <1>9 DEF UploadChunkPaths, UploadCompletedPaths, DownloadChunkPaths,
     AttachmentRelayPin
<1>14. \A p \in DeliveryPostPaths \cup DeliveryRetryPaths \cup DeliveryAckPaths : Proper(p)
  BY Zenon, <1>7, <1>8, <1>9 DEF DeliveryPostPaths, DeliveryRetryPaths,
     DeliveryAckPaths
<1>15. \A p \in DeliverySyncPaths : Proper(p)
  BY Zenon, <1>7, <1>8, <1>9 DEF DeliverySyncPaths
<1>16. \A p \in MaintenancePaths : Proper(p)
  BY Zenon, <1>7, <1>8, <1>9 DEF MaintenancePaths, RetryDue
<1> QED
  BY <1>10, <1>11, <1>12, <1>13, <1>14, <1>15, <1>16 DEF OrderedPaths

(* The daemon's handlers, all but attachment_send, never wait for each     *)
(* other in a circle, whatever number of slots they run in and whatever    *)
(* the relay does: the code keeps one order of the five mutexes.           *)
THEOREM NoDeadlock ==
    ASSUME Paths \subseteq OrderedPaths
    PROVE  LocksSpec => []NoCircularWait
<1>1. \A p \in Paths \cup WebsocketPaths : WellFormed(p)
  BY HandlersWellFormed DEF Proper
<1> QED
  BY <1>1, OrderedHandlersNeverCircle

-----------------------------------------------------------------------------
\* A path that holds nothing while it talks to the relay, nor at its end.
Unlocked(p) ==
    /\ p \in Seq(Step) /\ ReleasesAll(p)
    /\ \A j \in 1..Len(p) : p[j] = Relay => HeldAt(p, j) = {}

\* A section without a relay request.
LEMMA SectionUnlocked ==
    ASSUME NEW l \in Seq(Step \ {Release, Relay})
    PROVE  Unlocked(Section(l))
<1>1. PICK p : p = Section(l)
  OBVIOUS
<1>2. /\ p \in Seq(Step) /\ Len(p) = Len(l) + 1 /\ Len(l) \in Nat
      /\ \A i \in 1..Len(p) : p[i] # Relay
      /\ p[Len(p)] = Release
  BY <1>1 DEF Section, Step, Release, Relay
<1>3. ReleasesAll(p)
  <2> SUFFICES ASSUME NEW m \in HeldAt(p, Len(p) + 1) PROVE FALSE
    BY DEF ReleasesAll
  <2>1. PICK k \in 1..Len(p) : \A n \in k..Len(p) : p[n] # Release
    BY <1>2, HeldAtMember
  <2> QED
    BY <1>2, <2>1
<1> QED
  BY <1>1, <1>2, <1>3 DEF Unlocked

\* A relay request alone, and no step at all.
LEMMA RelayUnlocked == Unlocked(<<Relay>>) /\ Unlocked(<<>>)
<1>1. /\ <<Relay>> \in Seq(Step) /\ <<Relay>>[1] \notin Mutexes /\ Len(<<Relay>>) = 1
      /\ <<>> \in Seq(Step) /\ Len(<<>>) = 0
  BY DEF Relay, Step, Mutexes
<1>2. HeldAt(<<Relay>>, 1) = {} /\ HeldAt(<<Relay>>, 2) = {} /\ HeldAt(<<>>, 1) = {}
  BY <1>1 DEF HeldAt
<1> QED
  BY <1>1, <1>2 DEF Unlocked, ReleasesAll

\* One after another.
LEMMA ConcatUnlocked ==
    ASSUME NEW p, NEW q, Unlocked(p), Unlocked(q)
    PROVE  Unlocked(p \o q)
<1>1. p \in Seq(Step) /\ q \in Seq(Step) /\ ReleasesAll(p) /\ ReleasesAll(q)
  BY DEF Unlocked
<1>2. PICK r : r = p \o q
  BY Zenon
<1>3. /\ r \in Seq(Step) /\ Len(r) = Len(p) + Len(q) /\ Len(p) \in Nat /\ Len(q) \in Nat
      /\ \A i \in 1..Len(p) : r[i] = p[i]
      /\ \A i \in 1..Len(q) : r[Len(p) + i] = q[i]
  BY <1>1, <1>2
<1>4. /\ \A j \in 1..Len(p) : HeldAt(r, j) \subseteq HeldAt(p, j)
      /\ \A j \in 1..(Len(q) + 1) : HeldAt(r, Len(p) + j) \subseteq HeldAt(q, j)
  BY <1>1, <1>2, ConcatHeld
<1>5. ReleasesAll(r)
  <2>1. Len(r) + 1 = Len(p) + (Len(q) + 1) /\ Len(q) + 1 \in 1..(Len(q) + 1)
    BY <1>3
  <2> QED
    BY Zenon, <1>1, <1>4, <2>1 DEF ReleasesAll
<1>6. ASSUME NEW j \in 1..Len(r), r[j] = Relay PROVE HeldAt(r, j) = {}
  <2>1. CASE j \in 1..Len(p)
    BY <1>3, <1>4, <1>6, <2>1 DEF Unlocked
  <2>2. CASE j \notin 1..Len(p)
    <3>1. PICK i \in 1..Len(q) : j = Len(p) + i
      <4>1. j - Len(p) \in 1..Len(q) /\ j = Len(p) + (j - Len(p))
        BY <1>3, <2>2
      <4> QED
        BY Zenon, <4>1
    <3>2. q[i] = Relay /\ i \in 1..(Len(q) + 1)
      BY <1>3, <1>6, <3>1
    <3>3. HeldAt(q, i) = {}
      BY <3>2 DEF Unlocked
    <3> QED
      BY <1>4, <3>1, <3>2, <3>3
  <2> QED
    BY <2>1, <2>2
<1> QED
  BY <1>2, <1>3, <1>5, <1>6 DEF Unlocked

(* Every handler but a device change talks to the relay with no mutex      *)
(* held, attachment_send included.                                         *)
LEMMA HandlersUnlocked ==
    \A p \in (OrderedPaths \ DeviceChangePaths) \cup AttachmentSendPaths \cup WebsocketPaths :
        Unlocked(p)
<1> DEFINE Plain(l) == l \in Seq(Step \ {Release, Relay})
<1>1. /\ Plain(<<Bridge>>) /\ Plain(<<Authority>>) /\ Plain(<<Authority, Store>>)
      /\ Plain(<<Catalog, Store>>) /\ Plain(<<Bridge, Authority>>)
      /\ Plain(<<Ledger, Store>>)
      /\ Plain(<<Authority, Catalog, Store>>) /\ Plain(<<Catalog, Store, Ledger>>)
      /\ Plain(<<Authority, Catalog, Store, Ledger>>)
      /\ Plain(<<Bridge, Authority, Catalog, Store, Ledger>>)
  BY DEF Step, Release, Relay, Bridge, Authority, Catalog, Store, Ledger
<1>2. /\ Unlocked(BridgeOnly) /\ Unlocked(AuthorityOnly) /\ Unlocked(AuthorityStore)
      /\ Unlocked(CatalogStore) /\ Unlocked(AuthorityCatalogStore)
      /\ Unlocked(CatalogStoreLedger) /\ Unlocked(AuthorityToLedger)
      /\ Unlocked(LedgerStore) /\ Unlocked(Section(<<Bridge, Authority>>))
      /\ Unlocked(Section(<<Bridge, Authority, Catalog, Store, Ledger>>))
  BY Zenon, <1>1, SectionUnlocked DEF BridgeOnly, AuthorityOnly, AuthorityStore, CatalogStore,
     AuthorityCatalogStore, CatalogStoreLedger, AuthorityToLedger, LedgerStore
<1>3. Unlocked(<<Relay>>) /\ Unlocked(<<>>)
  BY RelayUnlocked
<1>4. \A p, q : Unlocked(p) /\ Unlocked(q) => Unlocked(p \o q)
  BY ConcatUnlocked
<1>5. \A p \in RoutePaths \cup WebsocketPaths : Unlocked(p)
  BY Zenon, <1>2, <1>4 DEF RoutePaths, WebsocketPaths
<1>6. \A p \in CreateInvitePaths \cup AutoSyncPaths \cup CompleteSessionPaths
              \cup ApprovePaths \cup RevokeInvitePaths : Unlocked(p)
  BY Zenon, <1>2, <1>3, <1>4 DEF CreateInvitePaths, AutoSyncPaths, CompleteSessionPaths,
     ApprovePaths, RevokeInvitePaths
<1>7. \A p \in ConsumeInvitePaths : Unlocked(p)
  BY Zenon, <1>2, <1>3, <1>4 DEF ConsumeInvitePaths
<1>8. \A p \in UploadChunkPaths \cup UploadCompletedPaths \cup DownloadChunkPaths : Unlocked(p)
  BY Zenon, <1>2, <1>3, <1>4 DEF UploadChunkPaths, UploadCompletedPaths, DownloadChunkPaths,
     AttachmentRelayPin
<1>9. \A p \in AttachmentSendPaths : Unlocked(p)
  BY Zenon, <1>2, <1>3, <1>4 DEF AttachmentSendPaths, AttachmentRelayPin
<1>10. \A p \in DeliveryPostPaths \cup DeliveryRetryPaths \cup DeliveryAckPaths : Unlocked(p)
  BY Zenon, <1>2, <1>3, <1>4 DEF DeliveryPostPaths, DeliveryRetryPaths, DeliveryAckPaths
<1>11. \A p \in DeliverySyncPaths : Unlocked(p)
  BY Zenon, <1>2, <1>3, <1>4 DEF DeliverySyncPaths
<1>12. \A p \in MaintenancePaths : Unlocked(p)
  BY Zenon, <1>2, <1>3, <1>4 DEF MaintenancePaths, RetryDue
<1> QED
  BY <1>5, <1>6, <1>7, <1>8, <1>9, <1>10, <1>11, <1>12 DEF OrderedPaths

(* "a slow or unavailable relay must not freeze the browser bridge's       *)
(* request loop" (http_server.rs:2648): the thread of the runtime waits    *)
(* for a handler that waits for the relay only during a device change,     *)
(* whichever handlers run, attachment_send too, and in however many slots. *)
THEOREM LoopFrozenOnlyByDeviceChange ==
    ASSUME Paths \subseteq OrderedPaths \cup AttachmentSendPaths
    PROVE  LocksSpec => []OnlyDeviceChangeFreezesLoop
<1>1. \A p \in Paths \cup WebsocketPaths : p \notin DeviceChangePaths => Unlocked(p)
  BY Zenon, HandlersUnlocked
<1>2. \A p \in Paths \cup WebsocketPaths : ReleasesAll(p)
  <2>1. \A p \in DeviceChangePaths : ReleasesAll(p)
    <3>1. \A p \in OrderedPaths : ReleasesAll(p)
      BY HandlersWellFormed DEF Proper, WellFormed, ReleasesAll
    <3> QED
      BY <3>1 DEF OrderedPaths
  <2> QED
    BY Zenon, <1>1, <2>1 DEF Unlocked
<1>3. LocksSpec => []Held
  BY <1>2, OwnersHold
<1>4. LocksTypeOK /\ Held => OnlyDeviceChangeFreezesLoop
  <2> SUFFICES ASSUME LocksTypeOK, Held, NEW m \in Mutexes, NEW w \in Slots,
                      owner[m] = w, AtStep(w, Relay), path[w] \notin DeviceChangePaths
               PROVE  FALSE
    BY DEF OnlyDeviceChangeFreezesLoop
  <2>1. w \in Workers /\ m \in HeldAt(path[w], pc[w])
    BY DEF Held, Workers
  <2>2. pc[w] \in 1..Len(path[w]) /\ path[w][pc[w]] = Relay
    BY DEF AtStep
  <2>3. path[w] # <<>>
    BY <2>2
  <2>4. Unlocked(path[w])
    BY <1>1, <2>1, <2>3 DEF Held
  <2> QED
    BY <2>1, <2>2, <2>4 DEF Unlocked
<1> QED
  BY <1>3, <1>4, LocksTyping, PTL
=============================================================================
