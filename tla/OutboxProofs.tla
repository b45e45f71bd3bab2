---------------------------- MODULE OutboxProofs ----------------------------
(***************************************************************************)
(* Proofs about module Outbox, for any number of envelopes, requests,      *)
(* slots, crashes and failed commits.  Only OnlyExhaustion needs the bound *)
(* of two slots that the bridge has (MAX_BLOCKING_REQUESTS).               *)
(***************************************************************************)
EXTENDS Outbox, TLAPS

(* A record in the ledger has its type, and its counter passes the limit   *)
(* only in the step that fails it.                                         *)
Sound == {r \in DeliveryRecord : r.attempts <= MaxAttempts \/ r.state = "Failed"}

(* What a method of the ledger may make of the record r without an answer  *)
(* of the relay: no wire appears, a failed record stays failed, and        *)
(* nothing becomes relay-accepted.                                         *)
Keeps(r, s) ==
    /\ s \in Sound
    /\ s.wire => r.wire
    /\ r.state = "Failed" => s.state = "Failed"
    /\ s.state = "RelayAccepted" =>
         r.state = "RelayAccepted" /\ (r.relay_id => s.relay_id)

\* With an acceptance of the relay.
Accepts(r, s) ==
    /\ s \in Sound
    /\ s.wire => r.wire
    /\ r.state = "Failed" => s.state = "Failed"
    /\ s.state = "RelayAccepted" => s.relay_id

\* cancel, expire_due, schedule_retry and mark_failed on a sound record.
LEMMA MethodsKeep ==
    ASSUME NEW r \in Sound
    PROVE  /\ Keeps(r, r) /\ Keeps(r, Cancel(r)) /\ Keeps(r, Expire(r))
           /\ Keeps(r, ScheduleRetry(r)) /\ Keeps(r, MarkFailed(r))
<1> USE MaxAttemptsAssumption DEF Sound, DeliveryRecord, DeliveryStates, Keeps
<1>1. Keeps(r, r)
  OBVIOUS
<1>2. Keeps(r, Cancel(r))
  BY Zenon DEF Cancel, NotCancellable
<1>3. Keeps(r, Expire(r))
  BY Zenon DEF Expire
<1>4. Keeps(r, ScheduleRetry(r))
  <2>1. CASE r.state \in NotReschedulable
    BY <1>1, <2>1 DEF ScheduleRetry
  <2>2. CASE r.state \notin NotReschedulable
    <3>1. r.attempts <= MaxAttempts
      BY <2>2 DEF NotReschedulable
    <3>2. CASE r.attempts + 1 > MaxAttempts
      <4> DEFINE s == [r EXCEPT !.attempts = r.attempts + 1, !.state = "Failed",
                                !.next = FALSE]
      <4>1. ScheduleRetry(r) = s
        BY <2>2, <3>2 DEF ScheduleRetry
      <4>2. r.attempts + 1 \in 0..(MaxAttempts + 1)
        BY <3>1
      <4>3. s \in Sound /\ (s.wire => r.wire) /\ s.state = "Failed"
        BY Zenon, <4>2
      <4> QED
        BY <4>1, <4>3
    <3>3. CASE ~(r.attempts + 1 > MaxAttempts)
      <4> DEFINE s == [r EXCEPT !.attempts = r.attempts + 1, !.state = "Retryable",
                                !.next = TRUE]
      <4>1. ScheduleRetry(r) = s
        BY <2>2, <3>3 DEF ScheduleRetry
      <4>2. r.attempts + 1 \in 0..(MaxAttempts + 1) /\ r.attempts + 1 <= MaxAttempts
        BY <3>1, <3>3
      <4>3. s \in Sound /\ (s.wire => r.wire) /\ s.state = "Retryable"
        BY Zenon, <4>2
      <4>4. r.state # "Failed"
        BY <2>2 DEF NotReschedulable
      <4> HIDE DEF s, Sound
      <4> QED
        BY <4>1, <4>3, <4>4
    <3> QED
      BY <3>2, <3>3
  <2> QED
    BY <2>1, <2>2
<1>5. Keeps(r, MarkFailed(r))
  BY Zenon DEF MarkFailed
<1> QED
  BY <1>1, <1>2, <1>3, <1>4, <1>5

\* Their _if_current forms.
LEMMA GuardedMethodsKeep ==
    ASSUME NEW r \in Sound, NEW e
    PROVE  /\ Keeps(r, ScheduleRetryIfCurrent(r, e))
           /\ Keeps(r, MarkFailedIfCurrent(r, e))
  BY MethodsKeep DEF ScheduleRetryIfCurrent, MarkFailedIfCurrent

\* accept_retry, and the attachment route's bind_relay_id and transition.
LEMMA MethodsAccept ==
    ASSUME NEW r \in Sound, NEW e \in {"Queued", "Retryable"}
    PROVE  /\ CanAcceptRetry(r, e) => Accepts(r, AcceptRetry(r, e))
           /\ Accepts(r, Transition(BindRelayId(r), "RelayAccepted"))
  BY ZenonT(60), MaxAttemptsAssumption
  DEF Sound, DeliveryRecord, DeliveryStates, Accepts, AcceptRetry, CanAcceptRetry,
      Transition, ValidTransition, BindRelayId, Present

\* New records.
LEMMA RegisterSound ==
    ASSUME NEW r \in Sound, ~Present(r)
    PROVE  LET s == RegisterEncrypted(r)
               q == RegisterQueued(r)
               t == Transition(s, "Queued")
               a == Transition(Transition(BindRelayId(s), "Queued"), "RelayAccepted")
               f == ScheduleRetry(s)
           IN  /\ q \in Sound /\ t \in Sound /\ a \in Sound /\ f \in Sound
               /\ a.relay_id
               /\ "RelayAccepted" \notin {q.state, t.state, f.state}
<1> DEFINE new(state, id) ==
        [state |-> state, attempts |-> 0, next |-> FALSE, wire |-> TRUE,
         dest |-> TRUE, relay_id |-> id]
<1>1. RegisterEncrypted(r) = new("Encrypted", FALSE)
  BY Zenon DEF RegisterEncrypted, NoRecord
<1>2. RegisterQueued(r) = new("Queued", FALSE)
  BY Zenon DEF RegisterQueued, NoRecord
<1>3. Transition(new("Encrypted", FALSE), "Queued") = new("Queued", FALSE)
  BY Zenon DEF Transition, ValidTransition
<1>4. BindRelayId(new("Encrypted", FALSE)) = new("Encrypted", TRUE)
  BY Zenon DEF BindRelayId, Present
<1>5. Transition(Transition(new("Encrypted", TRUE), "Queued"), "RelayAccepted")
        = new("RelayAccepted", TRUE)
  BY Zenon DEF Transition, ValidTransition
<1>6. new("Encrypted", FALSE) \in Sound /\ new("Queued", FALSE) \in Sound
      /\ new("RelayAccepted", TRUE) \in Sound
  BY MaxAttemptsAssumption DEF Sound, DeliveryRecord, DeliveryStates
<1>7. ScheduleRetry(new("Encrypted", FALSE)) \in Sound
      /\ ScheduleRetry(new("Encrypted", FALSE)).state # "RelayAccepted"
  BY <1>6, MethodsKeep DEF Keeps
<1> QED
  BY <1>1, <1>2, <1>3, <1>4, <1>5, <1>6, <1>7

-----------------------------------------------------------------------------
(* The invariant on the ledger in memory and the stored one: both sound,   *)
(* no record relay-accepted without its evidence, no wire kept after a     *)
(* confirmed cancellation, and, while the daemon runs, a failure in the    *)
(* store is a failure in memory.                                           *)
LedgerInv ==
    /\ ledger \in [Digests -> Sound] /\ disk \in [Digests -> Sound]
    /\ AcceptedHasEvidence /\ CancelReleasesWire
    /\ daemon = "up" =>
         \A d \in Digests : disk[d].state = "Failed" => ledger[d].state = "Failed"

\* A call the relay answered is one whose envelope it accepted; a daemon that
\* is not up has no call and no tick under way.
CallInv ==
    /\ \A w \in Workers : call[w] # None /\ call[w].phase = "accepted" =>
         call[w].digest \in relay
    /\ daemon # "up" => tick = IdleTick /\ \A w \in Workers : call[w] = None

IInv == TypeOK /\ LedgerInv /\ CallInv

FailureFinal ==
    \A d \in Digests : disk[d].state = "Failed" => disk'[d].state = "Failed"

\* A step of the running daemon to the ledger L, stored or not.
LedgerStep(L) ==
    /\ L \in [Digests -> Sound]
    /\ \A d \in Digests :
         /\ ledger[d].state = "Failed" => L[d].state = "Failed"
         /\ L[d].state = "RelayAccepted" => L[d].relay_id /\ d \in relay'
         /\ d \in confirmed => ~L[d].wire
    /\ ledger' = L /\ disk' \in {disk, L}
    /\ daemon = "up" /\ relay \subseteq relay' /\ confirmed' = confirmed

\* Such a step keeps the ledgers' half of the invariant.
LEMMA LedgerStepKeeps ==
    ASSUME IInv, NEW L, LedgerStep(L)
    PROVE  LedgerInv' /\ FailureFinal
<1>1. confirmed \subseteq Digests
  BY DEF IInv, TypeOK
<1> QED
  BY <1>1 DEF IInv, LedgerInv, LedgerStep, AcceptedHasEvidence, CancelReleasesWire,
         FailureFinal

\* One record of the ledger changes to s.
OneRecord(d, s) == [ledger EXCEPT ![d] = s]

\* A method that needs no acceptance changes one record.
LEMMA KeepingStep ==
    ASSUME IInv, NEW d \in Digests, NEW s, Keeps(ledger[d], s),
           ledger' = OneRecord(d, s), disk' \in {disk, OneRecord(d, s)},
           daemon = "up", relay \subseteq relay', confirmed' = confirmed
    PROVE  LedgerStep(OneRecord(d, s))
  BY DEF IInv, LedgerInv, AcceptedHasEvidence, CancelReleasesWire, LedgerStep,
         Keeps, OneRecord

\* A method applied with an acceptance of the relay changes one record.
LEMMA AcceptingStep ==
    ASSUME IInv, NEW d \in Digests, NEW s, Accepts(ledger[d], s), d \in relay',
           ledger' = OneRecord(d, s), disk' \in {disk, OneRecord(d, s)},
           daemon = "up", relay \subseteq relay', confirmed' = confirmed
    PROVE  LedgerStep(OneRecord(d, s))
  BY DEF IInv, LedgerInv, AcceptedHasEvidence, CancelReleasesWire, LedgerStep,
         Accepts, OneRecord

\* A new record.
LEMMA RegisteringStep ==
    ASSUME IInv, NEW d \in Digests, NEW s \in Sound, Fresh(d),
           s.state = "RelayAccepted" => s.relay_id /\ d \in relay',
           ledger' = OneRecord(d, s), disk' \in {disk, OneRecord(d, s)},
           daemon = "up", relay \subseteq relay', confirmed' = confirmed
    PROVE  LedgerStep(OneRecord(d, s))
  BY DEF IInv, LedgerInv, AcceptedHasEvidence, CancelReleasesWire, LedgerStep,
         OneRecord, Fresh, Present

\* The memory is read back from the store.
LEMMA ReloadKeeps ==
    ASSUME IInv, ledger' = disk, disk' = disk, daemon' = "up",
           UNCHANGED <<relay, confirmed>>
    PROVE  LedgerInv' /\ FailureFinal
  BY DEF IInv, LedgerInv, AcceptedHasEvidence, CancelReleasesWire, FailureFinal

-----------------------------------------------------------------------------
\* The types of everything but the two ledgers, which LedgerInv covers.
OtherTypes ==
    /\ daemon \in {"up", "down", "refused"}
    /\ call \in [Workers -> Call \cup {None}]
    /\ tick \in [stage : {"idle", "fetching", "fetched", "retrying"},
                 now : SUBSET Digests, due : SUBSET Due]
    /\ relay \in SUBSET Digests /\ backoff \in SUBSET Digests
    /\ expired \in SUBSET Digests /\ confirmed \in SUBSET Digests
    /\ crashes \in 0..MaxCrashes /\ faults \in 0..MaxFaults

\* The invariant from its parts.
LEMMA TypesTogether ==
    /\ LedgerInv /\ OtherTypes /\ CallInv => IInv
    /\ LedgerInv' /\ OtherTypes' /\ CallInv' => IInv'
<1>1. Sound \subseteq DeliveryRecord
  BY DEF Sound
<1> QED
  BY <1>1 DEF IInv, LedgerInv, OtherTypes, TypeOK

\* And its parts from the invariant.
LEMMA TypesApart == IInv => LedgerInv /\ OtherTypes /\ CallInv
  BY DEF IInv, OtherTypes, TypeOK

\* A tick that is over is a tick.
LEMMA IdleTickType ==
    IdleTick \in [stage : {"idle", "fetching", "fetched", "retrying"},
                  now : SUBSET Digests, due : SUBSET Due]
  BY DEF IdleTick

\* A ledger set and persisted is in memory, and in the store or not.
LEMMA PersistEffect ==
    ASSUME OtherTypes, NEW L, SetLedger(L), Persist(L)
    PROVE  /\ ledger' = L /\ disk' \in {disk, L}
           /\ backoff' \in SUBSET Digests /\ faults' \in 0..MaxFaults
  BY OutboxAssumption DEF OtherTypes, SetLedger, Persist, Stored, NotStored

\* Steps that leave both ledgers and the daemon alone.
LEMMA QuietStep ==
    ASSUME IInv, UNCHANGED <<ledger, disk, daemon, confirmed>>, relay \subseteq relay'
    PROVE  LedgerInv' /\ FailureFinal
  BY DEF IInv, TypeOK, LedgerInv, AcceptedHasEvidence, CancelReleasesWire, FailureFinal

\* The end of a call, with the record s for its envelope.
LEMMA ApplyKeeps ==
    ASSUME IInv, NEW w \in Workers, call[w] # None, NEW s,
           \/ Keeps(ledger[call[w].digest], s)
           \/ call[w].phase = "accepted" /\ Accepts(ledger[call[w].digest], s),
           Apply(w, OneRecord(call[w].digest, s))
    PROVE  IInv' /\ FailureFinal
<1> DEFINE d == call[w].digest
<1>1. OtherTypes /\ CallInv
  BY TypesApart
<1>2. d \in Digests /\ daemon = "up"
  BY SMTT(30), <1>1 DEF OtherTypes, CallInv, Call
<1>3. /\ ledger' = OneRecord(d, s) /\ disk' \in {disk, OneRecord(d, s)}
      /\ backoff' \in SUBSET Digests /\ faults' \in 0..MaxFaults
  BY SMTT(30), <1>1, PersistEffect DEF Apply
<1>4. call' = [call EXCEPT ![w] = None]
      /\ UNCHANGED <<daemon, tick, relay, expired, confirmed, crashes>>
  BY DEF Apply, EndCall
<1>5. LedgerStep(OneRecord(d, s))
  <2>1. CASE Keeps(ledger[d], s)
    BY SMTT(30), <1>2, <1>3, <1>4, <2>1, KeepingStep
  <2>2. CASE call[w].phase = "accepted" /\ Accepts(ledger[d], s)
    <3>1. d \in relay'
      BY <1>1, <1>4, <2>2 DEF CallInv
    <3> QED
      BY SMTT(30), <1>2, <1>3, <1>4, <2>2, <3>1, AcceptingStep
  <2> QED
    BY SMTT(30), <2>1, <2>2
<1>6. LedgerInv' /\ FailureFinal
  BY <1>5, LedgerStepKeeps
<1>7. OtherTypes'
  BY SMTT(30), <1>1, <1>3, <1>4 DEF OtherTypes
<1>8. CallInv'
  BY <1>1, <1>2, <1>4 DEF CallInv, OtherTypes
<1> QED
  BY <1>6, <1>7, <1>8, TypesTogether

-----------------------------------------------------------------------------
\* The requests that register an envelope.
LEMMA RegistrationKeeps ==
    ASSUME IInv, NEW d \in Digests,
           \/ \E w \in Requests : DeliveryPost(w, d) \/ AttachmentSend(w, d)
           \/ DeviceCommit(d)
    PROVE  IInv' /\ FailureFinal
<1>1. LedgerInv /\ OtherTypes /\ CallInv
  BY TypesApart
<1>2. Fresh(d) /\ daemon = "up"
  BY DEF DeliveryPost, AttachmentSend, DeviceCommit, SlotFree
<1>3. ledger[d] \in Sound /\ ~Present(ledger[d])
  BY <1>1, <1>2 DEF LedgerInv, Fresh
<1>4. ASSUME NEW w \in Requests, NEW k \in {"post", "attachment"},
             StartCall(w, k, d, "Queued"), NEW s \in Sound, s.state # "RelayAccepted",
             SetLedger(OneRecord(d, s)), Stored(OneRecord(d, s)),
             UNCHANGED <<daemon, tick, relay, expired, confirmed, crashes>>
      PROVE  IInv' /\ FailureFinal
  <2>1. /\ ledger' = OneRecord(d, s) /\ disk' \in {disk, OneRecord(d, s)}
        /\ backoff' \in SUBSET Digests /\ faults' \in 0..MaxFaults
    BY <1>1, <1>4, PersistEffect DEF Persist
  <2>2. LedgerInv' /\ FailureFinal
    BY <1>2, <1>4, <2>1, RegisteringStep, LedgerStepKeeps
  <2>3. call' = [call EXCEPT ![w] = [kind |-> k, digest |-> d, expected |-> "Queued",
                                     phase |-> "sent"]]
    BY SMTT(30), <1>4 DEF StartCall
  <2>4. OtherTypes'
    BY SMTT(30), <1>1, <1>4, <2>1, <2>3 DEF OtherTypes, Call, Workers
  <2>5. CallInv'
    BY <1>1, <1>2, <1>4, <2>3 DEF CallInv, OtherTypes, Workers
  <2> QED
    BY SMTT(30), <2>2, <2>4, <2>5, TypesTogether
<1>5. ASSUME NEW w \in Requests, DeliveryPost(w, d) PROVE IInv' /\ FailureFinal
  <2>1. RegisterQueued(ledger[d]) \in Sound
        /\ RegisterQueued(ledger[d]).state # "RelayAccepted"
    BY SMTT(30), <1>3, RegisterSound
  <2> QED
    BY SMTT(30), <1>4, <1>5, <2>1 DEF DeliveryPost, OneRecord
<1>6. ASSUME NEW w \in Requests, AttachmentSend(w, d) PROVE IInv' /\ FailureFinal
  <2> DEFINE s == Transition(RegisterEncrypted(ledger[d]), "Queued")
  <2>1. s \in Sound /\ s.state # "RelayAccepted"
    BY SMTT(30), <1>3, RegisterSound
  <2>2. UNCHANGED <<daemon, tick, relay, expired, confirmed, crashes>>
    BY <1>6 DEF AttachmentSend
  <2>3. CASE /\ SetLedger(OneRecord(d, s)) /\ Stored(OneRecord(d, s))
             /\ StartCall(w, "attachment", d, "Queued")
    BY <1>4, <2>1, <2>2, <2>3
  <2>4. CASE /\ NotStored /\ UNCHANGED call
             /\ ledger' = disk /\ backoff' \in SUBSET {x \in Digests : disk[x].next}
    <3>1. LedgerInv' /\ FailureFinal
      BY SMTT(30), <1>2, <2>2, <2>4, ReloadKeeps DEF NotStored
    <3>2. OtherTypes' /\ CallInv'
      BY SMTT(30), <1>1, <2>2, <2>4, OutboxAssumption DEF OtherTypes, CallInv, NotStored
    <3> QED
      BY <3>1, <3>2, TypesTogether
  <2>5. CASE NotStored /\ UNCHANGED call /\ SetLedger(OneRecord(d, s))
    <3>1. /\ ledger' = OneRecord(d, s) /\ disk' \in {disk, OneRecord(d, s)}
          /\ backoff' \in SUBSET Digests /\ faults' \in 0..MaxFaults
      BY <1>1, <2>5, PersistEffect DEF Persist
    <3>2. LedgerInv' /\ FailureFinal
      BY SMTT(30), <1>2, <2>1, <2>2, <3>1, RegisteringStep, LedgerStepKeeps
    <3>3. OtherTypes' /\ CallInv'
      BY <1>1, <2>2, <2>5, <3>1 DEF OtherTypes, CallInv
    <3> QED
      BY <3>2, <3>3, TypesTogether
  <2> QED
    BY SMTT(30), <1>6, <2>3, <2>4, <2>5 DEF AttachmentSend, OneRecord
<1>7. CASE DeviceCommit(d)
  <2> DEFINE r == RegisterEncrypted(ledger[d])
             sent == Transition(Transition(BindRelayId(r), "Queued"), "RelayAccepted")
  <2>1. PICK ok \in BOOLEAN :
           LET L == [ledger EXCEPT ![d] = IF ok THEN sent ELSE ScheduleRetry(r)]
           IN  /\ SetLedger(L) /\ Persist(L)
               /\ relay' \in IF ok THEN {relay \cup {d}} ELSE {relay, relay \cup {d}}
    BY SMTT(30), <1>7 DEF DeviceCommit
  <2> DEFINE s == IF ok THEN sent ELSE ScheduleRetry(r)
  <2>2. s \in Sound /\ (s.state = "RelayAccepted" => s.relay_id /\ d \in relay')
    BY SMTT(30), <1>3, <2>1, RegisterSound
  <2>3. relay \subseteq relay' /\ relay' \in SUBSET Digests
    BY SMTT(30), <1>1, <2>1 DEF OtherTypes
  <2>4. UNCHANGED <<daemon, call, tick, expired, confirmed, crashes>>
    BY SMTT(30), <1>7 DEF DeviceCommit
  <2>5. /\ ledger' = OneRecord(d, s) /\ disk' \in {disk, OneRecord(d, s)}
        /\ backoff' \in SUBSET Digests /\ faults' \in 0..MaxFaults
    BY <1>1, <2>1, PersistEffect DEF OneRecord
  <2> HIDE DEF s
  <2>6. LedgerInv' /\ FailureFinal
    BY SMTT(30), <1>2, <2>2, <2>3, <2>4, <2>5, RegisteringStep, LedgerStepKeeps
  <2>7. OtherTypes' /\ CallInv'
    BY SMTT(30), <1>1, <2>3, <2>4, <2>5 DEF OtherTypes, CallInv
  <2> QED
    BY SMTT(30), <2>6, <2>7, TypesTogether
<1> QED
  BY <1>5, <1>6, <1>7

\* The ends of a relay call.
LEMMA CallEndsKeeps ==
    ASSUME IInv, NEW w \in Workers, CallEnds(w)
    PROVE  IInv' /\ FailureFinal
<1> DEFINE c == call[w]
           r == ledger[c.digest]
<1>1. LedgerInv /\ OtherTypes /\ CallInv
  BY SMTT(30), TypesApart
<1>2. c # None /\ c \in Call
  BY SMTT(30), <1>1 DEF CallEnds, CallAccepted, CallAcceptedLate, CallFailed, CallRejected, OtherTypes
<1>3. r \in Sound /\ c.expected \in {"Queued", "Retryable"}
  BY SMTT(30), <1>1, <1>2 DEF LedgerInv, Call
<1>4. CASE CallAccepted(w)
  <2>1. Accepts(r, Transition(BindRelayId(r), "RelayAccepted"))
        /\ (CanAcceptRetry(r, c.expected) => Accepts(r, AcceptRetry(r, c.expected)))
    BY <1>3, MethodsAccept
  <2> QED
    BY ZenonT(60), <1>2, <1>4, <2>1, ApplyKeeps DEF CallAccepted, OneRecord
<1>5. CASE CallAcceptedLate(w)
  <2>1. LedgerInv' /\ FailureFinal
    BY Zenon, <1>5, QuietStep DEF CallAcceptedLate
  <2>2. OtherTypes' /\ CallInv'
    BY Zenon, <1>1, <1>5 DEF OtherTypes, CallInv, CallAcceptedLate, EndCall
  <2> QED
    BY SMTT(30), <2>1, <2>2, TypesTogether
<1>6. CASE CallFailed(w)
  <2>1. Keeps(r, ScheduleRetry(r)) /\ Keeps(r, ScheduleRetryIfCurrent(r, c.expected))
    BY SMTT(30), <1>3, MethodsKeep, GuardedMethodsKeep
  <2> QED
    BY Zenon, <1>2, <1>6, <2>1, ApplyKeeps DEF CallFailed, OneRecord
<1>7. CASE CallRejected(w)
  <2>1. Keeps(r, MarkFailedIfCurrent(r, c.expected))
    BY <1>3, GuardedMethodsKeep
  <2> QED
    BY SMTT(30), <1>2, <1>7, <2>1, ApplyKeeps DEF CallRejected, OneRecord
<1> QED
  BY <1>4, <1>5, <1>6, <1>7 DEF CallEnds

\* The steps that touch neither ledger: clocks, the relay's side of a call, the
\* retry route's snapshot and the stages of a tick.
LEMMA QuietActionsKeep ==
    ASSUME IInv,
           \/ \E w \in Requests, d \in Digests : DeliveryRetry(w, d)
           \/ \E d \in Digests : BackoffElapses(d) \/ ExpiryPasses(d)
           \/ \E w \in Workers : RelayAccepts(w)
           \/ TickBegin \/ TickFetchFails \/ TickTakeDue
           \/ \E s \in tick.due : TickPost(s)
    PROVE  IInv' /\ FailureFinal
<1>1. LedgerInv /\ OtherTypes /\ CallInv
  BY SMTT(30), TypesApart
<1>2. UNCHANGED <<ledger, disk, daemon, confirmed, crashes, faults>> /\ relay \subseteq relay'
  BY Zenon DEF DeliveryRetry, BackoffElapses, ExpiryPasses, RelayAccepts, TickBegin,
         TickFetchFails, TickTakeDue, TickPost
<1>3. LedgerInv' /\ FailureFinal
  BY SMTT(30), <1>2, QuietStep
<1>4. OtherTypes' /\ CallInv'
  <2>1. ASSUME NEW w \in Requests, NEW d \in Digests, DeliveryRetry(w, d)
        PROVE  OtherTypes' /\ CallInv'
    <3>1. ledger[d].state \in {"Queued", "Retryable"} /\ daemon = "up"
      BY SMTT(30), <2>1 DEF DeliveryRetry, Idle
    <3>2. call' = [call EXCEPT ![w] = [kind |-> "retry", digest |-> d,
                                       expected |-> ledger[d].state, phase |-> "sent"]]
          /\ UNCHANGED <<daemon, tick, relay, backoff, expired, confirmed, crashes, faults>>
      BY Zenon, <2>1 DEF DeliveryRetry, StartCall
    <3>3. OtherTypes'
      BY Zenon, <1>1, <3>1, <3>2 DEF OtherTypes, Call, Workers
    <3>4. CallInv'
      BY Zenon, <1>1, <3>1, <3>2 DEF CallInv, OtherTypes, Workers
    <3> QED
      BY SMTT(30), <3>3, <3>4
  <2>2. ASSUME NEW d \in Digests, BackoffElapses(d) \/ ExpiryPasses(d)
        PROVE  OtherTypes' /\ CallInv'
    BY Zenon, <1>1, <2>2 DEF OtherTypes, CallInv, BackoffElapses, ExpiryPasses
  <2>3. ASSUME NEW w \in Workers, RelayAccepts(w)
        PROVE  OtherTypes' /\ CallInv'
    <3>1. call[w] \in Call /\ call[w] # None
      BY <1>1, <2>3 DEF OtherTypes, RelayAccepts
    <3>2. [call[w] EXCEPT !.phase = "accepted"] \in Call /\ call[w].digest \in Digests
      BY <3>1 DEF Call
    <3>3. call' = [call EXCEPT ![w] = [call[w] EXCEPT !.phase = "accepted"]]
          /\ relay' = relay \cup {call[w].digest}
          /\ UNCHANGED <<daemon, tick, backoff, expired, confirmed, crashes, faults>>
      BY <2>3 DEF RelayAccepts
    <3>4. OtherTypes'
      BY <1>1, <3>2, <3>3 DEF OtherTypes
    <3>5. [call[w] EXCEPT !.phase = "accepted"].digest = call[w].digest
      BY <3>1 DEF Call
    <3>6. daemon = "up"
      BY <1>1, <3>1 DEF CallInv, OtherTypes
    <3>7. CallInv'
      BY <1>1, <3>3, <3>5, <3>6 DEF CallInv, OtherTypes
    <3> QED
      BY <3>4, <3>7
  <2>4. CASE TickBegin
    BY Zenon, <1>1, <2>4 DEF OtherTypes, CallInv, TickBegin, IdleTick, SlotFree
  <2>5. CASE TickFetchFails
    BY <1>1, <2>5 DEF OtherTypes, CallInv, TickFetchFails
  <2>6. CASE TickTakeDue
    <3>1. DueRetries \subseteq Due
      BY DEF DueRetries, Due, Resendable
    <3> QED
      BY ZenonT(60), <1>1, <2>6, <3>1, IdleTickType DEF OtherTypes, CallInv, TickTakeDue
  <2>7. ASSUME NEW s \in tick.due, TickPost(s)
        PROVE  OtherTypes' /\ CallInv'
    <3>1. s \in Due /\ daemon = "up" /\ Maint \in Workers
      BY SMTT(30), <1>1, <2>7 DEF OtherTypes, TickPost, Idle, Workers
    <3>2. call' = [call EXCEPT ![Maint] = [kind |-> "tick", digest |-> s.digest,
                                           expected |-> s.expected, phase |-> "sent"]]
          /\ tick' = AfterDue(s)
          /\ UNCHANGED <<daemon, relay, backoff, expired, confirmed, crashes, faults>>
      BY Zenon, <2>7 DEF TickPost, StartCall
    <3>3. tick' \in [stage : {"idle", "fetching", "fetched", "retrying"},
                     now : SUBSET Digests, due : SUBSET Due]
      BY SMTT(30), <1>1, <3>2, IdleTickType DEF AfterDue, OtherTypes
    <3>4. OtherTypes'
      BY SMTT(30), <1>1, <3>1, <3>2, <3>3 DEF OtherTypes, Call, Due
    <3>5. CallInv'
      BY SMTT(30), <1>1, <3>1, <3>2 DEF CallInv, OtherTypes
    <3> QED
      BY SMTT(30), <3>4, <3>5
  <2> QED
    BY SMTT(30), <2>1, <2>2, <2>3, <2>4, <2>5, <2>6, <2>7
<1> QED
  BY <1>3, <1>4, TypesTogether

-----------------------------------------------------------------------------
\* The remaining steps: a cancellation, expiry, the inbound batch, crashes.
LEMMA OtherActionsKeep ==
    ASSUME IInv,
           \/ \E d \in Digests : DeliveryCancel(d)
           \/ TickExpire \/ (\E s \in tick.due : TickRejectExpired(s))
           \/ InboundStores \/ InboundReloads \/ Crash \/ Restart
    PROVE  IInv' /\ FailureFinal
<1>1. LedgerInv /\ OtherTypes /\ CallInv
  BY TypesApart
<1>2. ASSUME NEW d \in Digests, DeliveryCancel(d)
      PROVE  IInv' /\ FailureFinal
  <2> DEFINE s == Cancel(ledger[d])
  <2>1. Keeps(ledger[d], s) /\ ~s.wire
    <3>1. ledger[d] \in Sound
      BY SMTT(30), <1>1 DEF LedgerInv
    <3>2. ~s.wire
      BY Zenon, <1>2, <3>1 DEF Cancel, DeliveryCancel, Sound, DeliveryRecord
    <3> QED
      BY <3>1, <3>2, MethodsKeep
  <2>2. /\ daemon = "up" /\ SetLedger(OneRecord(d, s)) /\ Persist(OneRecord(d, s))
        /\ UNCHANGED <<daemon, call, tick, relay, expired, crashes>>
    BY Zenon, <1>2 DEF DeliveryCancel, SlotFree, Persist, OneRecord
  <2>3. /\ ledger' = OneRecord(d, s) /\ disk' \in {disk, OneRecord(d, s)}
        /\ backoff' \in SUBSET Digests /\ faults' \in 0..MaxFaults
    BY Zenon, <1>1, <2>2, PersistEffect
  <2>4. \/ confirmed' = confirmed
        \/ disk' = OneRecord(d, s) /\ confirmed' = confirmed \cup {d}
    BY SMTT(30), <1>2 DEF DeliveryCancel, Stored, OneRecord
  <2> HIDE DEF s
  <2>5. LedgerInv' /\ FailureFinal
    <3>1. PICK L : L = OneRecord(d, s)
      OBVIOUS
    <3>2. L \in [Digests -> Sound] /\ L[d] = s /\ \A e \in Digests \ {d} : L[e] = ledger[e]
      BY SMTT(30), <1>1, <2>1, <3>1 DEF OneRecord, LedgerInv, Keeps
    <3>3. \A e \in Digests : /\ ledger[e].state = "Failed" => L[e].state = "Failed"
                             /\ L[e].state = "RelayAccepted" => L[e].relay_id /\ e \in relay
                             /\ e \in confirmed \/ e = d => ~L[e].wire
      BY SMTT(30), <1>1, <2>1, <2>2, <3>2 DEF LedgerInv, AcceptedHasEvidence,
         CancelReleasesWire, Keeps
    <3>4. ledger' = L /\ disk' \in {disk, L} /\ relay' = relay /\ daemon' = daemon
      BY <2>2, <2>3, <3>1
    <3>5. AcceptedHasEvidence'
      BY SMTT(30), <1>1, <3>3, <3>4 DEF LedgerInv, AcceptedHasEvidence
    <3>6. CancelReleasesWire'
      BY SMTT(30), <1>1, <2>4, <3>1, <3>3, <3>4 DEF LedgerInv, CancelReleasesWire, OtherTypes
    <3> QED
      BY SMTT(30), <1>1, <2>2, <3>2, <3>3, <3>4, <3>5, <3>6 DEF LedgerInv, FailureFinal
  <2>6. OtherTypes' /\ CallInv'
    BY <1>1, <2>2, <2>3, <2>4 DEF OtherTypes, CallInv
  <2> QED
    BY SMTT(30), <2>5, <2>6, TypesTogether
<1>3. CASE TickExpire
  <2> DEFINE L == [d \in Digests |-> IF d \in tick.now THEN Expire(ledger[d]) ELSE ledger[d]]
  <2>1. \A d \in Digests : Keeps(ledger[d], L[d])
    BY Zenon, <1>1, MethodsKeep DEF LedgerInv
  <2>2. /\ daemon = "up" /\ SetLedger(L)
        /\ Persist(L) \/ UNCHANGED <<disk, faults>>
        /\ tick' = [tick EXCEPT !.stage = "fetched"]
        /\ UNCHANGED <<daemon, call, relay, expired, confirmed, crashes>>
    BY SMTT(30), <1>3 DEF TickExpire
  <2>3. /\ ledger' = L /\ disk' \in {disk, L}
        /\ backoff' \in SUBSET Digests /\ faults' \in 0..MaxFaults
    BY SMTT(30), <1>1, <2>2, PersistEffect DEF SetLedger, OtherTypes
  <2>4. L \in [Digests -> Sound]
    BY Zenon, <2>1 DEF Keeps
  <2> HIDE DEF L
  <2>5. LedgerStep(L)
    BY <1>1, <2>1, <2>2, <2>3, <2>4 DEF LedgerStep, Keeps, LedgerInv,
       AcceptedHasEvidence, CancelReleasesWire
  <2>6. LedgerInv' /\ FailureFinal
    BY <2>5, LedgerStepKeeps
  <2>7. OtherTypes' /\ CallInv'
    BY SMTT(30), <1>1, <2>2, <2>3 DEF OtherTypes, CallInv
  <2> QED
    BY SMTT(30), <2>6, <2>7, TypesTogether
<1>4. ASSUME NEW s \in tick.due, TickRejectExpired(s)
      PROVE  IInv' /\ FailureFinal
  <2> DEFINE r == MarkFailedIfCurrent(ledger[s.digest], s.expected)
  <2>1. s \in Due /\ s.digest \in Digests /\ daemon = "up"
    BY SMTT(30), <1>1, <1>4 DEF OtherTypes, TickRejectExpired, Idle, Due
  <2>2. Keeps(ledger[s.digest], r)
    BY SMTT(30), <1>1, <2>1, GuardedMethodsKeep DEF LedgerInv, Due
  <2>3. /\ SetLedger(OneRecord(s.digest, r)) /\ Persist(OneRecord(s.digest, r))
        /\ tick' = AfterDue(s)
        /\ UNCHANGED <<daemon, call, relay, expired, confirmed, crashes>>
    BY SMTT(30), <1>4 DEF TickRejectExpired, OneRecord
  <2>4. /\ ledger' = OneRecord(s.digest, r) /\ disk' \in {disk, OneRecord(s.digest, r)}
        /\ backoff' \in SUBSET Digests /\ faults' \in 0..MaxFaults
    BY Zenon, <1>1, <2>3, PersistEffect
  <2> HIDE DEF r
  <2>5. LedgerInv' /\ FailureFinal
    BY Zenon, <2>1, <2>2, <2>3, <2>4, KeepingStep, LedgerStepKeeps
  <2>6. tick' \in [stage : {"idle", "fetching", "fetched", "retrying"},
                   now : SUBSET Digests, due : SUBSET Due]
    BY SMTT(30), <1>1, <2>3, IdleTickType DEF AfterDue, OtherTypes
  <2>7. OtherTypes' /\ CallInv'
    BY Zenon, <1>1, <2>1, <2>3, <2>4, <2>6 DEF OtherTypes, CallInv
  <2> QED
    BY SMTT(30), <2>5, <2>7, TypesTogether
<1>5. CASE InboundStores
  <2>1. daemon = "up" /\ disk' = ledger
        /\ UNCHANGED <<ledger, daemon, call, tick, relay, backoff, expired,
                       confirmed, crashes, faults>>
    BY SMTT(30), <1>5 DEF InboundStores, InboundWork, Stored
  <2>2. LedgerInv' /\ FailureFinal
    BY SMTT(30), <1>1, <2>1 DEF LedgerInv, AcceptedHasEvidence, CancelReleasesWire, FailureFinal,
       OtherTypes
  <2>3. OtherTypes' /\ CallInv'
    BY SMTT(30), <1>1, <2>1 DEF OtherTypes, CallInv
  <2> QED
    BY <2>2, <2>3, TypesTogether
<1>6. CASE InboundReloads
  <2>1. LedgerInv' /\ FailureFinal
    BY SMTT(30), <1>6, ReloadKeeps DEF InboundReloads, InboundWork, NotStored
  <2>2. OtherTypes' /\ CallInv'
    BY SMTT(30), <1>1, <1>6, OutboxAssumption DEF OtherTypes, CallInv, InboundReloads, NotStored
  <2> QED
    BY <2>1, <2>2, TypesTogether
<1>7. CASE Crash
  <2>1. NoRecord \in Sound /\ NoRecord.state = "Absent" /\ ~NoRecord.wire
    BY SMTT(30), MaxAttemptsAssumption DEF NoRecord, Sound, DeliveryRecord, DeliveryStates
  <2>2. LedgerInv' /\ FailureFinal
    BY SMTT(30), <1>1, <1>7, <2>1 DEF Crash, EmptyLedger, LedgerInv, AcceptedHasEvidence,
       CancelReleasesWire, FailureFinal, OtherTypes
  <2>3. OtherTypes' /\ CallInv'
    BY SMTT(30), <1>1, <1>7, IdleTickType, OutboxAssumption DEF Crash, OtherTypes, CallInv
  <2> QED
    BY <2>2, <2>3, TypesTogether
<1>8. CASE Restart
  <2>1. CASE daemon' = "up" /\ ledger' = disk /\ backoff' \in SUBSET {d \in Digests : disk[d].next}
    <3>1. LedgerInv' /\ FailureFinal
      BY SMTT(30), <1>8, <2>1, ReloadKeeps DEF Restart
    <3>2. OtherTypes' /\ CallInv'
      BY Zenon, <1>1, <1>8, <2>1 DEF Restart, OtherTypes, CallInv
    <3> QED
      BY <3>1, <3>2, TypesTogether
  <2>2. CASE daemon' = "refused" /\ UNCHANGED <<ledger, backoff>>
    <3>1. LedgerInv' /\ FailureFinal
      BY Zenon, <1>1, <1>8, <2>2 DEF Restart, LedgerInv, AcceptedHasEvidence,
         CancelReleasesWire, FailureFinal, OtherTypes
    <3>2. OtherTypes' /\ CallInv'
      BY Zenon, <1>1, <1>8, <2>2 DEF Restart, OtherTypes, CallInv
    <3> QED
      BY <3>1, <3>2, TypesTogether
  <2> QED
    BY Zenon, <1>8, <2>1, <2>2 DEF Restart
<1> QED
  BY SMTT(30), <1>2, <1>3, <1>4, <1>5, <1>6, <1>7, <1>8

-----------------------------------------------------------------------------
\* Every step keeps the invariant, and no step revives a stored failure.
LEMMA StepKeeps == IInv /\ [Next]_vars => IInv' /\ (FailureFinal \/ UNCHANGED vars)
<1> SUFFICES ASSUME IInv, [Next]_vars
             PROVE  IInv' /\ (FailureFinal \/ UNCHANGED vars)
  OBVIOUS
<1>1. ASSUME NEW d \in Digests,
             \/ \E w \in Requests : DeliveryPost(w, d) \/ AttachmentSend(w, d)
             \/ DeviceCommit(d)
      PROVE  IInv' /\ FailureFinal
  BY SMTT(30), <1>1, RegistrationKeeps
<1>2. ASSUME NEW d \in Digests,
             \/ \E w \in Requests : DeliveryRetry(w, d)
             \/ DeliveryCancel(d) \/ BackoffElapses(d) \/ ExpiryPasses(d)
      PROVE  IInv' /\ FailureFinal
  BY Zenon, <1>2, QuietActionsKeep, OtherActionsKeep
<1>3. ASSUME NEW w \in Workers, RelayAccepts(w) \/ CallEnds(w)
      PROVE  IInv' /\ FailureFinal
  BY SMTT(30), <1>3, QuietActionsKeep, CallEndsKeeps
<1>4. CASE TickSteps
  BY SMTT(30), <1>4, QuietActionsKeep, OtherActionsKeep DEF TickSteps
<1>5. CASE InboundStores \/ InboundReloads \/ Crash \/ Restart
  BY SMTT(30), <1>5, OtherActionsKeep
<1>6. CASE UNCHANGED vars
  BY Zenon, <1>6 DEF IInv, TypeOK, LedgerInv, CallInv, AcceptedHasEvidence,
     CancelReleasesWire, vars
<1> QED
  BY <1>1, <1>2, <1>3, <1>4, <1>5, <1>6 DEF Next

(* The inductive invariant: the types, what the ledgers hold, and what the *)
(* calls in flight have earned.                                            *)
THEOREM Inductive == Spec => []IInv
<1>1. Init => IInv
  <2> SUFFICES ASSUME Init PROVE IInv
    BY SMTT(30)
  <2>1. NoRecord \in Sound /\ NoRecord.state = "Absent" /\ ~NoRecord.wire
    BY SMTT(30), MaxAttemptsAssumption DEF NoRecord, Sound, DeliveryRecord, DeliveryStates
  <2>2. LedgerInv
    BY SMTT(30), <2>1 DEF Init, EmptyLedger, LedgerInv, AcceptedHasEvidence, CancelReleasesWire
  <2>3. OtherTypes /\ CallInv
    BY IdleTickType, OutboxAssumption DEF Init, OtherTypes, CallInv
  <2> QED
    BY <2>2, <2>3, TypesTogether
<1>2. IInv /\ [Next]_vars => IInv'
  BY StepKeeps
<1> QED
  BY <1>1, <1>2, PTL DEF Spec

(* Every variable keeps its type whatever the relay answers, the store     *)
(* refuses and the crashes interrupt: in particular the retry counter      *)
(* never passes the limit by more than one.                                *)
THEOREM Typing == Spec => []TypeOK
<1>1. IInv => TypeOK
  BY DEF IInv
<1> QED
  BY <1>1, Inductive, PTL

(* A record is relay-accepted only when the relay did accept its envelope, *)
(* for any number of envelopes, callers, crashes and failed commits.       *)
THEOREM EvidenceHolds == Spec => []AcceptedHasEvidence
<1>1. IInv => AcceptedHasEvidence
  BY DEF IInv, LedgerInv
<1> QED
  BY <1>1, Inductive, PTL

(* A confirmed cancellation never lets the ciphertext back into the ledger *)
(* or its stored copy.                                                     *)
THEOREM CancelHolds == Spec => []CancelReleasesWire
<1>1. IInv => CancelReleasesWire
  BY DEF IInv, LedgerInv
<1> QED
  BY <1>1, Inductive, PTL

(* No caller, reload or restart brings a stored failure back.              *)
THEOREM FailureHolds == Spec => StoredFailureIsFinal
<1>1. IInv /\ [Next]_vars =>
        [\A d \in Digests : disk[d].state = "Failed" => disk'[d].state = "Failed"]_vars
  BY SMTT(30), StepKeeps DEF FailureFinal
<1> QED
  BY <1>1, Inductive, PTL DEF Spec, StoredFailureIsFinal
-----------------------------------------------------------------------------
(* Who is working on an envelope: the calls in flight and the tick's list. *)

HasWork(w, d) ==
    \/ call[w] # None /\ call[w].digest = d
    \/ w = Maint /\ \E s \in tick.due : s.digest = d

\* w's call in flight is the attachment route's for envelope d.
Attach(w, d) == call[w] # None /\ call[w].kind = "attachment" /\ call[w].digest = d

\* Work on d starts for a new envelope, or for one whose wire is in memory.
WorkMoves(d) ==
    \/ \A w \in Workers : HasWork(w, d)' => HasWork(w, d)
    \/ Fresh(d)
    \/ /\ ledger[d].wire /\ ledger[d].state \in {"Queued", "Retryable"}
       /\ UNCHANGED <<ledger, disk>>

\* An attachment call starts for a new envelope, stored as Queued.
AttachMoves(d) ==
    \A w \in Workers : Attach(w, d)' =>
        \/ Attach(w, d)
        \/ /\ w \in Requests /\ Fresh(d)
           /\ disk'[d] = ledger'[d] /\ ledger'[d].state = "Queued" /\ ledger'[d].wire

LEMMA OutstandingIs ==
    \A d \in Digests :
        /\ \A w : w \in Outstanding(d) <=> w \in Workers /\ HasWork(w, d)
        /\ \A w : (w \in Outstanding(d))' <=> w \in Workers /\ HasWork(w, d)'
  BY SMTT(30) DEF Outstanding, HasWork, Workers

\* A step that starts no call and lists nothing new.
LEMMA NoNewWork ==
    ASSUME IInv, \A w \in Workers : call'[w] \in {None, call[w]},
           tick'.due \subseteq tick.due
    PROVE  \A d \in Digests : WorkMoves(d) /\ AttachMoves(d)
  BY DEF WorkMoves, AttachMoves, HasWork, Attach

\* Every step.
LEMMA WorkStep ==
    ASSUME IInv, Next
    PROVE  \A d \in Digests : WorkMoves(d) /\ AttachMoves(d)
<1>1. OtherTypes /\ CallInv
  BY TypesApart
<1> DEFINE Goal == \A d \in Digests : WorkMoves(d) /\ AttachMoves(d)
<1>2. ASSUME UNCHANGED <<call, tick>> PROVE Goal
  BY <1>2, NoNewWork
<1>3. ASSUME NEW w \in Workers, EndCall(w), UNCHANGED tick PROVE Goal
  <2>1. \A v \in Workers : call'[v] \in {None, call[v]}
    BY <1>1, <1>3 DEF EndCall, OtherTypes
  <2> QED
    BY <1>3, <2>1, NoNewWork
<1>4. ASSUME NEW w \in Requests, NEW d \in Digests, NEW k, NEW e,
             StartCall(w, k, d, e), UNCHANGED tick,
             \/ Fresh(d)
             \/ /\ ledger[d].wire /\ ledger[d].state \in {"Queued", "Retryable"}
                /\ UNCHANGED <<ledger, disk>>,
             \/ k # "attachment"
             \/ /\ Fresh(d) /\ disk'[d] = ledger'[d]
                /\ ledger'[d].state = "Queued" /\ ledger'[d].wire
      PROVE  Goal
  <2>1. PICK c : c = [kind |-> k, digest |-> d, expected |-> e, phase |-> "sent"]
    BY Zenon
  <2>2. c.digest = d /\ c.kind = k
    BY <2>1
  <2>3. call'[w] = c /\ \A v \in Workers : v # w => call'[v] = call[v]
    BY Zenon, <1>1, <1>4, <2>1 DEF StartCall, OtherTypes, Workers
  <2>4. ASSUME NEW x \in Digests PROVE WorkMoves(x)
    <3>1. CASE x = d
      BY Zenon, <1>4, <3>1 DEF WorkMoves
    <3>2. CASE x # d
      BY Zenon, <1>4, <2>2, <2>3, <3>2 DEF WorkMoves, HasWork
    <3> QED
      BY <3>1, <3>2
  <2>5. ASSUME NEW x \in Digests PROVE AttachMoves(x)
    BY Zenon, <1>4, <2>2, <2>3 DEF AttachMoves, Attach
  <2> QED
    BY <2>4, <2>5
<1>5. ASSUME NEW d \in Digests, NEW w \in Requests,
             DeliveryPost(w, d) \/ AttachmentSend(w, d) \/ DeliveryRetry(w, d)
      PROVE  Goal
  <2>1. CASE DeliveryPost(w, d)
    BY Zenon, <1>4, <2>1 DEF DeliveryPost
  <2>2. CASE DeliveryRetry(w, d)
    BY Zenon, <1>4, <2>2 DEF DeliveryRetry
  <2>3. CASE AttachmentSend(w, d)
    <3> DEFINE s == Transition(RegisterEncrypted(ledger[d]), "Queued")
    <3>1. CASE /\ SetLedger(OneRecord(d, s)) /\ Stored(OneRecord(d, s))
               /\ StartCall(w, "attachment", d, "Queued")
      <4>1. s.state = "Queued" /\ s.wire
        BY <2>3 DEF AttachmentSend, Fresh, Transition, RegisterEncrypted, NoRecord,
           ValidTransition
      <4>2. ledger'[d] = s /\ disk'[d] = s
        <5>1. LedgerInv
          BY SMTT(30), TypesApart
        <5> QED
          BY Zenon, <3>1, <5>1 DEF SetLedger, Stored, OneRecord, LedgerInv
      <4>3. Fresh(d) /\ UNCHANGED tick
        BY <2>3 DEF AttachmentSend
      <4> HIDE DEF s
      <4> QED
        BY Zenon, <1>4, <3>1, <4>1, <4>2, <4>3
    <3>2. CASE UNCHANGED <<call, tick>>
      BY <1>2, <3>2
    <3> QED
      BY <2>3, <3>1, <3>2 DEF AttachmentSend, OneRecord
  <2> QED
    BY <1>5, <2>1, <2>2, <2>3
<1>6. ASSUME NEW d \in Digests,
             DeviceCommit(d) \/ DeliveryCancel(d) \/ BackoffElapses(d) \/ ExpiryPasses(d)
      PROVE  Goal
  BY Zenon, <1>2, <1>6 DEF DeviceCommit, DeliveryCancel, BackoffElapses, ExpiryPasses
<1>7. ASSUME NEW w \in Workers, RelayAccepts(w) PROVE Goal
  <2>1. call[w] \in Call /\ call[w] # None
    BY <1>1, <1>7 DEF OtherTypes, RelayAccepts
  <2>2. PICK c : c = [call[w] EXCEPT !.phase = "accepted"]
    BY Zenon
  <2>3. c.digest = call[w].digest /\ c.kind = call[w].kind
    BY <2>1, <2>2 DEF Call
  <2>4. call'[w] = c /\ (\A v \in Workers : v # w => call'[v] = call[v]) /\ UNCHANGED tick
    BY <1>1, <1>7, <2>2 DEF RelayAccepts, OtherTypes
  <2> QED
    BY Zenon, <2>1, <2>3, <2>4 DEF WorkMoves, AttachMoves, HasWork, Attach
<1>8. ASSUME NEW w \in Workers, CallEnds(w) PROVE Goal
  <2>1. EndCall(w) /\ UNCHANGED tick
    BY Zenon, <1>8 DEF CallEnds, CallAccepted, CallAcceptedLate, CallFailed, CallRejected, Apply
  <2> QED
    BY <1>3, <2>1
<1>9. CASE TickBegin \/ TickExpire \/ TickFetchFails
  <2>1. UNCHANGED call /\ tick'.due \subseteq tick.due
    BY Zenon, <1>1, <1>9 DEF TickBegin, TickExpire, TickFetchFails, IdleTick, OtherTypes
  <2> QED
    BY Zenon, <2>1, NoNewWork
<1>10. CASE TickTakeDue
  <2>1. UNCHANGED <<call, ledger, disk>> /\ tick'.due \subseteq DueRetries
    <3>1. UNCHANGED <<call, ledger, disk>>
      BY Zenon, <1>10 DEF TickTakeDue
    <3>2. PICK S \in SUBSET DueRetries :
            tick' = IF S = {} THEN IdleTick ELSE [tick EXCEPT !.stage = "retrying", !.due = S]
      BY Zenon, <1>10 DEF TickTakeDue
    <3> QED
      BY <1>1, <3>1, <3>2 DEF IdleTick, OtherTypes
  <2>2. \A s \in DueRetries : /\ ledger[s.digest].wire
                              /\ ledger[s.digest].state \in {"Queued", "Retryable"}
    BY DEF DueRetries, Resendable
  <2> QED
    BY <2>1, <2>2 DEF WorkMoves, AttachMoves, HasWork, Attach
<1>11. ASSUME NEW s \in tick.due, TickPost(s) PROVE Goal
  <2>1. PICK c : c = [kind |-> "tick", digest |-> s.digest, expected |-> s.expected,
                      phase |-> "sent"]
    BY Zenon
  <2>2. c.digest = s.digest /\ c.kind = "tick"
    BY SMTT(30), <2>1
  <2>3. call'[Maint] = c /\ \A v \in Workers : v # Maint => call'[v] = call[v]
    BY <1>1, <1>11, <2>1 DEF TickPost, StartCall, OtherTypes, Workers
  <2>4. tick'.due \subseteq tick.due
    BY <1>1, <1>11 DEF TickPost, AfterDue, IdleTick, OtherTypes
  <2> QED
    BY Zenon, <1>11, <2>2, <2>3, <2>4 DEF WorkMoves, AttachMoves, HasWork, Attach
<1>12. ASSUME NEW s \in tick.due, TickRejectExpired(s) PROVE Goal
  <2>1. UNCHANGED call /\ tick'.due \subseteq tick.due
    BY <1>1, <1>12 DEF TickRejectExpired, AfterDue, IdleTick, OtherTypes
  <2> QED
    BY <2>1, NoNewWork
<1>13. CASE InboundStores \/ InboundReloads \/ Restart
  BY Zenon, <1>2, <1>13 DEF InboundStores, InboundReloads, Restart
<1>14. CASE Crash
  <2>1. (\A v \in Workers : call'[v] = None) /\ tick'.due = {}
    BY <1>14 DEF Crash, IdleTick
  <2> QED
    BY SMTT(30), <2>1, NoNewWork
<1> QED
  BY Zenon, <1>5, <1>6, <1>7, <1>8, <1>9, <1>10, <1>11, <1>12, <1>13, <1>14 DEF Next, TickSteps

(* After a confirmed cancellation only the requests that already held the  *)
(* envelope may finish: no retry route and no tick takes it up again.      *)
THEOREM NoFreshPost == Spec => NoFreshPostAfterCancel
<1>1. IInv /\ [Next]_vars =>
        [\A d \in confirmed : Outstanding(d)' \subseteq Outstanding(d)]_vars
  <2> SUFFICES ASSUME IInv, Next, NEW d \in confirmed
               PROVE  Outstanding(d)' \subseteq Outstanding(d)
    OBVIOUS
  <2>1. d \in Digests /\ ~ledger[d].wire /\ ~Fresh(d)
    BY DEF IInv, TypeOK, LedgerInv, CancelReleasesWire, Fresh
  <2>2. \A w \in Workers : HasWork(w, d)' => HasWork(w, d)
    BY Zenon, <2>1, WorkStep DEF WorkMoves
  <2> QED
    BY <2>1, <2>2, OutstandingIs
<1> QED
  BY <1>1, Inductive, PTL DEF Spec, NoFreshPostAfterCancel

-----------------------------------------------------------------------------
\* What applying a result observed in state e makes of the record r.
LateOk(r, s, e) ==
    r.state = e \/ s.state = r.state \/ (r.state = "Cancelled" /\ s.state = "RelayAccepted")

\* The guarded methods.
LEMMA GuardedLateOk ==
    ASSUME NEW r \in Sound, NEW e
    PROVE  /\ CanAcceptRetry(r, e) => LateOk(r, AcceptRetry(r, e), e)
           /\ LateOk(r, ScheduleRetryIfCurrent(r, e), e)
           /\ LateOk(r, MarkFailedIfCurrent(r, e), e)
<1>1. CanAcceptRetry(r, e) => LateOk(r, AcceptRetry(r, e), e)
  BY DEF CanAcceptRetry, AcceptRetry, LateOk, Sound, DeliveryRecord
<1>2. LateOk(r, ScheduleRetryIfCurrent(r, e), e)
  BY Zenon DEF ScheduleRetryIfCurrent, LateOk
<1>3. LateOk(r, MarkFailedIfCurrent(r, e), e)
  BY Zenon DEF MarkFailedIfCurrent, LateOk
<1> QED
  BY <1>1, <1>2, <1>3

\* The step that ends w's call.
LEMMA CallEndsLateOk ==
    ASSUME IInv, NEW w \in Workers, CallEnds(w), call[w].kind # "attachment"
    PROVE  LateOk(ledger[call[w].digest], ledger'[call[w].digest], call[w].expected)
<1>1. LedgerInv /\ OtherTypes
  BY TypesApart
<1>2. call[w] # None /\ call[w] \in Call
  BY Zenon, <1>1 DEF CallEnds, CallAccepted, CallAcceptedLate, CallFailed, CallRejected, OtherTypes
<1>3. PICK d, e : d = call[w].digest /\ e = call[w].expected
  BY SMTT(30)
<1>4. d \in Digests /\ ledger \in [Digests -> Sound]
  BY SMTT(30), <1>1, <1>2, <1>3 DEF Call, LedgerInv
<1>5. ASSUME NEW s, ledger' = [ledger EXCEPT ![d] = s] PROVE ledger'[d] = s
  BY <1>4, <1>5
<1>6. \/ UNCHANGED ledger
      \/ CanAcceptRetry(ledger[d], e) /\ ledger' = [ledger EXCEPT ![d] = AcceptRetry(ledger[d], e)]
      \/ ledger' = [ledger EXCEPT ![d] = ScheduleRetryIfCurrent(ledger[d], e)]
      \/ ledger' = [ledger EXCEPT ![d] = MarkFailedIfCurrent(ledger[d], e)]
  BY ZenonT(60), <1>3 DEF CallEnds, CallAccepted, CallAcceptedLate, CallFailed, CallRejected, Apply,
     SetLedger
<1>7. LateOk(ledger[d], ledger'[d], e)
  <2>1. PICK r \in Sound : r = ledger[d]
    BY SMTT(30), <1>4
  <2>2. CASE UNCHANGED ledger
    BY Zenon, <2>2 DEF LateOk
  <2>3. CASE CanAcceptRetry(r, e) /\ ledger' = [ledger EXCEPT ![d] = AcceptRetry(r, e)]
    BY Zenon, <1>5, <2>1, <2>3, GuardedLateOk
  <2>4. CASE ledger' = [ledger EXCEPT ![d] = ScheduleRetryIfCurrent(r, e)]
    BY Zenon, <1>5, <2>1, <2>4, GuardedLateOk
  <2>5. CASE ledger' = [ledger EXCEPT ![d] = MarkFailedIfCurrent(r, e)]
    BY Zenon, <1>5, <2>1, <2>5, GuardedLateOk
  <2> QED
    BY Zenon, <1>6, <2>1, <2>2, <2>3, <2>4, <2>5
<1> QED
  BY <1>3, <1>7

\* Only the steps that end w's call take it away from a daemon that is up.
LEMMA CallGone ==
    ASSUME IInv, Next, NEW w \in Workers, call[w] # None, call'[w] = None, daemon' = "up"
    PROVE  CallEnds(w)
<1>1. OtherTypes /\ CallInv
  BY SMTT(30), TypesApart
<1>2. ASSUME NEW v \in Workers, NEW k, NEW d, NEW e, Idle(v), StartCall(v, k, d, e)
      PROVE  FALSE
  BY <1>1, <1>2 DEF OtherTypes, StartCall, Idle
<1>3. ASSUME NEW v \in Workers, EndCall(v), v # w PROVE FALSE
  BY <1>1, <1>3 DEF OtherTypes, EndCall
<1>4. ASSUME UNCHANGED call PROVE FALSE
  BY <1>4
<1>5. ASSUME NEW d \in Digests, NEW v \in Requests,
             DeliveryPost(v, d) \/ AttachmentSend(v, d) \/ DeliveryRetry(v, d)
      PROVE  FALSE
  <2>1. v \in Workers
    BY DEF Workers
  <2> QED
    BY Zenon, <1>2, <1>4, <1>5, <2>1 DEF DeliveryPost, AttachmentSend, DeliveryRetry
<1>6. ASSUME NEW d \in Digests,
             DeviceCommit(d) \/ DeliveryCancel(d) \/ BackoffElapses(d) \/ ExpiryPasses(d)
      PROVE  FALSE
  BY Zenon, <1>4, <1>6 DEF DeviceCommit, DeliveryCancel, BackoffElapses, ExpiryPasses
<1>7. ASSUME NEW v \in Workers, RelayAccepts(v) PROVE FALSE
  <2>1. call[v] \in Call
    BY <1>1, <1>7 DEF OtherTypes, RelayAccepts
  <2>2. [call[v] EXCEPT !.phase = "accepted"] \in Call
    BY <2>1 DEF Call
  <2> QED
    BY SMTT(30), <1>1, <1>7, <2>2, NoneAssumption DEF RelayAccepts, OtherTypes
<1>8. ASSUME NEW v \in Workers, CallEnds(v) PROVE CallEnds(w)
  <2>1. EndCall(v)
    BY Zenon, <1>8 DEF CallEnds, CallAccepted, CallAcceptedLate, CallFailed, CallRejected, Apply
  <2> QED
    BY <1>3, <1>8, <2>1
<1>9. CASE TickBegin \/ TickExpire \/ TickFetchFails \/ TickTakeDue
  BY Zenon, <1>4, <1>9 DEF TickBegin, TickExpire, TickFetchFails, TickTakeDue
<1>10. ASSUME NEW s \in tick.due, TickPost(s) \/ TickRejectExpired(s) PROVE FALSE
  <2>1. Maint \in Workers
    BY DEF Workers
  <2> QED
    BY Zenon, <1>2, <1>4, <1>10, <2>1 DEF TickPost, TickRejectExpired
<1>11. CASE InboundStores \/ InboundReloads \/ Restart
  BY Zenon, <1>4, <1>11 DEF InboundStores, InboundReloads, Restart
<1>12. CASE Crash
  BY <1>12 DEF Crash
<1> QED
  BY ZenonT(60), <1>5, <1>6, <1>7, <1>8, <1>9, <1>10, <1>11, <1>12 DEF Next, TickSteps

(* A result that comes late, from a retry, a post or the tick, changes     *)
(* only a record that is still in the state observed before the request,   *)
(* or turns a cancelled one into a proven acceptance.                      *)
THEOREM LateResults == Spec => LateResultKeepsState
<1>1. IInv /\ [Next]_vars =>
        [\A w \in Workers :
         (/\ call[w] # None /\ call[w].kind # "attachment"
          /\ call'[w] = None /\ daemon' = "up") =>
           LET d == call[w].digest
           IN  \/ ledger[d].state = call[w].expected
               \/ ledger'[d].state = ledger[d].state
               \/ ledger[d].state = "Cancelled" /\ ledger'[d].state = "RelayAccepted"]_vars
  BY Zenon, CallGone, CallEndsLateOk DEF LateOk
<1> QED
  BY <1>1, Inductive, PTL DEF Spec, LateResultKeepsState

-----------------------------------------------------------------------------
(* What restore finds in the store.  A record is valid, or exhausted; no   *)
(* step leaves one between its registration and the queue.                 *)
Exhausted(r) == r.state = "Failed" /\ ~r.next /\ r.attempts = MaxAttempts + 1

Valid(r) == Present(r) => /\ r.state \notin {"Draft", "Encrypted"}
                          /\ ValidPersistedRecord(r) \/ Exhausted(r)

\* A cancelled record that a late acceptance moved has lost its wire.
Stripped(r) == r.state = "RelayAccepted" /\ ~r.wire

(* An attachment request in flight reschedules whatever it finds, so it    *)
(* must never find a stripped record: nothing else that works on its       *)
(* envelope is in flight once the envelope is cancelled.                   *)
AttachmentAlone ==
    \A w \in Workers, d \in Digests : Attach(w, d) =>
        /\ w # Maint
        /\ ~Stripped(ledger[d]) /\ ~Stripped(disk[d])
        /\ disk[d].state = "Cancelled" => ledger[d].state = "Cancelled"
        /\ ledger[d].state = "Cancelled" => \A v \in Workers : HasWork(v, d) => v = w

ValidInv ==
    /\ \A d \in Digests : Valid(ledger[d]) /\ Valid(disk[d])
    /\ tick.due # {} => tick.stage # "idle"
    /\ AttachmentAlone

\* What a step that neither cancels nor strips makes of a record.
Mild(r, s) ==
    /\ Valid(s)
    /\ s.state = "Cancelled" <=> r.state = "Cancelled"
    /\ Stripped(s) => Stripped(r)

\* The methods on a valid record.
LEMMA MildMethods ==
    ASSUME NEW r \in Sound, Valid(r), NEW e \in {"Queued", "Retryable"}
    PROVE  /\ Mild(r, r)
           /\ Mild(r, Expire(r))
           /\ Mild(r, ScheduleRetryIfCurrent(r, e))
           /\ Mild(r, MarkFailedIfCurrent(r, e))
           /\ ~Stripped(r) => Mild(r, ScheduleRetry(r))
           /\ Mild(r, Transition(BindRelayId(r), "RelayAccepted"))
           /\ CanAcceptRetry(r, e) /\ r.state # "Cancelled" => Mild(r, AcceptRetry(r, e))
           /\ CanAcceptRetry(r, e) => Valid(AcceptRetry(r, e))
           /\ Valid(Cancel(r))
<1> USE MaxAttemptsAssumption DEF Sound, DeliveryRecord, DeliveryStates, Valid, Exhausted,
    ValidPersistedRecord, Present, Mild, Stripped
<1>1. Mild(r, r)
  OBVIOUS
<1>2. Mild(r, Expire(r))
  BY DEF Expire
<1>3. ~Stripped(r) => Mild(r, ScheduleRetry(r))
  BY DEF ScheduleRetry, NotReschedulable
<1>4. Mild(r, ScheduleRetryIfCurrent(r, e))
  BY DEF ScheduleRetryIfCurrent, ScheduleRetry, NotReschedulable
<1>5. Mild(r, MarkFailedIfCurrent(r, e))
  BY DEF MarkFailedIfCurrent, MarkFailed
<1>6. Mild(r, Transition(BindRelayId(r), "RelayAccepted"))
  <2>1. PICK b : b = BindRelayId(r)
    OBVIOUS
  <2>2. b \in Sound /\ Mild(r, b) /\ b.state = r.state /\ Valid(b)
    BY Zenon, <2>1 DEF BindRelayId
  <2>3. Mild(b, Transition(b, "RelayAccepted"))
    BY <2>2 DEF Transition, ValidTransition
  <2> QED
    BY Zenon, <2>1, <2>2, <2>3
<1>7. CanAcceptRetry(r, e) /\ r.state # "Cancelled" => Mild(r, AcceptRetry(r, e))
  BY DEF CanAcceptRetry, AcceptRetry
<1>8. CanAcceptRetry(r, e) => Valid(AcceptRetry(r, e))
  BY DEF CanAcceptRetry, AcceptRetry
<1>9. Valid(Cancel(r))
  BY DEF Cancel, NotCancellable
<1> QED
  BY ZenonT(60), <1>1, <1>2, <1>3, <1>4, <1>5, <1>6, <1>7, <1>8, <1>9

\* The registrations.
LEMMA MildRegistrations ==
    ASSUME NEW r \in Sound, ~Present(r)
    PROVE  /\ Mild(r, RegisterQueued(r))
           /\ Mild(r, Transition(RegisterEncrypted(r), "Queued"))
           /\ Mild(r, ScheduleRetry(RegisterEncrypted(r)))
           /\ Mild(r, Transition(Transition(BindRelayId(RegisterEncrypted(r)), "Queued"),
                                 "RelayAccepted"))
<1> USE MaxAttemptsAssumption DEF Sound, DeliveryRecord, DeliveryStates, Valid, Exhausted,
    ValidPersistedRecord, Present, Mild, Stripped, NoRecord
<1>1. Mild(r, RegisterQueued(r))
  BY DEF RegisterQueued
<1>2. PICK q : q = RegisterEncrypted(r)
  OBVIOUS
<1>3. q = [state |-> "Encrypted", attempts |-> 0, next |-> FALSE, wire |-> TRUE,
           dest |-> TRUE, relay_id |-> FALSE]
  BY Zenon, <1>2 DEF RegisterEncrypted
<1>4. Mild(r, Transition(q, "Queued"))
  BY <1>3 DEF Transition, ValidTransition
<1>5. Mild(r, ScheduleRetry(q))
  BY <1>3 DEF ScheduleRetry, NotReschedulable
<1>6. Mild(r, Transition(Transition(BindRelayId(q), "Queued"), "RelayAccepted"))
  BY <1>3 DEF Transition, BindRelayId, ValidTransition
<1> QED
  BY ZenonT(60), <1>1, <1>2, <1>4, <1>5, <1>6

\* A step changes the record of d to s: mildly, by a cancellation with a slot
\* free, or by an acceptance that some other request than an attachment brings.
Moved(d, s) ==
    \/ Mild(ledger[d], s)
    \/ SlotFree /\ UNCHANGED <<call, tick>> /\ Valid(s) /\ s.state = "Cancelled"
    \/ /\ ledger[d].state = "Cancelled" /\ Valid(s) /\ s.state # "Cancelled"
       /\ \E w \in Workers : HasWork(w, d) /\ ~Attach(w, d)

\* Or the memory is read back, or lost in a crash.
RecordMoves(d) ==
    /\ \/ Moved(d, ledger'[d])
       \/ ledger'[d] = disk[d] /\ disk'[d] = disk[d]
       \/ ledger'[d] = NoRecord /\ \A w \in Workers : call'[w] = None
    /\ disk'[d] \in {disk[d], ledger'[d]}

\* A step that changes one record at most.
LEMMA OneMove ==
    ASSUME IInv, ValidInv, NEW d \in Digests, NEW s, Moved(d, s),
           ledger' = OneRecord(d, s), disk' \in {disk, ledger'}
    PROVE  \A x \in Digests : RecordMoves(x)
<1>1. LedgerInv
  BY TypesApart
<1>2. ledger'[d] = s /\ \A x \in Digests : x # d => ledger'[x] = ledger[x]
  BY <1>1 DEF LedgerInv, OneRecord
<1>3. \A x \in Digests : Mild(ledger[x], ledger[x])
  BY Zenon, <1>1, MildMethods DEF LedgerInv, ValidInv
<1>4. \A x \in Digests : disk'[x] \in {disk[x], ledger'[x]}
  BY Zenon
<1> QED
  BY Zenon, <1>2, <1>3, <1>4 DEF RecordMoves, Moved

\* A step that changes no record in memory.
LEMMA NoMove ==
    ASSUME IInv, ValidInv, UNCHANGED ledger, disk' \in {disk, ledger}
    PROVE  \A x \in Digests : RecordMoves(x)
<1>1. \A x \in Digests : Mild(ledger[x], ledger[x])
  BY Zenon, TypesApart, MildMethods DEF LedgerInv, ValidInv
<1> QED
  BY Zenon, <1>1 DEF RecordMoves, Moved

\* The end of a call.
LEMMA CallEndMoves ==
    ASSUME IInv, ValidInv, NEW w \in Workers, CallEnds(w)
    PROVE  \A x \in Digests : RecordMoves(x)
<1>1. LedgerInv /\ OtherTypes
  BY TypesApart
<1>2. call[w] # None /\ call[w] \in Call
  BY Zenon, <1>1 DEF CallEnds, CallAccepted, CallAcceptedLate, CallFailed, CallRejected, OtherTypes
<1>3. PICK d, e, k : d = call[w].digest /\ e = call[w].expected /\ k = call[w].kind
  BY SMTT(30)
<1>4. d \in Digests /\ e \in {"Queued", "Retryable"}
  BY <1>2, <1>3 DEF Call
<1>5. PICK r : r = ledger[d]
  BY SMTT(30)
<1>6. r \in Sound /\ Valid(r)
  BY <1>1, <1>4, <1>5 DEF LedgerInv, ValidInv
<1>7. HasWork(w, d) /\ (Attach(w, d) <=> k = "attachment")
  BY Zenon, <1>2, <1>3 DEF HasWork, Attach
<1>8. k = "attachment" => ~Stripped(r)
  BY Zenon, <1>4, <1>5, <1>7 DEF ValidInv, AttachmentAlone
<1>9. ASSUME NEW s, Moved(d, s), ledger' = OneRecord(d, s), Persist(OneRecord(d, s))
      PROVE  \A x \in Digests : RecordMoves(x)
  <2>1. disk' \in {disk, ledger'}
    BY Zenon, <1>9 DEF Persist, Stored, NotStored
  <2> QED
    BY <1>4, <1>9, <2>1, OneMove
<1>10. CASE CallAccepted(w)
  <2>1. PICK s : /\ ledger' = OneRecord(d, s) /\ Persist(OneRecord(d, s))
                 /\ \/ s = Transition(BindRelayId(r), "RelayAccepted")
                    \/ k # "attachment" /\ CanAcceptRetry(r, e) /\ s = AcceptRetry(r, e)
    BY Zenon, <1>3, <1>5, <1>10 DEF CallAccepted, Apply, SetLedger, OneRecord
  <2>2. CASE Mild(r, s)
    BY Zenon, <1>5, <1>9, <2>1, <2>2 DEF Moved
  <2>3. CASE k # "attachment" /\ CanAcceptRetry(r, e) /\ s = AcceptRetry(r, e)
             /\ r.state = "Cancelled"
    <3>1. Valid(s) /\ s.state # "Cancelled"
      <4>1. Valid(s)
        BY Zenon, <1>4, <1>6, <2>3, MildMethods
      <4>2. s.state = "RelayAccepted"
        BY <1>6, <2>3 DEF AcceptRetry, Sound, DeliveryRecord
      <4> QED
        BY <4>1, <4>2
    <3>2. Moved(d, s)
      BY Zenon, <1>5, <1>7, <2>3, <3>1 DEF Moved
    <3> QED
      BY Zenon, <1>9, <2>1, <3>2
  <2> QED
    BY Zenon, <1>4, <1>6, <2>1, <2>2, <2>3, MildMethods
<1>11. CASE CallAcceptedLate(w)
  BY Zenon, <1>11, NoMove DEF CallAcceptedLate
<1>12. CASE CallFailed(w) \/ CallRejected(w)
  <2>1. PICK s : /\ ledger' = OneRecord(d, s) /\ Persist(OneRecord(d, s))
                 /\ \/ k = "attachment" /\ s = ScheduleRetry(r)
                    \/ s = ScheduleRetryIfCurrent(r, e)
                    \/ s = MarkFailedIfCurrent(r, e)
    BY Zenon, <1>3, <1>5, <1>12 DEF CallFailed, CallRejected, Apply, SetLedger, OneRecord
  <2>2. Mild(r, s)
    BY Zenon, <1>4, <1>6, <1>8, <2>1, MildMethods
  <2> QED
    BY Zenon, <1>5, <1>9, <2>1, <2>2 DEF Moved
<1> QED
  BY <1>10, <1>11, <1>12 DEF CallEnds

\* Every step.
LEMMA RecordStep ==
    ASSUME IInv, ValidInv, Next
    PROVE  \A x \in Digests : RecordMoves(x)
<1>1. LedgerInv /\ OtherTypes
  BY SMTT(30), TypesApart
<1> DEFINE Goal == \A x \in Digests : RecordMoves(x)
<1>2. ASSUME NEW d \in Digests, NEW s, Moved(d, s), ledger' = OneRecord(d, s),
             Persist(OneRecord(d, s))
      PROVE  Goal
  <2>1. disk' \in {disk, ledger'}
    BY Zenon, <1>2 DEF Persist, Stored, NotStored
  <2> QED
    BY <1>2, <2>1, OneMove
<1>3. ASSUME ledger' = disk, disk' = disk PROVE Goal
  BY Zenon, <1>3 DEF RecordMoves
<1>4. ASSUME NEW d \in Digests, Fresh(d)
      PROVE  LET r == ledger[d]
             IN  /\ Moved(d, RegisterQueued(r))
                 /\ Moved(d, Transition(RegisterEncrypted(r), "Queued"))
                 /\ Moved(d, ScheduleRetry(RegisterEncrypted(r)))
                 /\ Moved(d, Transition(Transition(BindRelayId(RegisterEncrypted(r)),
                                                   "Queued"), "RelayAccepted"))
  <2>1. ledger[d] \in Sound /\ ~Present(ledger[d])
    BY <1>1, <1>4 DEF LedgerInv, Fresh
  <2> QED
    BY ZenonT(60), <2>1, MildRegistrations DEF Moved
<1>5. ASSUME NEW d \in Digests, NEW w \in Requests, DeliveryPost(w, d) PROVE Goal
  <2>1. ledger' = OneRecord(d, RegisterQueued(ledger[d]))
        /\ Persist(OneRecord(d, RegisterQueued(ledger[d]))) /\ Fresh(d)
    BY Zenon, <1>5 DEF DeliveryPost, SetLedger, Persist, OneRecord
  <2> QED
    BY Zenon, <1>2, <1>4, <2>1
<1>6. ASSUME NEW d \in Digests, NEW w \in Requests, AttachmentSend(w, d) PROVE Goal
  <2> DEFINE s == Transition(RegisterEncrypted(ledger[d]), "Queued")
  <2>1. Fresh(d) /\ \/ ledger' = OneRecord(d, s) /\ Persist(OneRecord(d, s))
                    \/ ledger' = disk /\ disk' = disk
    BY Zenon, <1>6 DEF AttachmentSend, SetLedger, Persist, NotStored, OneRecord
  <2> QED
    BY Zenon, <1>2, <1>3, <1>4, <2>1
<1>7. ASSUME NEW d \in Digests, DeviceCommit(d) PROVE Goal
  <2>1. PICK s : /\ ledger' = OneRecord(d, s) /\ Persist(OneRecord(d, s)) /\ Fresh(d)
                 /\ s \in {ScheduleRetry(RegisterEncrypted(ledger[d])),
                           Transition(Transition(BindRelayId(RegisterEncrypted(ledger[d])),
                                                 "Queued"), "RelayAccepted")}
    BY Zenon, <1>7 DEF DeviceCommit, SetLedger, OneRecord
  <2> QED
    BY Zenon, <1>2, <1>4, <2>1
<1>8. ASSUME NEW d \in Digests, DeliveryCancel(d) PROVE Goal
  <2>1. PICK s : s = Cancel(ledger[d])
    OBVIOUS
  <2>2. ledger' = OneRecord(d, s) /\ Persist(OneRecord(d, s))
    BY Zenon, <1>8, <2>1 DEF DeliveryCancel, SetLedger, Persist, OneRecord
  <2>3. SlotFree /\ UNCHANGED <<call, tick>>
    BY ZenonT(60), <1>8 DEF DeliveryCancel
  <2>4. ledger[d] \in Sound /\ Valid(ledger[d])
    BY <1>1 DEF LedgerInv, ValidInv
  <2>5. Valid(s)
    BY Zenon, <2>1, <2>4, MildMethods
  <2>6. s.state = "Cancelled"
    BY <1>8, <2>1, <2>4 DEF DeliveryCancel, Cancel, Sound, DeliveryRecord
  <2>7. Moved(d, s)
    BY Zenon, <2>3, <2>5, <2>6 DEF Moved
  <2> QED
    BY Zenon, <1>2, <2>2, <2>7
<1>9. ASSUME \/ \E w \in Requests, d \in Digests : DeliveryRetry(w, d)
             \/ \E d \in Digests : BackoffElapses(d) \/ ExpiryPasses(d)
             \/ \E w \in Workers : RelayAccepts(w)
             \/ TickBegin \/ TickFetchFails \/ TickTakeDue
             \/ \E s \in tick.due : TickPost(s)
             \/ InboundStores
      PROVE  Goal
  <2>1. UNCHANGED ledger /\ disk' \in {disk, ledger}
    BY Zenon, <1>9 DEF DeliveryRetry, BackoffElapses, ExpiryPasses, RelayAccepts, TickBegin,
       TickFetchFails, TickTakeDue, TickPost, InboundStores, Stored
  <2> QED
    BY Zenon, <2>1, NoMove
<1>10. CASE TickExpire
  <2>1. \A x \in Digests : ledger'[x] \in {ledger[x], Expire(ledger[x])}
    BY Zenon, <1>10 DEF TickExpire, SetLedger
  <2>2. disk' \in {disk, ledger'}
    BY Zenon, <1>10 DEF TickExpire, SetLedger, Persist, Stored, NotStored
  <2>3. \A x \in Digests : ledger[x] \in Sound /\ Valid(ledger[x])
    BY <1>1 DEF LedgerInv, ValidInv
  <2>4. \A x \in Digests : Mild(ledger[x], ledger'[x])
    BY Zenon, <2>1, <2>3, MildMethods
  <2> QED
    BY Zenon, <2>2, <2>4 DEF RecordMoves, Moved
<1>11. ASSUME NEW q \in tick.due, TickRejectExpired(q) PROVE Goal
  <2>1. q.digest \in Digests /\ q.expected \in {"Queued", "Retryable"}
    BY SMTT(30), <1>1 DEF OtherTypes, Due
  <2>2. PICK s : s = MarkFailedIfCurrent(ledger[q.digest], q.expected)
    OBVIOUS
  <2>3. ledger' = OneRecord(q.digest, s) /\ Persist(OneRecord(q.digest, s))
    BY ZenonT(60), <1>11, <2>2 DEF TickRejectExpired, SetLedger, OneRecord
  <2>4. ledger[q.digest] \in Sound /\ Valid(ledger[q.digest])
    BY <1>1, <2>1 DEF LedgerInv, ValidInv
  <2>5. Moved(q.digest, s)
    BY Zenon, <2>1, <2>2, <2>4, MildMethods DEF Moved
  <2> QED
    BY ZenonT(60), <1>2, <2>1, <2>3, <2>5
<1>12. CASE InboundReloads
  BY Zenon, <1>3, <1>12 DEF InboundReloads, NotStored
<1>13. CASE Crash
  BY Zenon, <1>13 DEF Crash, EmptyLedger, RecordMoves
<1>14. CASE Restart
  <2>1. UNCHANGED disk /\ (ledger' = disk \/ UNCHANGED ledger)
    BY Zenon, <1>14 DEF Restart
  <2> QED
    BY Zenon, <1>3, <2>1, NoMove
<1>15. ASSUME NEW w \in Workers, CallEnds(w) PROVE Goal
  BY SMTT(30), <1>15, CallEndMoves
<1> QED
  BY ZenonT(60), <1>5, <1>6, <1>7, <1>8, <1>9, <1>10, <1>11, <1>12, <1>13, <1>14, <1>15
  DEF Next, TickSteps

\* The facts about finite sets are taken here, where they are first needed.
INSTANCE FiniteSetTheorems

\* A cancellation happens with at most one slot in use.
LEMMA CancelAlone ==
    ASSUME IInv, ValidInv, MaxSlots <= 2, SlotFree, NEW d \in Digests,
           NEW w \in Requests, call[w] # None, NEW v \in Workers, HasWork(v, d)
    PROVE  v = w
<1> SUFFICES ASSUME v # w PROVE FALSE
  BY SMTT(30)
<1> DEFINE S == {u \in Requests : call[u] # None}
<1>1. IsFiniteSet(S) /\ Cardinality(S) \in Nat
  BY SMTT(30), OutboxAssumption, FS_Subset, FS_CardinalityType
<1>2. SlotsUsed < 2
  BY SMTT(30), <1>1, OutboxAssumption DEF SlotFree, SlotsUsed
<1>3. CASE v = Maint
  <2>1. tick.stage # "idle" \/ call[Maint] # None
    BY Zenon, <1>3 DEF HasWork, ValidInv
  <2>2. Cardinality(S) >= 1
    <3>1. {w} \subseteq S
      OBVIOUS
    <3>2. Cardinality({w}) = 1
      BY SMTT(30), FS_Singleton
    <3>3. Cardinality({w}) <= Cardinality(S)
      BY SMTT(30), <1>1, <3>1, FS_Subset
    <3> HIDE DEF S
    <3> QED
      BY <1>1, <3>2, <3>3
  <2> QED
    BY <1>1, <1>2, <2>1, <2>2 DEF SlotsUsed
<1>4. CASE v # Maint
  <2>1. v \in Requests /\ call[v] # None
    BY <1>4 DEF Workers, HasWork
  <2>2. {v, w} \subseteq S
    BY <2>1
  <2>3. Cardinality({v, w}) = 2
    <3>1. {v, w} = {w} \cup {v} /\ v \notin {w}
      OBVIOUS
    <3>2. IsFiniteSet({w}) /\ Cardinality({w}) = 1
      BY Zenon, FS_Singleton
    <3>3. Cardinality({w} \cup {v}) = Cardinality({w}) + 1
      BY Zenon, <3>1, <3>2, FS_AddElement
    <3> QED
      BY <3>1, <3>2, <3>3
  <2>4. Cardinality(S) >= 2
    BY SMTT(30), <1>1, <2>2, <2>3, FS_Subset
  <2> HIDE DEF S
  <2>5. SlotsUsed >= Cardinality(S)
    BY <1>1 DEF SlotsUsed, S
  <2> QED
    BY SMTT(30), <1>1, <1>2, <2>4, <2>5, OutboxAssumption DEF SlotsUsed, S
<1> QED
  BY <1>3, <1>4

\* The tick keeps a list only while it runs.
LEMMA TickListed ==
    ASSUME IInv, ValidInv, Next
    PROVE  (tick.due # {} => tick.stage # "idle")'
<1>1. OtherTypes
  BY TypesApart
<1>2. tick.due # {} => tick.stage # "idle"
  BY SMTT(30) DEF ValidInv
<1>3. ASSUME tick' \in {tick, IdleTick} PROVE tick'.due # {} => tick'.stage # "idle"
  BY <1>2, <1>3 DEF IdleTick
<1>4. ASSUME NEW s \in tick.due, tick' = AfterDue(s) PROVE tick'.due # {} => tick'.stage # "idle"
  BY <1>1, <1>2, <1>4 DEF AfterDue, IdleTick, OtherTypes
<1>5. CASE TickBegin \/ TickExpire \/ TickFetchFails
  <2>1. tick'.stage \in {"fetching", "fetched"}
    BY Zenon, <1>1, <1>5 DEF TickBegin, TickExpire, TickFetchFails, IdleTick, OtherTypes
  <2> QED
    BY <2>1
<1>6. CASE TickTakeDue
  <2>1. PICK S : tick' = IF S = {} THEN IdleTick
                         ELSE [tick EXCEPT !.stage = "retrying", !.due = S]
    BY Zenon, <1>6 DEF TickTakeDue
  <2> QED
    BY <1>1, <2>1 DEF IdleTick, OtherTypes
<1>7. ASSUME NEW s \in tick.due, TickPost(s) \/ TickRejectExpired(s)
      PROVE  tick'.due # {} => tick'.stage # "idle"
  BY Zenon, <1>4, <1>7 DEF TickPost, TickRejectExpired
<1>8. CASE \/ \E d \in Digests :
                \/ \E w \in Requests :
                     DeliveryPost(w, d) \/ AttachmentSend(w, d) \/ DeliveryRetry(w, d)
                \/ DeviceCommit(d) \/ DeliveryCancel(d)
                \/ BackoffElapses(d) \/ ExpiryPasses(d)
           \/ \E w \in Workers : RelayAccepts(w) \/ CallEnds(w)
           \/ InboundStores \/ InboundReloads
           \/ Crash \/ Restart
  <2>1. tick' \in {tick, IdleTick}
    BY ZenonT(60), <1>8 DEF DeliveryPost, AttachmentSend, DeliveryRetry, DeviceCommit,
       DeliveryCancel, BackoffElapses, ExpiryPasses, RelayAccepts, CallEnds, CallAccepted,
       CallAcceptedLate, CallFailed, CallRejected, Apply, InboundStores, InboundReloads,
       Crash, Restart
  <2> QED
    BY SMTT(30), <1>3, <2>1
<1> QED
  BY Zenon, <1>5, <1>6, <1>7, <1>8 DEF Next, TickSteps

\* Every step keeps the records valid and the attachment requests alone.
LEMMA ValidStep ==
    ASSUME MaxSlots <= 2, IInv, ValidInv, Next
    PROVE  ValidInv'
<1>1. \A d \in Digests : RecordMoves(d) /\ WorkMoves(d) /\ AttachMoves(d)
  BY SMTT(30), RecordStep, WorkStep
<1>2. \A d \in Digests : Valid(ledger[d]) /\ Valid(disk[d])
  BY SMTT(30) DEF ValidInv
<1>3. Valid(NoRecord)
  BY DEF Valid, Present, NoRecord
<1>4. \A d \in Digests : Valid(ledger'[d]) /\ Valid(disk'[d])
  BY Zenon, <1>1, <1>2, <1>3 DEF RecordMoves, Moved, Mild
<1>5. ASSUME NEW w \in Workers, NEW d \in Digests, Attach(w, d)'
      PROVE  /\ w # Maint
             /\ ~Stripped(ledger'[d]) /\ ~Stripped(disk'[d])
             /\ disk'[d].state = "Cancelled" => ledger'[d].state = "Cancelled"
             /\ ledger'[d].state = "Cancelled" => \A v \in Workers : HasWork(v, d)' => v = w
  <2>1. CASE Attach(w, d)
    <3>1. /\ w # Maint
          /\ ~Stripped(ledger[d]) /\ ~Stripped(disk[d])
          /\ disk[d].state = "Cancelled" => ledger[d].state = "Cancelled"
          /\ ledger[d].state = "Cancelled" => \A v \in Workers : HasWork(v, d) => v = w
      BY Zenon, <2>1 DEF ValidInv, AttachmentAlone
    <3>2. w \in Requests /\ call[w] # None /\ call'[w] # None
      BY Zenon, <1>5, <2>1, <3>1 DEF Attach, Workers
    <3>3. disk'[d] \in {disk[d], ledger'[d]}
      BY Zenon, <1>1 DEF RecordMoves
    <3>4. ASSUME ledger[d].state = "Cancelled" PROVE \A v \in Workers : HasWork(v, d)' => HasWork(v, d)
      <4>1. ~Fresh(d)
        BY <3>4 DEF Fresh, Present
      <4> QED
        BY Zenon, <1>1, <3>4, <4>1 DEF WorkMoves
    <3>5. CASE Mild(ledger[d], ledger'[d])
      BY Zenon, <3>1, <3>3, <3>4, <3>5 DEF Mild
    <3>6. CASE /\ SlotFree /\ UNCHANGED <<call, tick>> /\ ledger'[d].state = "Cancelled"
      <4>1. \A v \in Workers : HasWork(v, d) => v = w
        BY <3>2, <3>6, CancelAlone
      <4>2. \A v \in Workers : HasWork(v, d)' <=> HasWork(v, d)
        BY Zenon, <3>6 DEF HasWork
      <4>3. ~Stripped(ledger'[d])
        BY Zenon, <3>6 DEF Stripped
      <4> QED
        BY ZenonT(60), <3>1, <3>3, <3>6, <4>1, <4>2, <4>3
    <3>7. CASE /\ ledger[d].state = "Cancelled"
               /\ \E v \in Workers : HasWork(v, d) /\ ~Attach(v, d)
      BY Zenon, <2>1, <3>1, <3>7
    <3>8. CASE ledger'[d] = disk[d] /\ disk'[d] = disk[d]
      BY ZenonT(60), <3>1, <3>4, <3>8
    <3> QED
      BY Zenon, <1>1, <3>2, <3>5, <3>6, <3>7, <3>8 DEF RecordMoves, Moved
  <2>2. CASE /\ w \in Requests /\ disk'[d] = ledger'[d]
             /\ ledger'[d].state = "Queued" /\ ledger'[d].wire
    BY <2>2, OutboxAssumption DEF Stripped
  <2> QED
    BY Zenon, <1>1, <1>5, <2>1, <2>2 DEF AttachMoves
<1>6. AttachmentAlone'
  BY Zenon, <1>5 DEF AttachmentAlone, Stripped
<1>7. (tick.due # {} => tick.stage # "idle")'
  BY TickListed
<1>8. (\A d \in Digests : Valid(ledger[d]) /\ Valid(disk[d]))'
  BY Zenon, <1>4 DEF Valid, Present, ValidPersistedRecord, Exhausted
<1> QED
  BY SMTT(30), <1>6, <1>7, <1>8 DEF ValidInv

(* Only the counter of an exhausted record can make a stored ledger        *)
(* unreadable at the next start, for any number of envelopes and failures, *)
(* while at most two requests are served at a time, as the daemon's        *)
(* MAX_BLOCKING_REQUESTS has it.                                           *)
THEOREM OnlyExhaustion ==
    ASSUME MaxSlots <= 2
    PROVE  Spec => []OnlyExhaustionBreaksRestore
<1>1. Init => ValidInv
  <2> SUFFICES ASSUME Init PROVE ValidInv
    BY SMTT(30)
  <2>1. Valid(NoRecord)
    BY DEF Valid, Present, NoRecord
  <2>2. \A d \in Digests : Valid(ledger[d]) /\ Valid(disk[d])
    BY Zenon, <2>1 DEF Init, EmptyLedger
  <2>3. tick.due = {}
    BY DEF Init, IdleTick
  <2>4. AttachmentAlone
    BY Zenon DEF Init, AttachmentAlone, Attach
  <2> QED
    BY <2>2, <2>3, <2>4 DEF ValidInv
<1>2. IInv /\ ValidInv /\ [Next]_vars => ValidInv'
  <2> SUFFICES ASSUME IInv, ValidInv, [Next]_vars PROVE ValidInv'
    OBVIOUS
  <2>1. CASE Next
    BY SMTT(30), <2>1, ValidStep
  <2>2. CASE UNCHANGED vars
    <3>1. UNCHANGED <<ledger, disk, call, tick>>
      BY <2>2 DEF vars
    <3>2. (\A d \in Digests : Valid(ledger[d]) /\ Valid(disk[d]))'
      BY <3>1 DEF ValidInv, Valid, Present, ValidPersistedRecord, Exhausted
    <3>3. (tick.due # {} => tick.stage # "idle")'
      BY Zenon, <3>1 DEF ValidInv
    <3>4. AttachmentAlone'
      <4>1. \A w \in Workers, d \in Digests :
              (Attach(w, d)' <=> Attach(w, d)) /\ (HasWork(w, d)' <=> HasWork(w, d))
        BY Zenon, <3>1 DEF Attach, HasWork
      <4>2. \A d \in Digests : /\ Stripped(ledger[d])' <=> Stripped(ledger[d])
                               /\ Stripped(disk[d])' <=> Stripped(disk[d])
        BY Zenon, <3>1 DEF Stripped
      <4> QED
        BY Zenon, <3>1, <4>1, <4>2 DEF ValidInv, AttachmentAlone
    <3> QED
      BY SMTT(30), <3>2, <3>3, <3>4 DEF ValidInv
  <2> QED
    BY <2>1, <2>2
<1>3. ValidInv => OnlyExhaustionBreaksRestore
  BY Zenon DEF ValidInv, OnlyExhaustionBreaksRestore, Valid, Exhausted
<1> QED
  BY <1>1, <1>2, <1>3, Inductive, PTL DEF Spec
=============================================================================
