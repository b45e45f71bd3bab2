--------------------------- MODULE DeliveryLedger ---------------------------
(***************************************************************************)
(* The delivery ledger of the daemon (apps/daemon/src/delivery.rs): one    *)
(* record per relay envelope, keyed by the digest of the envelope.  Every  *)
(* operator below is one method of DeliveryLedger, as a function from the  *)
(* record before the call to the record after it.  A method that returns   *)
(* Err, or Ok(false), returns its argument.                                *)
(*                                                                         *)
(* A record keeps what the code branches on: the state, the attempt        *)
(* counter, and whether next_retry_at, wire, destination and relay_id are  *)
(* present.  When a present next_retry_at or expires_at is reached is the  *)
(* business of the module that owns the clock (Outbox).                    *)
(***************************************************************************)
EXTENDS Naturals, FiniteSets

CONSTANTS
    MaxAttempts,    \* the 5 of schedule_retry and valid_persisted_record
    MaxRecords      \* MAX_RECORDS of restore

ASSUME MaxAttemptsAssumption == MaxAttempts \in Nat \ {0}
ASSUME MaxRecordsAssumption == MaxRecords \in Nat

DeliveryStates ==
    {"Draft", "Encrypted", "Queued", "RelayAccepted", "RecipientReceived",
     "Decrypted", "Retryable", "Failed", "Cancelled"}

\* A digest the map does not hold.
NoRecord == [state |-> "Absent", attempts |-> 0, next |-> FALSE,
             wire |-> FALSE, dest |-> FALSE, relay_id |-> FALSE]

DeliveryRecord ==
    [state : DeliveryStates \cup {"Absent"}, attempts : 0..(MaxAttempts + 1),
     next : BOOLEAN, wire : BOOLEAN, dest : BOOLEAN, relay_id : BOOLEAN]

Present(r) == r.state # "Absent"

-----------------------------------------------------------------------------
(* Registration.  All outbound callers pass a wire and a destination.      *)

RegisterEncrypted(r) ==
    IF Present(r) THEN r
    ELSE [NoRecord EXCEPT !.state = "Encrypted", !.wire = TRUE, !.dest = TRUE]

RegisterQueued(r) ==
    IF Present(r) THEN r
    ELSE [NoRecord EXCEPT !.state = "Queued", !.wire = TRUE, !.dest = TRUE]

-----------------------------------------------------------------------------
ValidTransition ==
    {<<"Encrypted", "Queued">>, <<"Queued", "RelayAccepted">>,
     <<"RelayAccepted", "RecipientReceived">>,
     <<"RecipientReceived", "Decrypted">>, <<"Retryable", "Queued">>}

Transition(r, s) ==
    IF <<r.state, s>> \in ValidTransition
    THEN [r EXCEPT !.state = s, !.next = FALSE]
    ELSE r

BindRelayId(r) == IF Present(r) THEN [r EXCEPT !.relay_id = TRUE] ELSE r

NotCancellable ==
    {"Absent", "RelayAccepted", "RecipientReceived", "Decrypted", "Failed",
     "Cancelled"}

Cancel(r) ==
    IF r.state \in NotCancellable THEN r
    ELSE [r EXCEPT !.state = "Cancelled", !.next = FALSE, !.wire = FALSE]

\* What expire_due does to a record whose expires_at is due.
Expire(r) ==
    IF r.state \in {"Absent", "Decrypted", "Cancelled"} THEN r
    ELSE [r EXCEPT !.state = "Failed", !.next = FALSE, !.wire = FALSE]

NotReschedulable ==
    {"Absent", "RecipientReceived", "Decrypted", "Failed", "Cancelled"}

\* Slip: the attempts are never exhausted.
ScheduleRetryForever(r) ==
    IF r.state \in NotReschedulable THEN r
    ELSE [r EXCEPT !.attempts = r.attempts + 1, !.state = "Retryable",
                   !.next = TRUE]

\* Slip: the attempt is not counted.
ScheduleRetryUncounted(r) ==
    IF r.state \in NotReschedulable THEN r
    ELSE [r EXCEPT !.state = "Retryable", !.next = TRUE]

\* The exhausted branch keeps the incremented counter and the wire.
ScheduleRetry(r) ==
    IF r.state \in NotReschedulable THEN r
    ELSE IF r.attempts + 1 > MaxAttempts
         THEN [r EXCEPT !.attempts = r.attempts + 1, !.state = "Failed",
                        !.next = FALSE]
         ELSE [r EXCEPT !.attempts = r.attempts + 1, !.state = "Retryable",
                        !.next = TRUE]

\* Slip: the observed state is not compared.
ScheduleRetryAnyway(r, expected) == ScheduleRetry(r)

ScheduleRetryIfCurrent(r, expected) ==
    IF r.state = expected THEN ScheduleRetry(r) ELSE r

MarkFailed(r) ==
    IF r.state \in {"Absent", "Failed"} THEN r
    ELSE [r EXCEPT !.state = "Failed", !.next = FALSE, !.wire = FALSE,
                   !.dest = FALSE]

MarkFailedIfCurrent(r, expected) ==
    IF r.state = expected THEN MarkFailed(r) ELSE r

\* Slip: an acceptance is applied to whatever is found.
CanAcceptRetryAnyway(r, expected) == Present(r)

\* A late acceptance is applied to the observed state, or to a cancellation.
CanAcceptRetry(r, expected) == Present(r) /\ r.state \in {expected, "Cancelled"}

\* Slip: the relay id is not bound.
AcceptRetryUnbound(r, expected) ==
    IF CanAcceptRetry(r, expected)
    THEN [r EXCEPT !.state = "RelayAccepted", !.next = FALSE]
    ELSE r

\* Slip: the retry time is not cleared.
AcceptRetryKeepsTime(r, expected) ==
    IF CanAcceptRetry(r, expected)
    THEN [r EXCEPT !.relay_id = TRUE, !.state = "RelayAccepted"]
    ELSE r

AcceptRetry(r, expected) ==
    IF CanAcceptRetry(r, expected)
    THEN [r EXCEPT !.relay_id = TRUE, !.state = "RelayAccepted", !.next = FALSE]
    ELSE r

\* The part of due_retries that does not depend on the clock.
Resendable(r) == r.state \in {"Retryable", "Queued"} /\ r.wire /\ r.dest

-----------------------------------------------------------------------------
(* What restore accepts: one bad record makes the whole ledger             *)
(* CorruptStore.                                                           *)

ValidPersistedRecord(r) ==
    /\ r.attempts <= MaxAttempts
    /\ CASE r.state = "Retryable" -> r.attempts > 0 /\ r.next /\ r.wire
         [] r.state = "Queued"    -> ~r.next /\ r.wire /\ r.dest
         [] OTHER                 -> ~r.next

Held(L) == {d \in DOMAIN L : Present(L[d])}

\* No registration looks at the number of records, but restore does.
Restorable(L) ==
    Cardinality(Held(L)) <= MaxRecords /\ \A d \in Held(L) : ValidPersistedRecord(L[d])
=============================================================================
