------------------------------- MODULE Outbox -------------------------------
(***************************************************************************)
(* The outbound half of the daemon: everything that changes the delivery   *)
(* ledger of envelopes this daemon sends (apps/daemon/src/http_server.rs,  *)
(* delivery_routes.rs, maintenance.rs), with the relay's answers, the      *)
(* storage failures and the restarts that come between its steps.          *)
(*                                                                         *)
(* Every step that holds the daemon's mutexes is one action.  A relay      *)
(* request runs with no mutex held, so between the step that starts it and *)
(* the step that applies its result any other step may happen.             *)
(*                                                                         *)
(* Time is kept as the two tests the code makes on it: expired holds the   *)
(* envelopes with expires_at <= now, backoff the records with              *)
(* next_retry_at > now.  A record made by a request and never stored again *)
(* is never registered twice: digests cover a fresh random envelope id.    *)
(* What a 410 answer does to the pairing is in module Pairing.             *)
(***************************************************************************)
EXTENDS DeliveryLedger

CONSTANTS
    Digests,        \* envelopes the daemon may create
    Requests,       \* bridge requests being served
    Maint,          \* the maintenance task
    None,           \* no relay call in flight
    Kinds,          \* callers in this instance: post, attachment, commit
    MaxSlots,       \* MAX_BLOCKING_REQUESTS, shared by requests and the tick
    Expiring,       \* bound: envelopes that may get past their expires_at
    MaxPerTick,     \* MAX_AUTOMATIC_RETRIES_PER_TICK
    MaxCrashes,     \* bound: restarts in a behaviour
    MaxFaults       \* bound: failed store commits in a behaviour

ASSUME OutboxAssumption ==
    /\ Maint \notin Requests /\ IsFiniteSet(Requests)
    /\ Kinds \subseteq {"post", "attachment", "commit"} /\ Expiring \subseteq Digests
    /\ MaxSlots \in Nat \ {0} /\ MaxPerTick \in Nat \ {0}
    /\ MaxCrashes \in Nat /\ MaxFaults \in Nat

Workers == Requests \cup {Maint}

VARIABLES
    ledger,     \* the DeliveryLedger in memory
    disk,       \* the record "delivery/ledger" of the encrypted store
    daemon,     \* "up", "down", or "refused" to start
    call,       \* per worker: the relay request in flight
    tick,       \* the maintenance tick: its stage, its clock, its due records
    relay,      \* envelopes the relay has accepted at some time
    backoff,    \* records whose next_retry_at lies ahead
    expired,    \* envelopes whose expires_at is past
    confirmed,  \* cancellations answered with success
    crashes, faults

vars == <<ledger, disk, daemon, call, tick, relay, backoff, expired,
          confirmed, crashes, faults>>

Call == [kind : {"post", "retry", "attachment", "tick"}, digest : Digests,
         expected : {"Queued", "Retryable"}, phase : {"sent", "accepted"}]

ASSUME NoneAssumption == None \notin Call

Due == [digest : Digests, expected : {"Queued", "Retryable"}]

IdleTick == [stage |-> "idle", now |-> {}, due |-> {}]

EmptyLedger == [d \in Digests |-> NoRecord]

TypeOK ==
    /\ ledger \in [Digests -> DeliveryRecord]
    /\ disk \in [Digests -> DeliveryRecord]
    /\ daemon \in {"up", "down", "refused"}
    /\ call \in [Workers -> Call \cup {None}]
    /\ tick \in [stage : {"idle", "fetching", "fetched", "retrying"},
                 now : SUBSET Digests, due : SUBSET Due]
    /\ relay \in SUBSET Digests
    /\ backoff \in SUBSET Digests
    /\ expired \in SUBSET Digests
    /\ confirmed \in SUBSET Digests
    /\ crashes \in 0..MaxCrashes
    /\ faults \in 0..MaxFaults

Init ==
    /\ ledger = EmptyLedger
    /\ disk = EmptyLedger
    /\ daemon = "up"
    /\ call = [w \in Workers |-> None]
    /\ tick = IdleTick
    /\ relay = {}
    /\ backoff = {}
    /\ expired = {}
    /\ confirmed = {}
    /\ crashes = 0
    /\ faults = 0

-----------------------------------------------------------------------------
(* The ledger in memory takes the value L.  A record whose counter moved   *)
(* was rescheduled, so its retry time lies ahead.                          *)
SetLedger(L) ==
    /\ ledger' = L
    /\ backoff' = {d \in Digests : /\ L[d].next
                                   /\ \/ d \in backoff
                                      \/ L[d].attempts # ledger[d].attempts}

\* ledger.persist, or a batch with the ledger in it, succeeds or fails whole.
Stored(L) == disk' = L /\ UNCHANGED faults
NotStored == faults < MaxFaults /\ faults' = faults + 1 /\ UNCHANGED disk
Persist(L) == Stored(L) \/ NotStored

Fresh(d) ==
    /\ ~Present(ledger[d]) /\ ~Present(disk[d])
    /\ d \notin relay \cup expired \cup confirmed

\* A tick holds its slot from beginning to end.
SlotsUsed ==
    Cardinality({w \in Requests : call[w] # None})
      + (IF tick.stage # "idle" \/ call[Maint] # None THEN 1 ELSE 0)

\* A request without a slot is answered daemon_busy.
SlotFree == daemon = "up" /\ SlotsUsed < MaxSlots

Idle(w) == daemon = "up" /\ call[w] = None

StartCall(w, k, d, e) ==
    call' = [call EXCEPT ![w] = [kind |-> k, digest |-> d, expected |-> e,
                                 phase |-> "sent"]]

EndCall(w) == call' = [call EXCEPT ![w] = None]

-----------------------------------------------------------------------------
(* POST /local-api/delivery/post, up to the relay request.  When the first *)
(* persist fails the record is discarded and nothing has changed.          *)
DeliveryPost(w, d) ==
    /\ "post" \in Kinds
    /\ SlotFree /\ Idle(w) /\ Fresh(d)
    /\ LET L == [ledger EXCEPT ![d] = RegisterQueued(@)]
       IN  SetLedger(L) /\ Stored(L)
    /\ StartCall(w, "post", d, "Queued")
    /\ UNCHANGED <<daemon, tick, relay, expired, confirmed, crashes>>

(* POST /local-api/attachments/send after the blob upload.  When the batch *)
(* fails the ledger is read back from the store, if the store holds a      *)
(* valid one, and the new record stays in memory otherwise.                *)
AttachmentSend(w, d) ==
    /\ "attachment" \in Kinds
    /\ SlotFree /\ Idle(w) /\ Fresh(d)
    /\ LET L == [ledger EXCEPT ![d] = Transition(RegisterEncrypted(@), "Queued")]
       IN  \/ /\ SetLedger(L) /\ Stored(L)
              /\ StartCall(w, "attachment", d, "Queued")
           \/ /\ NotStored
              /\ \/ /\ Restorable(disk)
                    /\ ledger' = disk
                    /\ backoff' \in SUBSET {x \in Digests : disk[x].next}
                 \/ ~Restorable(disk) /\ SetLedger(L)
              /\ UNCHANGED call
    /\ UNCHANGED <<daemon, tick, relay, expired, confirmed, crashes>>

(* deliver_device_change_commits for one commit: the relay request runs    *)
(* with the mutexes held, so registration and result are one step.         *)
DeviceCommit(d) ==
    /\ "commit" \in Kinds
    /\ SlotFree /\ Fresh(d)
    /\ LET r == RegisterEncrypted(ledger[d])
           sent == Transition(Transition(BindRelayId(r), "Queued"), "RelayAccepted")
       IN  \E ok \in BOOLEAN :
             LET L == [ledger EXCEPT ![d] = IF ok THEN sent ELSE ScheduleRetry(r)]
             IN  /\ SetLedger(L) /\ Persist(L)
                 /\ relay' \in IF ok THEN {relay \cup {d}}
                                     ELSE {relay, relay \cup {d}}
    /\ UNCHANGED <<daemon, call, tick, expired, confirmed, crashes>>

(* POST /local-api/delivery/retry: a snapshot of a due record is resent.   *)
DeliveryRetry(w, d) ==
    /\ SlotFree /\ Idle(w)
    /\ ledger[d].state \in {"Retryable", "Queued"}
    /\ ~(ledger[d].next /\ d \in backoff)
    /\ ledger[d].wire /\ d \notin expired
    /\ StartCall(w, "retry", d, ledger[d].state)
    /\ UNCHANGED <<ledger, disk, daemon, tick, relay, backoff, expired,
                   confirmed, crashes, faults>>

\* Slip: the cancellation is answered before it is stored.
DeliveryCancelUnstored(d) ==
    /\ SlotFree
    /\ ledger[d].state \notin NotCancellable
    /\ LET L == [ledger EXCEPT ![d] = Cancel(@)] IN SetLedger(L) /\ Persist(L)
    /\ confirmed' = confirmed \cup {d}
    /\ UNCHANGED <<daemon, call, tick, relay, expired, crashes>>

(* POST /local-api/delivery/cancel.  The ledger in memory is changed before*)
(* it is stored; the answer is a success only when it was.                 *)
DeliveryCancel(d) ==
    /\ SlotFree
    /\ ledger[d].state \notin NotCancellable
    /\ LET L == [ledger EXCEPT ![d] = Cancel(@)]
       IN  /\ SetLedger(L)
           /\ \/ Stored(L) /\ confirmed' = confirmed \cup {d}
              \/ NotStored /\ UNCHANGED confirmed
    /\ UNCHANGED <<daemon, call, tick, relay, expired, crashes>>

-----------------------------------------------------------------------------
(* The relay and the answers.  An answer may be lost after the relay has   *)
(* accepted, so a request may fail in either phase.                        *)
RelayAccepts(w) ==
    /\ call[w] # None /\ call[w].phase = "sent"
    /\ call' = [call EXCEPT ![w].phase = "accepted"]
    /\ relay' = relay \cup {call[w].digest}
    /\ UNCHANGED <<ledger, disk, daemon, tick, backoff, expired, confirmed,
                   crashes, faults>>

\* The step that ends w's call with the ledger L, stored or not.
Apply(w, L) ==
    /\ SetLedger(L) /\ Persist(L)
    /\ EndCall(w)
    /\ UNCHANGED <<daemon, tick, relay, expired, confirmed, crashes>>

(* An acceptance is applied to a record in the observed state or a         *)
(* cancelled one.  The attachment route applies it whatever it finds.      *)
CallAccepted(w) ==
    /\ call[w] # None /\ call[w].phase = "accepted"
    /\ LET c == call[w]
           r == ledger[c.digest]
       IN  \/ /\ c.kind = "attachment"
              /\ Apply(w, [ledger EXCEPT ![c.digest] =
                             Transition(BindRelayId(@), "RelayAccepted")])
           \/ /\ c.kind # "attachment" /\ CanAcceptRetry(r, c.expected)
              /\ Apply(w, [ledger EXCEPT ![c.digest] = AcceptRetry(@, c.expected)])

\* delivery_state_changed: the acceptance is dropped, nothing is stored.
CallAcceptedLate(w) ==
    /\ call[w] # None /\ call[w].phase = "accepted"
    /\ call[w].kind # "attachment"
    /\ ~CanAcceptRetry(ledger[call[w].digest], call[w].expected)
    /\ EndCall(w)
    /\ UNCHANGED <<ledger, disk, daemon, tick, relay, backoff, expired,
                   confirmed, crashes, faults>>

(* A failed request reschedules the record, if it is still in the observed *)
(* state; the attachment route does not ask.                               *)
CallFailed(w) ==
    /\ call[w] # None
    /\ LET c == call[w]
       IN  Apply(w, [ledger EXCEPT ![c.digest] =
                       IF c.kind = "attachment" THEN ScheduleRetry(@)
                       ELSE ScheduleRetryIfCurrent(@, c.expected)])

(* A 410 answer, and for the maintenance task an answer it cannot read,    *)
(* fail the record for good.                                               *)
CallRejected(w) ==
    /\ call[w] # None
    /\ call[w].kind # "attachment"
    /\ call[w].phase = "sent" \/ call[w].kind = "tick"
    /\ LET c == call[w]
       IN  Apply(w, [ledger EXCEPT ![c.digest] =
                       MarkFailedIfCurrent(@, c.expected)])

-----------------------------------------------------------------------------
(* The maintenance tick.  It reads the clock once, fetches the inbox,      *)
(* expires, then resends at most MaxPerTick due records one by one from    *)
(* the snapshots it took.                                                  *)
TickBegin ==
    /\ SlotFree /\ Idle(Maint) /\ tick.stage = "idle"
    /\ tick' = [IdleTick EXCEPT !.stage = "fetching", !.now = expired]
    /\ UNCHANGED <<ledger, disk, daemon, call, relay, backoff, expired,
                   confirmed, crashes, faults>>

\* The inbox was fetched: expire_due, stored only when it changed something.
TickExpire ==
    /\ daemon = "up" /\ tick.stage = "fetching"
    /\ tick' = [tick EXCEPT !.stage = "fetched"]
    /\ LET L == [d \in Digests |-> IF d \in tick.now THEN Expire(ledger[d])
                                                     ELSE ledger[d]]
           changed == \E d \in tick.now :
                        ledger[d].state \notin {"Absent", "Decrypted", "Cancelled"}
       IN  /\ SetLedger(L)
           /\ IF changed THEN Persist(L) ELSE UNCHANGED <<disk, faults>>
    /\ UNCHANGED <<daemon, call, relay, expired, confirmed, crashes>>

\* The fetch failed: no expiry in this tick, the due records are resent.
TickFetchFails ==
    /\ daemon = "up" /\ tick.stage = "fetching"
    /\ tick' = [tick EXCEPT !.stage = "fetched"]
    /\ UNCHANGED <<ledger, disk, daemon, call, relay, backoff, expired,
                   confirmed, crashes, faults>>

DueRetries ==
    {[digest |-> d, expected |-> ledger[d].state] :
        d \in {x \in Digests : /\ Resendable(ledger[x])
                               /\ ~(ledger[x].next /\ x \in backoff)}}

TickTakeDue ==
    /\ daemon = "up" /\ tick.stage = "fetched"
    /\ \E S \in SUBSET DueRetries :
         /\ Cardinality(S) <= MaxPerTick
         /\ S # DueRetries => Cardinality(S) = MaxPerTick
         /\ tick' = IF S = {} THEN IdleTick
                    ELSE [tick EXCEPT !.stage = "retrying", !.due = S]
    /\ UNCHANGED <<ledger, disk, daemon, call, relay, backoff, expired,
                   confirmed, crashes, faults>>

AfterDue(s) == IF tick.due = {s} THEN IdleTick
               ELSE [tick EXCEPT !.due = @ \ {s}]

TickPost(s) ==
    /\ Idle(Maint) /\ s \in tick.due /\ s.digest \notin tick.now
    /\ StartCall(Maint, "tick", s.digest, s.expected)
    /\ tick' = AfterDue(s)
    /\ UNCHANGED <<ledger, disk, daemon, relay, backoff, expired, confirmed,
                   crashes, faults>>

\* from_wire finds the snapshot expired at the tick's clock: no request.
TickRejectExpired(s) ==
    /\ Idle(Maint) /\ s \in tick.due /\ s.digest \in tick.now
    /\ LET L == [ledger EXCEPT ![s.digest] = MarkFailedIfCurrent(@, s.expected)]
       IN  SetLedger(L) /\ Persist(L)
    /\ tick' = AfterDue(s)
    /\ UNCHANGED <<daemon, call, relay, expired, confirmed, crashes>>

-----------------------------------------------------------------------------
(* Inbound work shares the ledger: its batch, like /delivery/ack, stores   *)
(* whatever the memory holds, and when the batch fails the memory is read  *)
(* back from the store.                                                    *)
InboundWork == daemon = "up" /\ (SlotFree \/ tick.stage = "fetching")

InboundStores ==
    /\ InboundWork /\ ledger # disk
    /\ Stored(ledger)
    /\ UNCHANGED <<ledger, daemon, call, tick, relay, backoff, expired,
                   confirmed, crashes>>

InboundReloads ==
    /\ InboundWork /\ NotStored /\ Restorable(disk)
    /\ ledger' = disk
    /\ backoff' \in SUBSET {d \in Digests : disk[d].next}
    /\ UNCHANGED <<daemon, call, tick, relay, expired, confirmed, crashes>>

\* Time: a retry time is reached, an envelope expires.
BackoffElapses(d) ==
    /\ d \in backoff
    /\ backoff' = backoff \ {d}
    /\ UNCHANGED <<ledger, disk, daemon, call, tick, relay, expired,
                   confirmed, crashes, faults>>

ExpiryPasses(d) ==
    /\ d \in Expiring \ expired /\ (Present(ledger[d]) \/ Present(disk[d]))
    /\ expired' = expired \cup {d}
    /\ UNCHANGED <<ledger, disk, daemon, call, tick, relay, backoff,
                   confirmed, crashes, faults>>

Crash ==
    /\ daemon = "up" /\ crashes < MaxCrashes
    /\ crashes' = crashes + 1
    /\ daemon' = "down"
    /\ ledger' = EmptyLedger /\ backoff' = {}
    /\ call' = [w \in Workers |-> None]
    /\ tick' = IdleTick
    /\ UNCHANGED <<disk, relay, expired, confirmed, faults>>

\* serve restores the ledger and refuses to start when that fails.
Restart ==
    /\ daemon = "down"
    /\ \/ /\ Restorable(disk)
          /\ daemon' = "up" /\ ledger' = disk
          /\ backoff' \in SUBSET {d \in Digests : disk[d].next}
       \/ /\ ~Restorable(disk)
          /\ daemon' = "refused" /\ UNCHANGED <<ledger, backoff>>
    /\ UNCHANGED <<disk, call, tick, relay, expired, confirmed, crashes, faults>>

-----------------------------------------------------------------------------
CallEnds(w) ==
    CallAccepted(w) \/ CallAcceptedLate(w) \/ CallFailed(w) \/ CallRejected(w)

TickSteps ==
    \/ TickBegin \/ TickExpire \/ TickFetchFails \/ TickTakeDue
    \/ \E s \in tick.due : TickPost(s) \/ TickRejectExpired(s)

Next ==
    \/ \E d \in Digests :
         \/ \E w \in Requests :
              DeliveryPost(w, d) \/ AttachmentSend(w, d) \/ DeliveryRetry(w, d)
         \/ DeviceCommit(d) \/ DeliveryCancel(d)
         \/ BackoffElapses(d) \/ ExpiryPasses(d)
    \/ \E w \in Workers : RelayAccepts(w) \/ CallEnds(w)
    \/ TickSteps
    \/ InboundStores \/ InboundReloads
    \/ Crash \/ Restart

Spec == Init /\ [][Next]_vars

(* Every relay request ends (the client has a timeout), the interval timer *)
(* keeps ticking, retry times are reached, and a dead daemon is restarted. *)
(* The tick queues for its slot in a fair semaphore, so it is not          *)
(* overtaken for ever: strong fairness.  Nothing is assumed of the relay,  *)
(* the user or the store.                                                  *)
Fairness ==
    /\ \A w \in Workers : WF_vars(CallEnds(w))
    /\ SF_vars(TickBegin) /\ WF_vars(TickSteps)
    /\ \A d \in Digests : WF_vars(BackoffElapses(d))
    /\ WF_vars(Restart)

FairSpec == Spec /\ Fairness

-----------------------------------------------------------------------------
(* "relay-accepted" is never claimed without the relay: a record in that   *)
(* state, in memory or in the store, has a relay id and its envelope was   *)
(* accepted, whichever of the concurrent callers wrote it.                 *)
AcceptedHasEvidence ==
    \A d \in Digests : \A r \in {ledger[d], disk[d]} :
        r.state = "RelayAccepted" => r.relay_id /\ d \in relay

(* A cancellation the cancel route confirmed is kept: the ciphertext is in *)
(* neither the memory nor the store again, through late answers, reloads   *)
(* and restarts.                                                           *)
CancelReleasesWire ==
    \A d \in confirmed : ~ledger[d].wire /\ ~disk[d].wire

Outstanding(d) ==
    {w \in Workers : call[w] # None /\ call[w].digest = d}
      \cup (IF \E s \in tick.due : s.digest = d THEN {Maint} ELSE {})

(* After a confirmed cancellation no retry route and no tick picks the     *)
(* envelope up: only requests that already held a snapshot may finish.     *)
NoFreshPostAfterCancel ==
    [][\A d \in confirmed : Outstanding(d)' \subseteq Outstanding(d)]_vars

(* A failure that reached the store is final: no late acceptance, retry,   *)
(* reload or restart resurrects the envelope.                              *)
StoredFailureIsFinal ==
    [][\A d \in Digests : disk[d].state = "Failed" => disk'[d].state = "Failed"]_vars

(* A stored record fails validation at restart only because schedule_retry *)
(* left the counter of an exhausted record one past the limit.  Beside the *)
(* number of records nothing else makes restore refuse a ledger.           *)
OnlyExhaustionBreaksRestore ==
    \A d \in Digests : Present(disk[d]) =>
        \/ ValidPersistedRecord(disk[d])
        \/ /\ disk[d].state = "Failed" /\ ~disk[d].next
           /\ disk[d].attempts = MaxAttempts + 1

(* The result of a relay request is applied only to a record that still    *)
(* has the state observed before the request, except that a cancelled one  *)
(* becomes relay-accepted when the relay proves it accepted the envelope.  *)
(* The attachment route alone does not compare, and its failed request may *)
(* put a record that a retry got accepted back to Retryable.               *)
LateResultKeepsState ==
    [][\A w \in Workers :
         (/\ call[w] # None /\ call[w].kind # "attachment"
          /\ call'[w] = None /\ daemon' = "up") =>
           LET d == call[w].digest
           IN  \/ ledger[d].state = call[w].expected
               \/ ledger'[d].state = ledger[d].state
               \/ ledger[d].state = "Cancelled" /\ ledger'[d].state = "RelayAccepted"]_vars

(* Every envelope waiting to be sent is settled: the ticks bring it to     *)
(* relay-accepted, failed or cancelled, however the relay answers.         *)
Settles ==
    \A d \in Digests :
        (ledger[d].state \in {"Queued", "Retryable"})
            ~> (ledger[d].state \notin {"Queued", "Retryable"})
=============================================================================
