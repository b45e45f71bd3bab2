------------------------------- MODULE Inbox -------------------------------
(***************************************************************************)
(* The inbound half of the daemon, with the relay's inbox: the maintenance *)
(* tick and the delivery/sync route fetch the queue without a mutex, then  *)
(* decrypt and commit item by item under the mutexes, then acknowledge     *)
(* what they committed, again without a mutex (apps/daemon/src/            *)
(* maintenance.rs, delivery_routes.rs, http_server.rs).                    *)
(*                                                                         *)
(* An MLS session is the set of envelopes its ratchet has consumed: it     *)
(* decrypts an envelope of its conversation once.  Every committed item is *)
(* one batch of the session's checkpoint, the message and the ledger.      *)
(* Answers of the relay may be lost, and the daemon may crash between any  *)
(* two items.  The unread counts and previews of contacts, staged in the   *)
(* same batch, are left out.                                               *)
(***************************************************************************)
EXTENDS RelayInbox

CONSTANTS
    Conversations,      \* conversations with a session
    ConversationOf,     \* per envelope: the conversation it was encrypted for
    Expiring,           \* envelopes that expire before the relay drops them
    MaxFetch,           \* items that fit in MAX_RESPONSE_BYTES of the client
    LedgerRestores,     \* whether DeliveryLedger::restore accepts the ledger
    Nobody,             \* no owner of the daemon's mutexes
    MaxCrashes,         \* bound: restarts of the daemon
    MaxFaults           \* bound: failed commits

ASSUME InboxAssumption ==
    /\ ConversationOf \in [Envelopes -> Conversations] /\ Conversations # {}
    /\ Expiring \subseteq Envelopes /\ MaxFetch \in Nat
    /\ LedgerRestores \in BOOLEAN
    /\ MaxCrashes \in Nat /\ MaxFaults \in Nat

Workers == {"tick", "sync"}

VARIABLES
    consumed, poisoned, \* per conversation: the session in memory
    checkpoint,         \* per conversation: the stored session
    decrypted,          \* envelopes the ledger in memory calls Decrypted
    ledger,             \* those of the stored ledger
    messages,           \* envelopes whose message is stored
    worker,             \* per worker: its stage and what it holds
    mutex,              \* owner of the daemon's mutexes
    expired,            \* envelopes with expires_at <= now
    crashes, faults

sessionVars == <<consumed, poisoned, decrypted>>
storeVars == <<checkpoint, ledger, messages>>
daemonVars == <<sessionVars, storeVars, worker, mutex, crashes, faults>>
vars == <<relayVars, daemonVars, expired>>

IdleWorker == [stage |-> "idle", queue |-> <<>>, now |-> {}, acks |-> {},
               conversation |-> CHOOSE c \in Conversations : TRUE]

Worker == [stage : {"idle", "fetched", "processing", "acking"}, queue : Queues,
           now : SUBSET Envelopes, acks : SUBSET Envelopes,
           conversation : Conversations]

TypeOK ==
    /\ RelayTypeOK
    /\ consumed \in [Conversations -> SUBSET Envelopes]
    /\ checkpoint \in [Conversations -> SUBSET Envelopes]
    /\ poisoned \in SUBSET Conversations
    /\ decrypted \in SUBSET Envelopes /\ ledger \in SUBSET Envelopes
    /\ messages \in SUBSET Envelopes /\ expired \in SUBSET Expiring
    /\ worker \in [Workers -> Worker] /\ mutex \in Workers \cup {Nobody}
    /\ crashes \in 0..MaxCrashes /\ faults \in 0..MaxFaults

Init ==
    /\ RelayInit
    /\ consumed = [c \in Conversations |-> {}] /\ checkpoint = consumed
    /\ poisoned = {} /\ decrypted = {} /\ ledger = {} /\ messages = {}
    /\ worker = [w \in Workers |-> IdleWorker] /\ mutex = Nobody
    /\ expired = {} /\ crashes = 0 /\ faults = 0

-----------------------------------------------------------------------------
\* The relay and time

\* A sender posts, or posts again, whether the envelope is still queued or
\* not.
SenderPosts(e) ==
    /\ e \notin expired
    /\ PostInbox(e) \/ PostDuplicate(e)
    /\ UNCHANGED <<daemonVars, expired>>

RelayRestarts == RelayRestart /\ UNCHANGED <<daemonVars, expired>>

ExpiryPasses(e) ==
    /\ e \in Expiring \ expired /\ expired' = expired \cup {e}
    /\ UNCHANGED <<relayVars, daemonVars>>

ItemAges(e) == e \in Expiring /\ TtlPasses(e) /\ UNCHANGED <<daemonVars, expired>>

-----------------------------------------------------------------------------
\* Fetching

Set(w, r) == worker' = [worker EXCEPT ![w] = r]

\* The clock is read when the work begins; the answer may be lost, may be a
\* 500, or may be too long for the client.
Fetch(w, c) ==
    /\ worker[w].stage = "idle"
    /\ \E ok \in BOOLEAN :
         /\ GetInbox(ok)
         /\ \/ /\ ok /\ Len(items') <= MaxFetch
               /\ Set(w, [IdleWorker EXCEPT !.stage = "fetched", !.queue = items',
                              !.now = expired \cap Range(items'), !.conversation = c])
            \/ UNCHANGED worker
    /\ UNCHANGED <<sessionVars, storeVars, mutex, expired, crashes, faults>>

\* delivery/sync looks at every envelope before it decrypts one.
Rejected(w) == w = "sync" /\ Range(worker[w].queue) \cap worker[w].now # {}

Begin(w) ==
    /\ worker[w].stage = "fetched" /\ mutex = Nobody
    /\ IF Rejected(w)
       THEN Set(w, IdleWorker) /\ UNCHANGED mutex
       ELSE Set(w, [worker[w] EXCEPT !.stage = "processing"]) /\ mutex' = w
    /\ UNCHANGED <<relayVars, sessionVars, storeVars, expired, crashes, faults>>

-----------------------------------------------------------------------------
\* Processing one item under the mutexes

\* receive_delivery_unpersisted succeeds.
Decrypts(c, e) == ConversationOf[e] = c /\ c \notin poisoned /\ e \notin consumed[c]

\* The tick tries every conversation, the route its own.
Candidates(w) == IF w = "tick" THEN Conversations ELSE {worker[w].conversation}

Item(w) == Head(worker[w].queue)

Processing(w) == mutex = w /\ worker[w].stage = "processing" /\ worker[w].queue # <<>>

\* The next item, with e acknowledged or not; or the end without any
\* acknowledgement.
Continue(w, acks) ==
    /\ Set(w, [worker[w] EXCEPT !.queue = Tail(@), !.acks = @ \cup acks])
    /\ UNCHANGED mutex

Abort(w) == Set(w, IdleWorker) /\ mutex' = Nobody

\* Committed before: acknowledged again without MLS.
ItemKnown(w) ==
    /\ Processing(w) /\ Item(w) \notin worker[w].now /\ Item(w) \in decrypted
    /\ Continue(w, {Item(w)})
    /\ UNCHANGED <<relayVars, sessionVars, storeVars, expired, crashes, faults>>

\* from_wire refuses an expired envelope: the tick gives up its whole queue.
ItemExpired(w) ==
    /\ Processing(w) /\ Item(w) \in worker[w].now
    /\ Abort(w)
    /\ UNCHANGED <<relayVars, sessionVars, storeVars, expired, crashes, faults>>

\* Slip: the tick acknowledges what it cannot read.
ItemUnreadableAcked(w) ==
    /\ Processing(w) /\ Item(w) \notin worker[w].now \cup decrypted
    /\ \A c \in Candidates(w) : ~Decrypts(c, Item(w))
    /\ IF w = "tick" THEN Continue(w, {Item(w)}) ELSE Abort(w)
    /\ UNCHANGED <<relayVars, sessionVars, storeVars, expired, crashes, faults>>

\* No session decrypts it: the tick leaves it in the relay, the route stops.
ItemUnreadable(w) ==
    /\ Processing(w) /\ Item(w) \notin worker[w].now \cup decrypted
    /\ \A c \in Candidates(w) : ~Decrypts(c, Item(w))
    /\ IF w = "tick" THEN Continue(w, {}) ELSE Abort(w)
    /\ UNCHANGED <<relayVars, sessionVars, storeVars, expired, crashes, faults>>

Commit(c, e) ==
    /\ checkpoint' = [checkpoint EXCEPT ![c] = consumed'[c]]
    /\ ledger' = decrypted' /\ messages' = messages \cup {e}

\* Slip: a failed batch leaves the session usable.
FailCommitUnpoisoned(c, e) ==
    /\ decrypted' = IF LedgerRestores THEN ledger ELSE decrypted \cup {e}
    /\ UNCHANGED poisoned

\* Slip: a failed batch leaves the ledger in memory as it is.
FailCommitKeepsLedger(c, e) ==
    /\ poisoned' = poisoned \cup {c} /\ decrypted' = decrypted \cup {e}

\* A failed batch poisons the session and reads the ledger back, if it can.
FailCommit(c, e) ==
    /\ poisoned' = poisoned \cup {c}
    /\ decrypted' = IF LedgerRestores THEN ledger ELSE decrypted \cup {e}

ItemDecrypted(w) ==
    /\ Processing(w)
    /\ LET e == Item(w) IN
       /\ e \notin worker[w].now \cup decrypted
       /\ \E c \in Candidates(w) :
            /\ Decrypts(c, e)
            /\ consumed' = [consumed EXCEPT ![c] = @ \cup {e}]
            /\ \/ /\ decrypted' = decrypted \cup {e} /\ Commit(c, e)
                  /\ Continue(w, {e}) /\ UNCHANGED <<poisoned, faults>>
               \/ /\ faults < MaxFaults /\ faults' = faults + 1
                  /\ FailCommit(c, e)
                  /\ Abort(w) /\ UNCHANGED storeVars
    /\ UNCHANGED <<relayVars, expired, crashes>>

\* The tick ends with a commit of the ledger; when it fails, or when nothing
\* was committed, nothing is acknowledged.
Finish(w) ==
    /\ mutex = w /\ worker[w].stage = "processing" /\ worker[w].queue = <<>>
    /\ mutex' = Nobody
    /\ \/ /\ Set(w, IF worker[w].acks = {} THEN IdleWorker
                    ELSE [worker[w] EXCEPT !.stage = "acking"])
          /\ ledger' = IF w = "tick" THEN decrypted ELSE ledger
          /\ UNCHANGED faults
       \/ /\ w = "tick" /\ faults < MaxFaults /\ faults' = faults + 1
          /\ Set(w, IdleWorker) /\ UNCHANGED ledger
    /\ UNCHANGED <<relayVars, sessionVars, checkpoint, messages, expired, crashes>>

\* The acknowledgement, which may get lost.
Acknowledge(w) ==
    /\ worker[w].stage = "acking"
    /\ AckInbox(worker[w].acks) \/ UNCHANGED relayVars
    /\ Set(w, IdleWorker)
    /\ UNCHANGED <<sessionVars, storeVars, mutex, expired, crashes, faults>>

-----------------------------------------------------------------------------
\* The daemon crashes and starts again from its store.
Restart ==
    /\ crashes < MaxCrashes /\ crashes' = crashes + 1
    /\ consumed' = checkpoint /\ poisoned' = {} /\ decrypted' = ledger
    /\ worker' = [w \in Workers |-> IdleWorker] /\ mutex' = Nobody
    /\ UNCHANGED <<relayVars, storeVars, expired, faults>>

Steps(w) ==
    \/ Begin(w) \/ ItemKnown(w) \/ ItemExpired(w) \/ ItemUnreadable(w)
    \/ ItemDecrypted(w) \/ Finish(w) \/ Acknowledge(w)

Next ==
    \/ \E e \in Envelopes : SenderPosts(e) \/ ExpiryPasses(e) \/ ItemAges(e)
    \/ Fetch("tick", IdleWorker.conversation)
    \/ \E c \in Conversations : Fetch("sync", c)
    \/ \E w \in Workers : Steps(w)
    \/ RelayRestarts \/ Restart

Spec == Init /\ [][Next]_vars

\* The tick runs for ever and reaches the relay again and again, a thread
\* gets a mutex that is released again and again, and an item that stays in
\* the relay reaches its TTL.
Fairness ==
    /\ WF_vars(Fetch("tick", IdleWorker.conversation) /\ worker'["tick"].stage = "fetched")
    /\ \A w \in Workers : SF_vars(Begin(w)) /\ WF_vars(Steps(w))
    /\ \A e \in Envelopes : WF_vars(ItemAges(e))

FairSpec == Spec /\ Fairness

-----------------------------------------------------------------------------
\* What is stored moves together: an envelope is consumed by the stored
\* ratchet exactly when its message and its ledger record are stored.  A
\* ratchet that ran ahead of a failed batch is never saved by a later one
\* (process_inbox_items and process_sync_items poison the session).
StoredTogether ==
    /\ UNION {checkpoint[c] : c \in Conversations} = messages
    /\ ledger = messages

\* An envelope the relay answered 202 is in the relay's file or its message
\* is stored by the daemon, until the relay's TTL drops it: neither an
\* acknowledgement, a crash of either side, nor a fetch of a stale queue loses
\* it.  The exception is the 202 of post_inbox for a duplicate of an item that
\* no write has held: it stays an exception only until one does.
AcceptedIsHeld == kept \ unsaved \subseteq Range(itemsFile) \cup messages

\* A daemon never acknowledges what a crash would make it ask for again.
AckedIsStored == \A w \in Workers : worker[w].stage = "acking" => worker[w].acks \subseteq messages

\* An envelope that was accepted and saved, and does not expire, gets its
\* message stored, or its session is poisoned until the daemon restarts: the
\* retry of a post, the failure of a write, an unreadable or expired
\* envelope before it in the queue, a lost answer or the other worker only
\* delay it.
AcceptedIsDelivered ==
    \A e \in Envelopes \ Expiring :
        e \in kept \ unsaved ~> (e \in messages \/ ConversationOf[e] \in poisoned)
=============================================================================
