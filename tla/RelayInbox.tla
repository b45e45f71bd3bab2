----------------------------- MODULE RelayInbox -----------------------------
(***************************************************************************)
(* The inbox of the relay (apps/relay/src/main.rs): the queue in memory    *)
(* and its file relay-inbox.json.  A handler holds the inbox mutex from    *)
(* its first look at the queue to its answer, so it is one action; it      *)
(* changes the memory first and writes the file after, and a write that    *)
(* fails answers 500 without undoing the change.  The id of an item is the *)
(* hash of its envelope: an item is its envelope.  Requests refused by the *)
(* capability check, the size limits or the rate limit change nothing and  *)
(* are left out.                                                           *)
(***************************************************************************)
EXTENDS Naturals, Sequences, FiniteSets, Functions

CONSTANTS
    Envelopes,          \* envelopes senders may post
    MaxItems,           \* MAX_INBOX_ITEMS
    MaxRelayFaults      \* bound: failed writes of the file

ASSUME RelayInboxAssumption ==
    /\ MaxItems \in Nat \ {0}
    /\ MaxRelayFaults \in Nat

VARIABLES
    items,          \* the queue, oldest first
    itemsFile,      \* the queue a restart reads
    old,            \* envelopes queued for longer than TTL_SECONDS
    kept,           \* envelopes answered 202, until their TTL drops them
    unsaved,        \* those of them answered as duplicates of an item that
                    \* no write of the file has held yet
    relayFaults

relayVars == <<items, itemsFile, old, kept, unsaved, relayFaults>>

Queues == {s \in UNION {[1..n -> Envelopes] : n \in 0..MaxItems} : IsInjective(s)}

RelayTypeOK ==
    /\ items \in Queues /\ itemsFile \in Queues
    /\ old \in SUBSET Envelopes /\ kept \in SUBSET Envelopes
    /\ unsaved \in SUBSET Envelopes
    /\ relayFaults \in 0..MaxRelayFaults

RelayInit ==
    /\ items = <<>> /\ itemsFile = <<>> /\ old = {} /\ kept = {}
    /\ unsaved = {}
    /\ relayFaults = 0

\* persist: the temporary file and the rename, or an error.
WriteItems(q, ok) ==
    \/ ok /\ itemsFile' = q /\ UNCHANGED relayFaults
    \/ ~ok /\ relayFaults < MaxRelayFaults /\ relayFaults' = relayFaults + 1
       /\ UNCHANGED itemsFile

\* Vec::retain: the items of q outside ids, in their order.  A place that is
\* left comes to be the number of places left up to it.
Left(q, ids) == {i \in DOMAIN q : q[i] \notin ids}
Rank(places, i) == Cardinality({j \in places : j <= i})
Retain(q, ids) ==
    [n \in 1..Cardinality(Left(q, ids)) |->
       q[CHOOSE i \in Left(q, ids) : Rank(Left(q, ids), i) = n]]

\* The file holds the whole queue when its write succeeds.
StillUnsaved(q, ok) == IF ok THEN unsaved \ Range(q) ELSE unsaved

PostInbox(e) ==
    /\ e \notin Range(items) /\ Len(items) < MaxItems
    /\ items' = Append(items, e)
    /\ \E ok \in BOOLEAN :
         /\ WriteItems(items', ok)
         /\ kept' = IF ok THEN kept \cup {e} ELSE kept
         /\ unsaved' = StillUnsaved(items', ok)
    /\ old' = old \ {e}

\* A second post of a queued envelope is answered 202 and writes nothing,
\* also when the first one was answered 500.
PostDuplicate(e) ==
    /\ e \in Range(items)
    /\ kept' = kept \cup {e}
    /\ unsaved' = IF e \in Range(itemsFile) THEN unsaved ELSE unsaved \cup {e}
    /\ UNCHANGED <<items, itemsFile, old, relayFaults>>

\* Slip: items past their time stay queued.
GetInboxKeepsOld(ok) ==
    /\ WriteItems(items, ok)
    /\ unsaved' = StillUnsaved(items, ok)
    /\ UNCHANGED <<items, old, kept>>

\* Items past their time are dropped, then the file is written; ok says
\* whether the queue is answered.
GetInbox(ok) ==
    /\ items' = Retain(items, old)
    /\ WriteItems(items', ok)
    /\ kept' = kept \ old /\ unsaved' = StillUnsaved(items', ok) \ old
    /\ UNCHANGED <<old>>

AckInbox(ids) ==
    /\ items' = Retain(items, ids)
    /\ \E ok \in BOOLEAN :
         WriteItems(items', ok) /\ unsaved' = StillUnsaved(items', ok)
    /\ UNCHANGED <<old, kept>>

\* A restart that finds the queue it had changes nothing.
RelayRestart ==
    /\ items # itemsFile /\ items' = itemsFile
    /\ UNCHANGED <<itemsFile, old, kept, unsaved, relayFaults>>

\* TTL_SECONDS pass for an item.
TtlPasses(e) ==
    /\ e \in Range(items) \ old /\ old' = old \cup {e}
    /\ UNCHANGED <<items, itemsFile, kept, unsaved, relayFaults>>
=============================================================================
