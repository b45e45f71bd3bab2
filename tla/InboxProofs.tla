----------------------------- MODULE InboxProofs -----------------------------
(***************************************************************************)
(* Proofs about the inbound half: what is stored moves together, what is   *)
(* acknowledged is stored, and what the relay accepted is never lost       *)
(* between the relay's file and the daemon's store.                        *)
(***************************************************************************)
EXTENDS Inbox, FiniteSetTheorems, TLAPS

-----------------------------------------------------------------------------
\* Retain.  The rank of a place among those left is a bijection with 1..n.

LEMMA RankOfPlace ==
    ASSUME NEW m \in Nat, NEW left \in SUBSET (1..m)
    PROVE  /\ IsFiniteSet(left) /\ Cardinality(left) \in Nat
           /\ Cardinality(left) <= m
           /\ \A i \in left : Rank(left, i) \in 1..Cardinality(left)
           /\ \A i, k \in left : i < k => Rank(left, i) # Rank(left, k)
<1> DEFINE upTo(i) == {j \in left : j <= i}
<1>1. PICK n : n = Cardinality(left)
  OBVIOUS
<1>2. IsFiniteSet(left) /\ n \in Nat /\ n <= m
  <2>1. IsFiniteSet(1..m) /\ Cardinality(1..m) = m
    BY FS_Interval
  <2>2. QED
    BY ZenonT(60), <1>1, <2>1, FS_Subset, FS_CardinalityType
<1>3. ASSUME NEW i \in left PROVE Rank(left, i) \in 1..n
  <2>1. upTo(i) \in SUBSET left /\ i \in upTo(i)
    OBVIOUS
  <2>2. IsFiniteSet(upTo(i)) /\ Cardinality(upTo(i)) <= n
    BY <1>1, <1>2, <2>1, FS_Subset
  <2>3. Cardinality(upTo(i)) \in Nat
    BY <2>2, FS_CardinalityType
  <2>4. Cardinality(upTo(i)) # 0
    BY <2>1, <2>2, FS_EmptySet
  <2>5. PICK c : c = Cardinality(upTo(i))
    OBVIOUS
  <2>6. c \in Nat /\ c <= n /\ c # 0
    BY <2>2, <2>3, <2>4, <2>5, Zenon
  <2>7. c \in 1..n
    BY <1>2, <2>6
  <2>8. QED
    BY <2>5, <2>7, Zenon DEF Rank
<1>4. ASSUME NEW i \in left, NEW k \in left, i < k
      PROVE  Rank(left, i) # Rank(left, k)
  <2>0. i \in Int /\ k \in Int /\ \A j \in left : j \in Int
    OBVIOUS
  <2>1. upTo(i) \in SUBSET upTo(k) /\ k \in upTo(k) /\ k \notin upTo(i)
    <3>1. ASSUME NEW j \in left, j <= i PROVE j <= k
      BY <1>4, <2>0, <3>1
    <3>2. k <= k /\ ~(k <= i)
      BY <1>4, <2>0
    <3>3. QED
      BY <3>1, <3>2, Zenon
  <2>2. IsFiniteSet(upTo(k))
    BY <1>2, FS_Subset
  <2>3. upTo(i) # upTo(k)
    BY <2>1, Zenon
  <2>4. QED
    BY <2>1, <2>2, <2>3, FS_Subset, Zenon DEF Rank
<1>5. QED
  BY <1>1, <1>2, <1>3, <1>4, Zenon

\* So every place of the result is the rank of exactly one place left.
LEMMA RankIsBijection ==
    ASSUME NEW m \in Nat, NEW left \in SUBSET (1..m)
    PROVE  /\ \A i, k \in left : Rank(left, i) = Rank(left, k) => i = k
           /\ \A c \in 1..Cardinality(left) : \E i \in left : Rank(left, i) = c
<1>1. PICK n : n = Cardinality(left)
  OBVIOUS
<1>2. PICK rank : rank = [i \in left |-> Rank(left, i)]
  BY Zenon
<1>3. /\ n \in Nat /\ \A i \in left : Rank(left, i) \in 1..n
      /\ \A i, k \in left : i < k => Rank(left, i) # Rank(left, k)
  BY <1>1, RankOfPlace
<1>4. \A i, k \in left : Rank(left, i) = Rank(left, k) => i = k
  <2> SUFFICES ASSUME NEW i \in left, NEW k \in left, i # k
               PROVE  Rank(left, i) # Rank(left, k)
    OBVIOUS
  <2>1. i < k \/ k < i
    OBVIOUS
  <2>2. QED
    BY <1>3, <2>1
<1>5. rank \in Injection(left, 1..n)
  BY <1>2, <1>3, <1>4 DEF Injection, IsInjective
<1>6. IsFiniteSet(1..n) /\ Cardinality(1..n) = n
  BY <1>3, FS_Interval
<1>7. rank \in Surjection(left, 1..n)
  BY <1>1, <1>5, <1>6, FS_Injection
<1>8. QED
  BY <1>1, <1>2, <1>4, <1>7 DEF Surjection

\* Retain keeps the items outside ids, each at one place.
LEMMA RetainKeeps ==
    ASSUME NEW X, NEW q \in Seq(X), NEW ids
    PROVE  /\ Retain(q, ids) \in Seq(X) /\ Len(Retain(q, ids)) <= Len(q)
           /\ Range(Retain(q, ids)) = Range(q) \ ids
           /\ IsInjective(q) => IsInjective(Retain(q, ids))
<1>1. PICK left : left = Left(q, ids)
  OBVIOUS
<1>2. PICK n : n = Cardinality(left)
  OBVIOUS
<1>3. /\ left \in SUBSET (1..Len(q)) /\ Len(q) \in Nat /\ DOMAIN q = 1..Len(q)
      /\ \A i \in DOMAIN q : i \in left <=> q[i] \notin ids
  BY <1>1 DEF Left
<1>4. n \in Nat /\ n <= Len(q) /\ \A i \in left : Rank(left, i) \in 1..n
  BY <1>2, <1>3, RankOfPlace
<1>5. /\ \A i, k \in left : Rank(left, i) = Rank(left, k) => i = k
      /\ \A c \in 1..n : \E i \in left : Rank(left, i) = c
  BY <1>2, <1>3, RankIsBijection, Zenon
<1>6. PICK at : at = [c \in 1..n |-> CHOOSE i \in left : Rank(left, i) = c]
  BY Zenon
<1>7. \A c \in 1..n : at[c] \in left /\ Rank(left, at[c]) = c
  BY <1>5, <1>6
<1>8. PICK r : r = Retain(q, ids)
  OBVIOUS
<1>9. r = [c \in 1..n |-> q[at[c]]]
  BY <1>1, <1>2, <1>6, <1>8 DEF Retain
<1>10. \A c \in 1..n : q[at[c]] \in X /\ at[c] \in DOMAIN q
  <2>1. \A i \in DOMAIN q : q[i] \in X
    OBVIOUS
  <2>2. \A i \in left : i \in DOMAIN q
    BY <1>3
  <2>3. QED
    BY <1>7, <2>1, <2>2, Zenon
<1>11. r \in Seq(X) /\ Len(r) = n /\ DOMAIN r = 1..n
  BY <1>4, <1>9, <1>10
<1>12. Range(r) = Range(q) \ ids
  <2>1. ASSUME NEW x \in Range(r) PROVE x \in Range(q) \ ids
    BY Zenon, <1>3, <1>7, <1>9, <1>11, <2>1 DEF Range
  <2>2. ASSUME NEW x \in Range(q) \ ids PROVE x \in Range(r)
    <3>1. PICK i \in left : q[i] = x
      BY <1>3, <2>2 DEF Range
    <3>2. Rank(left, i) \in 1..n /\ at[Rank(left, i)] = i
      BY <1>4, <1>5, <1>7, <3>1
    <3>3. QED
      BY <1>9, <1>11, <3>1, <3>2 DEF Range
  <2>3. QED
    BY <2>1, <2>2
<1>13. IsInjective(q) => IsInjective(r)
  <2> SUFFICES ASSUME IsInjective(q), NEW a \in 1..n, NEW b \in 1..n, r[a] = r[b]
               PROVE  a = b
    BY <1>11, Zenon DEF IsInjective
  <2>1. q[at[a]] = q[at[b]]
    BY <1>9
  <2>2. at[a] = at[b]
    BY <1>10, <2>1, Zenon DEF IsInjective
  <2>3. QED
    BY <1>7, <2>2, Zenon
<1>14. QED
  BY <1>4, <1>8, <1>11, <1>12, <1>13, Zenon

-----------------------------------------------------------------------------
\* Queues

LEMMA QueueIs ==
    ASSUME NEW q
    PROVE  q \in Queues <=>
             q \in Seq(Envelopes) /\ Len(q) <= MaxItems /\ IsInjective(q)
<1>1. ASSUME q \in Queues
      PROVE  q \in Seq(Envelopes) /\ Len(q) <= MaxItems /\ IsInjective(q)
  <2>1. PICK m \in 0..MaxItems : q \in [1..m -> Envelopes]
    BY <1>1 DEF Queues
  <2>2. q \in Seq(Envelopes) /\ Len(q) = m
    BY <2>1, RelayInboxAssumption
  <2>3. QED
    BY <1>1, <2>1, <2>2, RelayInboxAssumption DEF Queues
<1>2. ASSUME q \in Seq(Envelopes), Len(q) <= MaxItems, IsInjective(q)
      PROVE  q \in Queues
  <2>1. Len(q) \in 0..MaxItems /\ q \in [1..Len(q) -> Envelopes]
    BY <1>2, RelayInboxAssumption
  <2>2. QED
    BY <1>2, <2>1, Zenon DEF Queues
<1>3. QED
  BY <1>1, <1>2

LEMMA RetainQueue ==
    ASSUME NEW q \in Queues, NEW ids
    PROVE  /\ Retain(q, ids) \in Queues
           /\ Range(Retain(q, ids)) = Range(q) \ ids
<1>1. q \in Seq(Envelopes) /\ Len(q) <= MaxItems /\ IsInjective(q)
  BY QueueIs
<1>2. /\ Retain(q, ids) \in Seq(Envelopes) /\ Len(Retain(q, ids)) <= Len(q)
      /\ Range(Retain(q, ids)) = Range(q) \ ids /\ IsInjective(Retain(q, ids))
  BY <1>1, RetainKeeps
<1>3. PICK r : r = Retain(q, ids)
  OBVIOUS
<1>4. r \in Seq(Envelopes) /\ Len(r) <= Len(q) /\ IsInjective(r)
  BY <1>2, <1>3, Zenon
<1>5. Len(r) <= MaxItems
  BY <1>1, <1>4, RelayInboxAssumption
<1>6. r \in Queues
  BY <1>4, <1>5, QueueIs
<1>7. QED
  BY <1>2, <1>3, <1>6, Zenon

LEMMA AppendQueue ==
    ASSUME NEW q \in Queues, NEW e \in Envelopes, e \notin Range(q), Len(q) < MaxItems
    PROVE  Append(q, e) \in Queues /\ Range(Append(q, e)) = Range(q) \cup {e}
<1>1. q \in Seq(Envelopes) /\ IsInjective(q)
  BY QueueIs
<1>2. PICK r : r = Append(q, e)
  BY Zenon
<1>3. /\ r \in Seq(Envelopes) /\ Len(r) = Len(q) + 1 /\ DOMAIN r = 1..(Len(q) + 1)
      /\ \A i \in 1..Len(q) : r[i] = q[i]
      /\ r[Len(q) + 1] = e
  BY <1>1, <1>2
<1>4. Len(q) \in Nat /\ DOMAIN q = 1..Len(q)
  BY <1>1
<1>5. IsInjective(r)
  BY <1>1, <1>3, <1>4 DEF IsInjective, Range
<1>6. Range(r) = Range(q) \cup {e}
  BY <1>3, <1>4 DEF Range
<1>7. Len(r) <= MaxItems
  BY <1>3, <1>4, RelayInboxAssumption
<1>8. QED
  BY Zenon, <1>2, <1>3, <1>5, <1>6, <1>7, QueueIs

LEMMA TailQueue ==
    ASSUME NEW q \in Queues, q # <<>>
    PROVE  Tail(q) \in Queues /\ Head(q) \in Envelopes
<1>1. q \in Seq(Envelopes) /\ Len(q) <= MaxItems /\ IsInjective(q)
  BY QueueIs
<1>2. PICK r : r = Tail(q)
  BY Zenon
<1>3. /\ r \in Seq(Envelopes) /\ Len(r) = Len(q) - 1 /\ DOMAIN r = 1..(Len(q) - 1)
      /\ \A i \in 1..(Len(q) - 1) : r[i] = q[i + 1]
  BY <1>1, <1>2
<1>4. Len(q) \in Nat /\ DOMAIN q = 1..Len(q) /\ Head(q) \in Envelopes
  BY <1>1
<1>5. IsInjective(r)
  <2> SUFFICES ASSUME NEW a \in 1..(Len(q) - 1), NEW b \in 1..(Len(q) - 1),
                      r[a] = r[b]
               PROVE  a = b
    BY <1>3, Zenon DEF IsInjective
  <2>1. a + 1 \in DOMAIN q /\ b + 1 \in DOMAIN q /\ q[a + 1] = q[b + 1]
    BY <1>3, <1>4
  <2>2. a + 1 = b + 1
    BY <1>1, <2>1, Zenon DEF IsInjective
  <2>3. QED
    BY <1>4, <2>2
<1>6. Len(r) <= MaxItems
  BY <1>1, <1>3, <1>4, RelayInboxAssumption
<1>7. QED
  BY Zenon, <1>2, <1>3, <1>4, <1>5, <1>6, QueueIs

-----------------------------------------------------------------------------
\* The invariant, in three parts.  What was accepted and saved is in the
\* relay's memory as well as in its file, or stored by the daemon.
RelayInv ==
    /\ RelayTypeOK
    /\ kept \ unsaved \subseteq Range(items) \cup messages
    /\ AcceptedIsHeld

\* The ledger in memory is the stored one, and so is a session that is not
\* poisoned.
StoredInv ==
    /\ consumed \in [Conversations -> SUBSET Envelopes]
    /\ checkpoint \in [Conversations -> SUBSET Envelopes]
    /\ poisoned \in SUBSET Conversations /\ messages \in SUBSET Envelopes
    /\ decrypted = ledger /\ StoredTogether
    /\ \A c \in Conversations \ poisoned : consumed[c] = checkpoint[c]

\* What a worker will acknowledge is stored.
WorkerInv ==
    /\ worker \in [Workers -> Worker] /\ mutex \in Workers \cup {Nobody}
    /\ \A w \in Workers : worker[w].acks \subseteq messages

CountInv ==
    /\ expired \in SUBSET Expiring
    /\ crashes \in 0..MaxCrashes /\ faults \in 0..MaxFaults

InboxInv == RelayInv /\ StoredInv /\ WorkerInv /\ CountInv

LEMMA EmptyQueue == <<>> \in Queues /\ Range(<<>>) = {}
<1>1. <<>> \in Seq(Envelopes) /\ Len(<<>>) = 0 /\ DOMAIN <<>> = {}
  OBVIOUS
<1>2. IsInjective(<<>>) /\ Range(<<>>) = {}
  BY <1>1 DEF IsInjective, Range
<1>3. Len(<<>>) <= MaxItems
  BY RelayInboxAssumption
<1>4. QED
  BY <1>1, <1>2, <1>3, QueueIs, Zenon

LEMMA IdleWorkerType == IdleWorker \in Worker /\ IdleWorker.acks = {}
<1>1. <<>> \in Queues
  BY EmptyQueue
<1>2. (CHOOSE c \in Conversations : TRUE) \in Conversations
  BY InboxAssumption
<1>3. PICK c : c = CHOOSE d \in Conversations : TRUE
  OBVIOUS
<1>4. IdleWorker = [stage |-> "idle", queue |-> <<>>, now |-> {}, acks |-> {},
                    conversation |-> c]
  BY <1>3, Zenon DEF IdleWorker
<1>5. QED
  BY <1>1, <1>2, <1>3, <1>4 DEF Worker

LEMMA InitInbox == Init => InboxInv
<1> SUFFICES ASSUME Init PROVE InboxInv
  OBVIOUS
<1>1. <<>> \in Queues
  BY EmptyQueue
<1>2. RelayInv
  BY <1>1, RelayInboxAssumption DEF Init, RelayInit, RelayInv, RelayTypeOK, AcceptedIsHeld
<1>3. StoredInv
  <2>1. UNION {checkpoint[c] : c \in Conversations} = {}
    BY DEF Init
  <2>2. QED
    BY <2>1 DEF Init, StoredInv, StoredTogether
<1>4. WorkerInv
  BY IdleWorkerType DEF Init, WorkerInv
<1>5. CountInv
  BY InboxAssumption DEF Init, CountInv
<1>6. QED
  BY <1>2, <1>3, <1>4, <1>5 DEF InboxInv

-----------------------------------------------------------------------------
\* The relay

LEMMA WrittenItems ==
    ASSUME NEW q, NEW ok \in BOOLEAN, WriteItems(q, ok),
           relayFaults \in 0..MaxRelayFaults
    PROVE  /\ itemsFile' = IF ok THEN q ELSE itemsFile
           /\ relayFaults' \in 0..MaxRelayFaults
BY RelayInboxAssumption DEF WriteItems

LEMMA PostKeepsRelay ==
    ASSUME RelayInv, NEW e \in Envelopes, PostInbox(e), messages' = messages
    PROVE  RelayInv'
<1>1. PICK ok \in BOOLEAN :
        /\ WriteItems(items', ok)
        /\ kept' = IF ok THEN kept \cup {e} ELSE kept
        /\ unsaved' = StillUnsaved(items', ok)
  BY DEF PostInbox
<1>2. items' \in Queues /\ Range(items') = Range(items) \cup {e}
  BY AppendQueue DEF PostInbox, RelayInv, RelayTypeOK
<1>3. /\ itemsFile' = IF ok THEN items' ELSE itemsFile
      /\ relayFaults' \in 0..MaxRelayFaults
  BY <1>1, WrittenItems DEF RelayInv, RelayTypeOK
<1>4. kept' \ unsaved' \subseteq Range(items') \cup messages'
  BY <1>1, <1>2 DEF RelayInv, StillUnsaved
<1>5. kept' \ unsaved' \subseteq Range(itemsFile') \cup messages'
  BY <1>1, <1>2, <1>3 DEF RelayInv, AcceptedIsHeld, StillUnsaved
<1>6. RelayTypeOK'
  BY <1>1, <1>2, <1>3 DEF RelayInv, RelayTypeOK, PostInbox, StillUnsaved
<1>7. QED
  BY <1>4, <1>5, <1>6 DEF RelayInv, AcceptedIsHeld

\* A duplicate of what the file does not hold is an exception from then on.
LEMMA DuplicateKeepsRelay ==
    ASSUME RelayInv, NEW e \in Envelopes, PostDuplicate(e), messages' = messages
    PROVE  RelayInv'
<1>1. UNCHANGED <<items, itemsFile, old, relayFaults>>
  BY DEF PostDuplicate
<1>2. kept' \ unsaved' \subseteq Range(items') \cup messages'
  BY <1>1 DEF RelayInv, PostDuplicate
<1>3. kept' \ unsaved' \subseteq Range(itemsFile') \cup messages'
  BY <1>1 DEF RelayInv, AcceptedIsHeld, PostDuplicate
<1>4. RelayTypeOK'
  BY <1>1 DEF RelayInv, RelayTypeOK, PostDuplicate
<1>5. QED
  BY <1>2, <1>3, <1>4 DEF RelayInv, AcceptedIsHeld

\* The queue loses only what is past its time, or what is stored.
LEMMA RetainKeepsRelay ==
    ASSUME RelayInv, NEW ids, items' = Retain(items, ids), messages' = messages,
           NEW ok \in BOOLEAN, WriteItems(items', ok),
           kept' \subseteq kept, kept' \cap ids \subseteq messages, old' = old,
           unsaved' \subseteq unsaved,
           kept' \cap unsaved \subseteq unsaved' \cup IF ok THEN Range(items') ELSE {}
    PROVE  RelayInv'
<1>1. items' \in Queues /\ Range(items') = Range(items) \ ids
  BY RetainQueue DEF RelayInv, RelayTypeOK
<1>2. /\ itemsFile' = IF ok THEN items' ELSE itemsFile
      /\ relayFaults' \in 0..MaxRelayFaults
  BY WrittenItems DEF RelayInv, RelayTypeOK
<1>3. kept' \ unsaved' \subseteq Range(items') \cup messages'
  BY <1>1 DEF RelayInv
<1>4. kept' \ unsaved' \subseteq Range(itemsFile') \cup messages'
  BY <1>2, <1>3 DEF RelayInv, AcceptedIsHeld
<1>5. RelayTypeOK'
  BY <1>1, <1>2 DEF RelayInv, RelayTypeOK
<1>6. QED
  BY <1>3, <1>4, <1>5 DEF RelayInv, AcceptedIsHeld

LEMMA UnchangedRelay ==
    ASSUME RelayInv, UNCHANGED relayVars, messages \subseteq messages'
    PROVE  RelayInv'
BY DEF RelayInv, relayVars, RelayTypeOK, AcceptedIsHeld

-----------------------------------------------------------------------------
\* The workers

LEMMA SetWorker ==
    ASSUME WorkerInv, NEW w \in Workers, NEW r \in Worker, Set(w, r),
           r.acks \subseteq messages', messages \subseteq messages',
           mutex' \in Workers \cup {Nobody}
    PROVE  WorkerInv'
<1>1. worker' = [worker EXCEPT ![w] = r] /\ worker \in [Workers -> Worker]
  BY DEF Set, WorkerInv
<1>2. worker' \in [Workers -> Worker]
  BY <1>1
<1>3. ASSUME NEW u \in Workers PROVE worker'[u].acks \subseteq messages'
  <2>1. CASE u = w
    BY <1>1, <2>1
  <2>2. CASE u # w
    BY <1>1, <2>2 DEF WorkerInv
  <2>3. QED
    BY <2>1, <2>2
<1>4. QED
  BY <1>2, <1>3 DEF WorkerInv

LEMMA IdleAgain ==
    ASSUME WorkerInv, NEW w \in Workers, Set(w, IdleWorker),
           messages \subseteq messages', mutex' \in Workers \cup {Nobody}
    PROVE  WorkerInv'
<1>1. IdleWorker.acks \subseteq messages'
  BY IdleWorkerType
<1>2. QED
  BY <1>1, IdleWorkerType, SetWorker

\* A worker that goes on acknowledges only what is stored by then.
LEMMA ContinueWorker ==
    ASSUME WorkerInv, NEW w \in Workers, Processing(w), NEW acks \in SUBSET Envelopes,
           Continue(w, acks), acks \subseteq messages', messages \subseteq messages'
    PROVE  WorkerInv'
<1>1. worker[w] \in Worker /\ worker[w].queue # <<>>
  BY DEF WorkerInv, Processing
<1>2. PICK r : r = [worker[w] EXCEPT !.queue = Tail(@), !.acks = @ \cup acks]
  OBVIOUS
<1>3. Tail(worker[w].queue) \in Queues
  BY <1>1, TailQueue DEF Worker
<1>4. r \in Worker /\ r.acks = worker[w].acks \cup acks
  BY Zenon, <1>1, <1>2, <1>3 DEF Worker
<1>5. Set(w, r) /\ mutex' = mutex
  BY <1>2 DEF Continue
<1>6. r.acks \subseteq messages' /\ mutex \in Workers \cup {Nobody}
  BY <1>4 DEF WorkerInv
<1>7. QED
  BY <1>4, <1>5, <1>6, SetWorker

LEMMA UnchangedWorker ==
    ASSUME WorkerInv, UNCHANGED worker, messages \subseteq messages',
           mutex' \in Workers \cup {Nobody}
    PROVE  WorkerInv'
BY DEF WorkerInv

LEMMA ItemType ==
    ASSUME WorkerInv, NEW w \in Workers, Processing(w)
    PROVE  Item(w) \in Envelopes
<1>1. worker[w] \in Worker /\ worker[w].queue # <<>>
  BY DEF WorkerInv, Processing
<1>2. QED
  BY <1>1, TailQueue DEF Worker, Item

LEMMA UnchangedStored ==
    ASSUME StoredInv, UNCHANGED <<sessionVars, storeVars>>
    PROVE  StoredInv'
BY DEF StoredInv, sessionVars, storeVars, StoredTogether

-----------------------------------------------------------------------------
\* One item is decrypted: its batch is stored, or fails and poisons.

LEMMA CommittedItem ==
    ASSUME StoredInv, NEW c \in Conversations, NEW e \in Envelopes, Decrypts(c, e),
           consumed' = [consumed EXCEPT ![c] = @ \cup {e}],
           decrypted' = decrypted \cup {e}, Commit(c, e), UNCHANGED poisoned
    PROVE  StoredInv' /\ messages' = messages \cup {e}
<1>1. consumed[c] = checkpoint[c]
  BY DEF StoredInv, Decrypts
<1>2. consumed'[c] = checkpoint[c] \cup {e}
  BY <1>1 DEF StoredInv
<1>3. checkpoint' = [checkpoint EXCEPT ![c] = checkpoint[c] \cup {e}]
  BY Zenon, <1>2 DEF Commit
<1>4. /\ consumed' \in [Conversations -> SUBSET Envelopes]
      /\ checkpoint' \in [Conversations -> SUBSET Envelopes]
      /\ \A d \in Conversations : checkpoint'[d] =
            IF d = c THEN checkpoint[d] \cup {e} ELSE checkpoint[d]
  BY Zenon, <1>3 DEF StoredInv
<1>5. PICK U : U = UNION {checkpoint[d] : d \in Conversations}
  BY Zenon
<1>6. PICK V : V = UNION {checkpoint'[d] : d \in Conversations}
  BY Zenon
<1>7. V = U \cup {e}
  <2>1. \A x : x \in V <=> \E d \in Conversations : x \in checkpoint'[d]
    BY <1>6, Zenon
  <2>2. \A x : x \in U <=> \E d \in Conversations : x \in checkpoint[d]
    BY <1>5, Zenon
  <2>3. ASSUME NEW x PROVE x \in V <=> x \in U \/ x = e
    BY <1>4, <2>1, <2>2
  <2>4. QED
    BY <2>3
<1>8. messages' = messages \cup {e} /\ ledger' = decrypted'
  BY DEF Commit
<1>9. StoredTogether'
  <2>1. U = messages
    BY <1>5, Zenon DEF StoredInv, StoredTogether
  <2>2. V = messages'
    BY <1>7, <1>8, <2>1
  <2>3. ledger' = messages'
    BY <1>8 DEF StoredInv, StoredTogether
  <2>4. QED
    BY <1>6, <2>2, <2>3, Zenon DEF StoredTogether
<1>10. \A d \in Conversations \ poisoned' : consumed'[d] = checkpoint'[d]
  BY <1>2, <1>4 DEF StoredInv
<1>11. QED
  BY <1>4, <1>8, <1>9, <1>10 DEF StoredInv

LEMMA FailedItem ==
    ASSUME StoredInv, NEW c \in Conversations, NEW e \in Envelopes, LedgerRestores,
           consumed' = [consumed EXCEPT ![c] = @ \cup {e}],
           FailCommit(c, e), UNCHANGED storeVars
    PROVE  StoredInv'
<1>1. consumed' \in [Conversations -> SUBSET Envelopes]
  BY DEF StoredInv
<1>2. \A d \in Conversations \ poisoned' : consumed'[d] = checkpoint'[d]
  BY DEF StoredInv, FailCommit, storeVars
<1>3. decrypted' = ledger' /\ poisoned' \in SUBSET Conversations
  BY DEF StoredInv, FailCommit, storeVars
<1>4. QED
  BY <1>1, <1>2, <1>3 DEF StoredInv, StoredTogether, storeVars

LEMMA ItemDecryptedKeeps ==
    ASSUME InboxInv, LedgerRestores, NEW w \in Workers, ItemDecrypted(w)
    PROVE  InboxInv'
<1>1. PICK e : e = Item(w)
  OBVIOUS
<1>2. e \in Envelopes /\ Processing(w)
  BY <1>1, ItemType DEF InboxInv, ItemDecrypted
<1>3. PICK c \in Candidates(w) :
        /\ Decrypts(c, e)
        /\ consumed' = [consumed EXCEPT ![c] = @ \cup {e}]
        /\ \/ /\ decrypted' = decrypted \cup {e} /\ Commit(c, e)
              /\ Continue(w, {e}) /\ UNCHANGED <<poisoned, faults>>
           \/ /\ faults < MaxFaults /\ faults' = faults + 1
              /\ FailCommit(c, e)
              /\ Abort(w) /\ UNCHANGED storeVars
  BY <1>1, Zenon DEF ItemDecrypted
<1>4. c \in Conversations
  BY DEF Candidates, InboxInv, WorkerInv, Worker
<1>5. UNCHANGED <<relayVars, expired, crashes>>
  BY DEF ItemDecrypted
<1>6. CASE /\ decrypted' = decrypted \cup {e} /\ Commit(c, e)
           /\ Continue(w, {e}) /\ UNCHANGED <<poisoned, faults>>
  <2>1. StoredInv' /\ messages' = messages \cup {e}
    BY Zenon, <1>2, <1>3, <1>4, <1>6, CommittedItem DEF InboxInv
  <2>2. WorkerInv'
    BY <1>2, <1>6, <2>1, ContinueWorker DEF InboxInv
  <2>3. RelayInv'
    BY <1>5, <2>1, UnchangedRelay DEF InboxInv
  <2>4. CountInv'
    BY <1>5, <1>6 DEF InboxInv, CountInv
  <2>5. QED
    BY <2>1, <2>2, <2>3, <2>4 DEF InboxInv
<1>7. CASE /\ faults < MaxFaults /\ faults' = faults + 1
           /\ FailCommit(c, e)
           /\ Abort(w) /\ UNCHANGED storeVars
  <2>1. StoredInv' /\ messages' = messages
    BY Zenon, <1>2, <1>3, <1>4, <1>7, FailedItem DEF InboxInv, storeVars
  <2>2. WorkerInv'
    BY <1>7, <2>1, IdleAgain DEF InboxInv, Abort
  <2>3. RelayInv'
    BY <1>5, <2>1, UnchangedRelay DEF InboxInv
  <2>4. CountInv'
    BY <1>5, <1>7, InboxAssumption DEF InboxInv, CountInv
  <2>5. QED
    BY <2>1, <2>2, <2>3, <2>4 DEF InboxInv
<1>8. QED
  BY <1>3, <1>6, <1>7, Zenon

-----------------------------------------------------------------------------
\* Every step

LEMMA FetchKeeps ==
    ASSUME InboxInv, NEW w \in Workers, NEW c \in Conversations, Fetch(w, c)
    PROVE  InboxInv'
<1>1. PICK ok \in BOOLEAN :
        /\ GetInbox(ok)
        /\ \/ /\ ok /\ Len(items') <= MaxFetch
              /\ Set(w, [IdleWorker EXCEPT !.stage = "fetched", !.queue = items',
                             !.now = expired \cap Range(items'), !.conversation = c])
           \/ UNCHANGED worker
  BY DEF Fetch
<1>2. /\ UNCHANGED <<sessionVars, storeVars>> /\ messages' = messages
      /\ mutex' \in Workers \cup {Nobody} /\ CountInv'
  BY DEF Fetch, storeVars, InboxInv, WorkerInv, CountInv
<1>3. RelayInv'
  <2>1. /\ items' = Retain(items, old) /\ WriteItems(items', ok) /\ old' = old
        /\ kept' = kept \ old /\ unsaved' = StillUnsaved(items', ok) \ old
    BY <1>1 DEF GetInbox
  <2>2. /\ kept' \subseteq kept /\ kept' \cap old \subseteq messages
        /\ unsaved' \subseteq unsaved
        /\ kept' \cap unsaved \subseteq unsaved' \cup IF ok THEN Range(items') ELSE {}
    BY <2>1 DEF StillUnsaved
  <2>3. QED
    BY <1>2, <2>1, <2>2, RetainKeepsRelay DEF InboxInv
<1>4. StoredInv'
  BY <1>2, UnchangedStored DEF InboxInv
<1>5. CASE UNCHANGED worker
  BY <1>2, <1>3, <1>4, <1>5, UnchangedWorker DEF InboxInv
<1>6. CASE Set(w, [IdleWorker EXCEPT !.stage = "fetched", !.queue = items',
                       !.now = expired \cap Range(items'), !.conversation = c])
  <2>1. PICK r : r = [IdleWorker EXCEPT !.stage = "fetched", !.queue = items',
                          !.now = expired \cap Range(items'), !.conversation = c]
    OBVIOUS
  <2>2. items' \in Queues /\ expired \cap Range(items') \in SUBSET Envelopes
    BY <1>3, InboxAssumption DEF RelayInv, RelayTypeOK, InboxInv, CountInv
  <2>3. r \in Worker /\ r.acks = {}
    BY Zenon, <2>1, <2>2, IdleWorkerType DEF Worker
  <2>4. Set(w, r)
    BY <1>6, <2>1
  <2>5. WorkerInv'
    BY <1>2, <2>3, <2>4, SetWorker DEF InboxInv
  <2>6. QED
    BY <1>2, <1>3, <1>4, <2>5 DEF InboxInv
<1>7. QED
  BY <1>1, <1>5, <1>6

LEMMA StepsKeep ==
    ASSUME InboxInv, LedgerRestores, NEW w \in Workers, Steps(w)
    PROVE  InboxInv'
<1>1. CASE Begin(w)
  <2>1. /\ UNCHANGED <<relayVars, sessionVars, storeVars>> /\ messages' = messages
        /\ CountInv' /\ mutex' \in Workers \cup {Nobody}
    BY <1>1 DEF Begin, storeVars, InboxInv, CountInv, WorkerInv
  <2>2. WorkerInv'
    <3>1. CASE Set(w, IdleWorker)
      BY <2>1, <3>1, IdleAgain DEF InboxInv
    <3>2. CASE Set(w, [worker[w] EXCEPT !.stage = "processing"])
      <4>1. PICK r : r = [worker[w] EXCEPT !.stage = "processing"]
        BY Zenon
      <4>2. r \in Worker /\ r.acks \subseteq messages
        BY <4>1 DEF InboxInv, WorkerInv, Worker
      <4>3. QED
        BY Zenon, <2>1, <3>2, <4>1, <4>2, SetWorker DEF InboxInv
    <3>3. QED
      BY <1>1, <3>1, <3>2 DEF Begin
  <2>3. QED
    BY <2>1, <2>2, UnchangedRelay, UnchangedStored DEF InboxInv
<1>2. CASE ItemKnown(w)
  <2>1. /\ UNCHANGED <<relayVars, sessionVars, storeVars>> /\ messages' = messages
        /\ CountInv' /\ Processing(w) /\ Continue(w, {Item(w)})
    BY <1>2 DEF ItemKnown, storeVars, InboxInv, CountInv
  <2>2. Item(w) \in Envelopes /\ Item(w) \in messages
    BY <1>2, <2>1, ItemType DEF ItemKnown, InboxInv, StoredInv, StoredTogether
  <2>3. WorkerInv'
    BY <2>1, <2>2, ContinueWorker DEF InboxInv
  <2>4. QED
    BY <2>1, <2>3, UnchangedRelay, UnchangedStored DEF InboxInv
<1>3. CASE ItemExpired(w)
  <2>1. /\ UNCHANGED <<relayVars, sessionVars, storeVars>> /\ messages' = messages
        /\ CountInv' /\ Abort(w)
    BY <1>3 DEF ItemExpired, storeVars, InboxInv, CountInv
  <2>2. WorkerInv'
    BY <2>1, IdleAgain DEF InboxInv, Abort
  <2>3. QED
    BY SMTT(30), <2>1, <2>2, UnchangedRelay, UnchangedStored DEF InboxInv
<1>4. CASE ItemUnreadable(w)
  <2>1. /\ UNCHANGED <<relayVars, sessionVars, storeVars>> /\ messages' = messages
        /\ CountInv' /\ Processing(w) /\ (Continue(w, {}) \/ Abort(w))
    BY <1>4 DEF ItemUnreadable, storeVars, InboxInv, CountInv
  <2>2. WorkerInv'
    BY <2>1, IdleAgain, ContinueWorker DEF InboxInv, Abort
  <2>3. QED
    BY SMTT(30), <2>1, <2>2, UnchangedRelay, UnchangedStored DEF InboxInv
<1>5. CASE ItemDecrypted(w)
  BY <1>5, ItemDecryptedKeeps
<1>6. CASE Finish(w)
  <2>1. /\ UNCHANGED <<relayVars, sessionVars, checkpoint, messages>>
        /\ mutex' = Nobody /\ ledger' = ledger
    BY <1>6 DEF Finish, InboxInv, StoredInv
  <2>2. CountInv'
    BY <1>6, InboxAssumption DEF Finish, InboxInv, CountInv
  <2>3. WorkerInv'
    <3>1. CASE Set(w, IdleWorker)
      BY <2>1, <3>1, IdleAgain DEF InboxInv
    <3>2. CASE Set(w, [worker[w] EXCEPT !.stage = "acking"])
      <4>1. PICK r : r = [worker[w] EXCEPT !.stage = "acking"]
        BY Zenon
      <4>2. r \in Worker /\ r.acks \subseteq messages
        BY <4>1 DEF InboxInv, WorkerInv, Worker
      <4>3. QED
        BY Zenon, <2>1, <3>2, <4>1, <4>2, SetWorker DEF InboxInv
    <3>3. QED
      BY <1>6, <3>1, <3>2 DEF Finish
  <2>4. QED
    BY <2>1, <2>2, <2>3, UnchangedRelay, UnchangedStored DEF InboxInv, storeVars
<1>7. CASE Acknowledge(w)
  <2>1. /\ UNCHANGED <<sessionVars, storeVars>> /\ messages' = messages
        /\ CountInv' /\ Set(w, IdleWorker) /\ mutex' \in Workers \cup {Nobody}
    BY <1>7 DEF Acknowledge, storeVars, InboxInv, CountInv, WorkerInv
  <2>2. WorkerInv'
    BY <2>1, IdleAgain DEF InboxInv
  <2>3. RelayInv'
    <3>1. CASE UNCHANGED relayVars
      BY SMTT(30), <2>1, <3>1, UnchangedRelay DEF InboxInv
    <3>2. CASE AckInbox(worker[w].acks)
      <4>1. worker[w].acks \subseteq messages
        BY DEF InboxInv, WorkerInv
      <4>2. PICK ok \in BOOLEAN :
              WriteItems(items', ok) /\ unsaved' = StillUnsaved(items', ok)
        BY <3>2 DEF AckInbox
      <4>3. /\ items' = Retain(items, worker[w].acks)
            /\ old' = old /\ kept' = kept
        BY <3>2 DEF AckInbox
      <4>4. /\ unsaved' \subseteq unsaved
            /\ kept' \cap unsaved \subseteq unsaved' \cup IF ok THEN Range(items') ELSE {}
        BY <4>2 DEF StillUnsaved
      <4>5. QED
        BY <2>1, <4>1, <4>2, <4>3, <4>4, RetainKeepsRelay DEF InboxInv
    <3>3. QED
      BY <1>7, <3>1, <3>2 DEF Acknowledge
  <2>4. QED
    BY <2>1, <2>2, <2>3, UnchangedStored DEF InboxInv
<1>8. QED
  BY <1>1, <1>2, <1>3, <1>4, <1>5, <1>6, <1>7 DEF Steps

LEMMA NextInbox ==
    ASSUME LedgerRestores
    PROVE  InboxInv /\ [Next]_vars => InboxInv'
<1> SUFFICES ASSUME InboxInv, [Next]_vars PROVE InboxInv'
  OBVIOUS
<1>1. ASSUME NEW e \in Envelopes, SenderPosts(e) PROVE InboxInv'
  <2>1. UNCHANGED <<sessionVars, storeVars, worker, mutex, crashes, faults, expired>>
    BY <1>1 DEF SenderPosts, daemonVars
  <2>2. RelayInv'
    BY <1>1, <2>1, PostKeepsRelay, DuplicateKeepsRelay DEF SenderPosts, InboxInv, storeVars
  <2>3. QED
    BY <2>1, <2>2, UnchangedStored DEF InboxInv, CountInv, WorkerInv, storeVars
<1>2. ASSUME NEW e \in Envelopes, ExpiryPasses(e) PROVE InboxInv'
  <2>1. UNCHANGED <<relayVars, sessionVars, storeVars, worker, mutex, crashes, faults>>
    BY <1>2 DEF ExpiryPasses, daemonVars
  <2>2. CountInv'
    BY <1>2, <2>1 DEF ExpiryPasses, InboxInv, CountInv
  <2>3. QED
    BY <2>1, <2>2, UnchangedRelay, UnchangedStored DEF InboxInv, WorkerInv, storeVars
<1>3. ASSUME NEW e \in Envelopes, ItemAges(e) PROVE InboxInv'
  <2>1. UNCHANGED <<sessionVars, storeVars, worker, mutex, crashes, faults, expired>>
    BY <1>3 DEF ItemAges, daemonVars
  <2>2. RelayInv'
    BY <1>3, <2>1
    DEF ItemAges, TtlPasses, InboxInv, storeVars, RelayInv, RelayTypeOK, AcceptedIsHeld
  <2>3. QED
    BY <2>1, <2>2, UnchangedStored DEF InboxInv, CountInv, WorkerInv, storeVars
<1>4. ASSUME NEW w \in Workers, NEW c \in Conversations, Fetch(w, c) PROVE InboxInv'
  BY <1>4, FetchKeeps
<1>5. ASSUME NEW w \in Workers, Steps(w) PROVE InboxInv'
  BY SMTT(30), <1>5, StepsKeep
<1>6. CASE RelayRestarts
  <2>1. UNCHANGED <<sessionVars, storeVars, worker, mutex, crashes, faults, expired>>
    BY <1>6 DEF RelayRestarts, daemonVars
  <2>2. RelayInv'
    BY <1>6, <2>1
    DEF RelayRestarts, RelayRestart, InboxInv, storeVars, RelayInv, RelayTypeOK,
        AcceptedIsHeld
  <2>3. QED
    BY <2>1, <2>2, UnchangedStored DEF InboxInv, CountInv, WorkerInv, storeVars
<1>7. CASE Restart
  <2>1. UNCHANGED <<relayVars, storeVars>> /\ messages' = messages
    BY <1>7 DEF Restart, storeVars
  <2>2. RelayInv'
    BY <2>1, UnchangedRelay DEF InboxInv
  <2>3. StoredInv'
    BY <1>7, <2>1 DEF Restart, InboxInv, StoredInv, StoredTogether, storeVars
  <2>4. WorkerInv'
    BY <1>7, IdleWorkerType DEF Restart, WorkerInv
  <2>5. CountInv'
    BY SMTT(30), <1>7, InboxAssumption DEF Restart, InboxInv, CountInv
  <2>6. QED
    BY <2>2, <2>3, <2>4, <2>5 DEF InboxInv
<1>8. CASE UNCHANGED vars
  <2>1. UNCHANGED <<relayVars, sessionVars, storeVars, worker, mutex, crashes,
                    faults, expired>>
    BY <1>8 DEF vars, daemonVars
  <2>2. QED
    BY <2>1, UnchangedRelay, UnchangedStored
    DEF InboxInv, CountInv, WorkerInv, storeVars
<1>9. IdleWorker.conversation \in Conversations
  BY IdleWorkerType DEF Worker
<1>10. QED
  BY SMTT(30), <1>1, <1>2, <1>3, <1>4, <1>5, <1>6, <1>7, <1>8, <1>9 DEF Next, Workers

LEMMA InboxInvariant ==
    ASSUME LedgerRestores
    PROVE  Spec => []InboxInv
<1>1. InboxInv /\ [Next]_vars => InboxInv'
  BY NextInbox
<1>2. QED
  BY <1>1, InitInbox, PTL DEF Spec

\* Every state is one of the declared ones: queues hold each envelope once and
\* never more than MAX_INBOX_ITEMS of them, also after a retain or a restart.
THEOREM InboxTyped ==
    ASSUME LedgerRestores
    PROVE  Spec => []TypeOK
<1>1. InboxInv => TypeOK
  BY DEF InboxInv, RelayInv, StoredInv, WorkerInv, CountInv, TypeOK, StoredTogether
<1>2. Spec => []InboxInv
  BY InboxInvariant
<1>3. QED
  BY <1>1, <1>2, PTL

\* For every number of envelopes, conversations, crashes and failed batches,
\* the stored ratchets, messages and ledger move together: a session that ran
\* ahead of a failed batch is never stored by a later one.
THEOREM StoredMovesTogether ==
    ASSUME LedgerRestores
    PROVE  Spec => []StoredTogether
<1>1. InboxInv => StoredTogether
  BY DEF InboxInv, StoredInv
<1>2. Spec => []InboxInv
  BY InboxInvariant
<1>3. QED
  BY <1>1, <1>2, PTL

\* What a worker acknowledges is stored, whichever worker committed it.
THEOREM AcknowledgedStored ==
    ASSUME LedgerRestores
    PROVE  Spec => []AckedIsStored
<1>1. InboxInv => AckedIsStored
  BY DEF InboxInv, WorkerInv, AckedIsStored
<1>2. Spec => []InboxInv
  BY InboxInvariant
<1>3. QED
  BY <1>1, <1>2, PTL

\* What the relay answered 202 for is in its file or stored by the daemon,
\* however the relay's writes fail, either side restarts and the two workers
\* interleave, until its time is over.  Only an answer to a duplicate of an item
\* that post_inbox had failed to write is excepted (unsaved).
THEOREM AcceptedHeld ==
    ASSUME LedgerRestores
    PROVE  Spec => []AcceptedIsHeld
<1>1. InboxInv => AcceptedIsHeld
  BY DEF InboxInv, RelayInv
<1>2. Spec => []InboxInv
  BY InboxInvariant
<1>3. QED
  BY <1>1, <1>2, PTL
=============================================================================
