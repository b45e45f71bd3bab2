----------------------------- MODULE StoreProofs -----------------------------
(***************************************************************************)
(* Proofs about the encrypted store: what an answered Err leaves in        *)
(* memory, when an open refuses the store as rolled back, and that the     *)
(* store implements DurableRecords.                                        *)
(*                                                                         *)
(* Three invariants carry them.  MemoryInv needs nothing of the file       *)
(* system; RevisionInv needs writes that fail to leave the old file;       *)
(* DurableInv needs, besides, that putting the store file back succeeds.   *)
(***************************************************************************)
EXTENDS Store, TLAPS

Stored == IF file = NoFile THEN NoRecords ELSE file.records

Committing == {"store", "marker", "undo_store", "undo_marker"}

\* Memory: while a commit runs, what it will put back is what was answered;
\* between calls and while closed, memory and file are what was answered.
MemoryInv ==
    /\ TypeOK
    /\ mode # "open" => stage = "idle"
    /\ wanted # None <=> stage \in Committing
    /\ stage \in Committing =>
         /\ mode = "open" /\ ~locked /\ wanted = records
         /\ revision < MaxRevision
         /\ file # NoFile /\ previous.file # NoFile
         /\ partial \/ previous.records = answered
    /\ stage = "wipe_marker" => locked /\ file = NoFile
    /\ stage = "init_marker" => records = NoRecords /\ answered = NoRecords
    /\ mode = "closed" =>
         ~locked /\ ~partial /\ answered = Stored /\ records = NoRecords
    /\ ErrLeavesNoTrace

LEMMA NoRecordsType == NoRecords \in Records
BY DEF NoRecords, Records

LEMMA InitMemory == Init => MemoryInv
<1> SUFFICES ASSUME Init PROVE MemoryInv
  OBVIOUS
<1>1. file \in File /\ marker \in Marker /\ revision \in Marker
  BY NoRecordsType, StoreAssumption DEF Init, File, Marker
<1>2. previous \in [records : Records, file : File \cup {NoFile},
                    marker : Marker \cup {NoFile}]
  BY NoRecordsType DEF Init, NoPrevious
<1> faults \in 0..MaxFaults /\ crashes \in 0..MaxCrashes
  BY StoreAssumption DEF Init
<1>3. TypeOK
  BY <1>1, <1>2, NoRecordsType, Zenon DEF Init, TypeOK
<1>4. QED
  BY <1>3, StoreAssumption
  DEF Init, MemoryInv, Stored, Committing, ErrLeavesNoTrace, Ready

\* What the outcomes of a file operation leave.
LEMMA WriteLeaves ==
    ASSUME NEW now, NEW old, NEW new, NEW ok \in BOOLEAN,
           AtomicWrite(now, old, new, ok), faults \in 0..MaxFaults
    PROVE  /\ now \in {old, new} /\ faults' \in 0..MaxFaults
           /\ ok => now = new /\ faults' = faults
           /\ ~ok => \/ now = old /\ "before" \in FaultModes
                     \/ now = new /\ "after" \in FaultModes
           /\ ~ok => faults' # faults
BY StoreAssumption DEF AtomicWrite, Succeeds, FailsAs

\* Every mutation of a record set is one again.
LEMMA MutateType ==
    ASSUME NEW r \in Records, NEW k \in Keys, NEW v \in Values \cup {Nil}
    PROVE  [r EXCEPT ![k] = v] \in Records
BY DEF Records

\* A commit begins: memory holds what is wanted, the call remembers the rest.
LEMMA CommitMemory ==
    ASSUME MemoryInv, Ready, NEW r \in Records, Commit(r)
    PROVE  MemoryInv'
<1>1. previous' \in [records : Records, file : File \cup {NoFile},
                     marker : Marker \cup {NoFile}]
  BY DEF MemoryInv, TypeOK, Commit
<1>2. TypeOK'
  BY <1>1 DEF MemoryInv, TypeOK, Commit
<1>3. stage' = "store" /\ wanted' = records' /\ wanted' # None
  BY StoreAssumption DEF Commit
<1>4. previous'.file # NoFile /\ previous'.records = records
  BY DEF Commit
<1>5. partial' \/ previous'.records = answered'
  BY <1>4 DEF MemoryInv, ErrLeavesNoTrace, Commit
<1>6. mode' = "open" /\ ~locked' /\ file' # NoFile /\ revision' < MaxRevision
  BY DEF Commit, Ready
<1>7. QED
  BY <1>2, <1>3, <1>4, <1>5, <1>6
  DEF MemoryInv, Committing, ErrLeavesNoTrace, Ready

LEMMA ClosedMemory ==
    ASSUME MemoryInv, Close, file' \in File \cup {NoFile}, wanted' = None,
           marker' \in Marker \cup {NoFile}, answered' = Stored',
           wiped' \in BOOLEAN, faults' \in 0..MaxFaults,
           crashes' \in 0..MaxCrashes
    PROVE  MemoryInv'
<1>1. Stored' \in Records
  BY NoRecordsType DEF Stored, File
<1>2. previous' \in [records : Records, file : File \cup {NoFile},
                     marker : Marker \cup {NoFile}]
  BY NoRecordsType DEF Close, NoPrevious
<1>3. 0 \in Marker
  BY StoreAssumption DEF Marker
<1>4. TypeOK'
  BY Zenon, <1>1, <1>2, <1>3, NoRecordsType DEF TypeOK, Close
<1>5. QED
  BY <1>4 DEF MemoryInv, Committing, ErrLeavesNoTrace, Ready, Close

\* A commit that answers Err leaves memory as it found it.
LEMMA GivenUpMemory ==
    ASSUME MemoryInv, GiveUp, stage \in Committing,
           UNCHANGED <<revision, locked, mode, answered, partial, wiped, crashes>>,
           file' \in File \cup {NoFile}, marker' \in Marker \cup {NoFile},
           faults' \in 0..MaxFaults
    PROVE  MemoryInv'
<1>1. previous' \in [records : Records, file : File \cup {NoFile},
                     marker : Marker \cup {NoFile}]
  BY NoRecordsType DEF GiveUp, NoPrevious
<1>2. records' \in Records
  BY DEF GiveUp, MemoryInv, TypeOK
<1>3. TypeOK'
  BY <1>1, <1>2 DEF MemoryInv, TypeOK, GiveUp
<1>4. records' = previous.records /\ stage' = "idle" /\ wanted' = None
      /\ mode' = "open"
  BY DEF GiveUp, MemoryInv
<1>5. QED
  BY <1>3, <1>4 DEF MemoryInv, Committing, ErrLeavesNoTrace, Ready

LEMMA NextMemory == MemoryInv /\ [Next]_vars => MemoryInv'
<1> SUFFICES ASSUME MemoryInv, [Next]_vars PROVE MemoryInv'
  OBVIOUS
<1> USE DEF Committing, Stored
<1>1. ASSUME NEW k \in Keys, NEW v \in Values, Put(k, v) PROVE MemoryInv'
  BY <1>1, MutateType, CommitMemory DEF Put, MemoryInv, TypeOK
<1>2. ASSUME NEW k \in Keys, Delete(k) PROVE MemoryInv'
  BY <1>2, MutateType, CommitMemory DEF Delete, MemoryInv, TypeOK
<1>3. ASSUME NEW m1 \in Mutation, NEW m2 \in Mutation, ApplyBatch(m1, m2)
      PROVE  MemoryInv'
  <2>1. Mutate(records, m1) \in Records
    BY MutateType DEF Mutate, Mutation, MemoryInv, TypeOK
  <2>2. Mutate(Mutate(records, m1), m2) \in Records
    BY Zenon, <2>1, MutateType DEF Mutate, Mutation
  <2>3. CASE ~(m1.bad \/ m2.bad)
    BY <1>3, <2>2, <2>3, CommitMemory DEF ApplyBatch
  <2>4. CASE m1.bad \/ m2.bad
    <3>1. m1.bad \in BOOLEAN
      BY DEF Mutation
    <3>2. TypeOK'
      <4>1. records' \in Records /\ partial' \in BOOLEAN
        BY Zenon, <1>3, <2>1, <2>4, <3>1 DEF ApplyBatch, MemoryInv, TypeOK
      <4>2. QED
        BY <1>3, <2>4, <4>1 DEF ApplyBatch, MemoryInv, TypeOK
    <3>3. m1.bad => records' = records /\ partial' = partial
      BY <1>3, <2>4, <3>1 DEF ApplyBatch, MemoryInv, TypeOK
    <3>4. ~m1.bad => partial'
      BY Zenon, <1>3, <2>4, <3>1 DEF ApplyBatch, MemoryInv, TypeOK
    <3>5. stage' = "idle" /\ mode' = "open" /\ ~locked' /\ wanted' = None
          /\ answered' = answered
      BY <1>3, <2>4 DEF ApplyBatch, Ready, MemoryInv
    <3>6. QED
      BY <1>3, <3>1, <3>2, <3>3, <3>4, <3>5
      DEF ApplyBatch, MemoryInv, ErrLeavesNoTrace, Ready
  <2>5. QED
    BY <2>3, <2>4
<1>4. CASE WriteStore
  <2> DEFINE new == [revision |-> revision + 1, records |-> records]
  <2>1. PICK ok \in BOOLEAN :
          /\ AtomicWrite(file', file, new, ok)
          /\ IF ok THEN stage' = "marker" /\ UNCHANGED <<records, previous, wanted>>
             ELSE GiveUp
    BY <1>4, Zenon DEF WriteStore
  <2>2. new \in File /\ new # NoFile
    BY <1>4, StoreAssumption DEF WriteStore, MemoryInv, TypeOK, File, Marker
  <2> HIDE DEF new
  <2>3. file' \in {file, new} /\ faults' \in 0..MaxFaults
    BY <2>1, WriteLeaves DEF MemoryInv, TypeOK
  <2>4. CASE ok
    BY <1>4, <2>1, <2>2, <2>3, <2>4
    DEF WriteStore, MemoryInv, TypeOK, ErrLeavesNoTrace, Ready
  <2>5. CASE ~ok
    BY <1>4, <2>1, <2>2, <2>3, <2>5, GivenUpMemory
    DEF WriteStore, MemoryInv, TypeOK
  <2>6. QED
    BY <2>4, <2>5
<1>5. CASE WriteMarker
  <2>1. PICK ok \in BOOLEAN :
          /\ AtomicWrite(marker', marker, revision + 1, ok)
          /\ IF ok THEN /\ revision' = revision + 1 /\ answered' = records
                        /\ wanted' = None /\ stage' = "idle"
                        /\ previous' = NoPrevious /\ partial' = FALSE
             ELSE /\ stage' = "undo_store"
                  /\ UNCHANGED <<revision, answered, wanted, previous, partial>>
    BY <1>5, Zenon DEF WriteMarker
  <2>2. revision + 1 \in Marker
    BY <1>5, StoreAssumption DEF WriteMarker, MemoryInv, TypeOK, Marker
  <2>3. marker' \in {marker, revision + 1} /\ faults' \in 0..MaxFaults
    BY <2>1, WriteLeaves DEF MemoryInv, TypeOK
  <2>4. NoPrevious \in [records : Records, file : File \cup {NoFile},
                        marker : Marker \cup {NoFile}]
    BY NoRecordsType DEF NoPrevious
  <2>5. CASE ok
    BY Zenon, <1>5, <2>1, <2>2, <2>3, <2>4, <2>5
    DEF WriteMarker, MemoryInv, TypeOK, ErrLeavesNoTrace, Ready
  <2>6. CASE ~ok
    BY <1>5, <2>1, <2>2, <2>3, <2>6
    DEF WriteMarker, MemoryInv, TypeOK, ErrLeavesNoTrace, Ready
  <2>7. QED
    BY <2>5, <2>6
<1>6. CASE UndoStore
  <2>1. file' \in {file, previous.file} /\ faults' \in 0..MaxFaults
    BY <1>6, WriteLeaves DEF UndoStore, MemoryInv, TypeOK
  <2>2. file' # NoFile /\ file' \in File
    BY <1>6, <2>1 DEF UndoStore, MemoryInv, TypeOK
  <2>3. QED
    BY <1>6, <2>1, <2>2
    DEF UndoStore, MemoryInv, TypeOK, ErrLeavesNoTrace, Ready
<1>7. CASE UndoMarker
  <2>1. marker' \in {marker, previous.marker} /\ faults' \in 0..MaxFaults
    BY <1>7, WriteLeaves DEF UndoMarker, MemoryInv, TypeOK
  <2>2. marker' \in Marker \cup {NoFile}
    BY <2>1 DEF MemoryInv, TypeOK
  <2>3. QED
    BY <1>7, <2>1, <2>2, GivenUpMemory DEF UndoMarker, MemoryInv, TypeOK
<1>8. CASE Lock
  BY Zenon, <1>8, NoRecordsType
  DEF Lock, MemoryInv, TypeOK, ErrLeavesNoTrace, Ready
<1>9. CASE Wipe
  <2>1. faults' \in 0..MaxFaults
    BY <1>9, StoreAssumption DEF Wipe, Succeeds, FailsAs, MemoryInv, TypeOK
  <2>2. QED
    BY Zenon, <1>9, <2>1, NoRecordsType
    DEF Wipe, MemoryInv, TypeOK, ErrLeavesNoTrace, Ready
<1>10. CASE WipeMarker
  <2>1. faults' \in 0..MaxFaults
    BY SMTT(30), <1>10, StoreAssumption DEF WipeMarker, Succeeds, FailsAs, MemoryInv, TypeOK
  <2>2. QED
    BY <1>10, <2>1
    DEF WipeMarker, MemoryInv, TypeOK, ErrLeavesNoTrace, Ready
<1>11. CASE Crash
  <2>1. crashes' \in 0..MaxCrashes
    BY SMTT(30), <1>11, StoreAssumption DEF Crash, MemoryInv, TypeOK
  <2>2. QED
    BY <1>11, <2>1, ClosedMemory DEF Crash, MemoryInv, TypeOK
<1>12. CASE Stop
  BY <1>12, ClosedMemory DEF Stop, MemoryInv, TypeOK
<1>13. CASE OpenStore
  <2>1. file \in File /\ file.records \in Records /\ file.revision \in Marker
    BY <1>13 DEF OpenStore, MemoryInv, TypeOK, File, Marker
  <2>2. CASE marker # NoFile /\ file.revision < marker
    BY <1>13, <2>2 DEF OpenStore, MemoryInv, TypeOK, ErrLeavesNoTrace, Ready
  <2>3. CASE ~(marker # NoFile /\ file.revision < marker)
    <3>1. PICK ok \in BOOLEAN :
            /\ IF marker = file.revision THEN ok /\ UNCHANGED <<marker, faults>>
               ELSE AtomicWrite(marker', marker, file.revision, ok)
            /\ IF ok
               THEN mode' = "open" /\ revision' = file.revision
                    /\ records' = file.records
               ELSE UNCHANGED <<mode, revision, records>>
      BY <1>13, <2>3, Zenon DEF OpenStore
    <3>2. marker' \in {marker, file.revision} /\ faults' \in 0..MaxFaults
      BY <3>1, WriteLeaves DEF MemoryInv, TypeOK
    <3>3. CASE ok
      BY <1>13, <2>1, <3>1, <3>2, <3>3
      DEF OpenStore, MemoryInv, TypeOK, ErrLeavesNoTrace, Ready
    <3>4. CASE ~ok
      BY <1>13, <2>1, <3>1, <3>2, <3>4
      DEF OpenStore, MemoryInv, TypeOK, ErrLeavesNoTrace, Ready
    <3>5. QED
      BY <3>3, <3>4
  <2>4. QED
    BY <2>2, <2>3
<1>14. CASE Initialize
  <2> DEFINE new == [revision |-> 0, records |-> NoRecords]
  <2>1. new \in File
    BY NoRecordsType, StoreAssumption DEF File
  <2> HIDE DEF new
  <2>2. faults' \in 0..MaxFaults
    BY <1>14, StoreAssumption
    DEF Initialize, Succeeds, Fails, FailsAs, MemoryInv, TypeOK
  <2>3. file' \in {file, new}
    BY <1>14 DEF Initialize, new
  <2>4. \/ mode' = "open" /\ stage' = "init_marker" /\ UNCHANGED marker
        \/ UNCHANGED <<file, mode, stage>> /\ marker' = NoFile
    BY <1>14 DEF Initialize
  <2>5. QED
    BY <1>14, <2>1, <2>2, <2>3, <2>4
    DEF Initialize, MemoryInv, TypeOK, ErrLeavesNoTrace, Ready
<1>15. CASE InitMarker
  <2>1. faults' \in 0..MaxFaults
    BY <1>15, StoreAssumption
    DEF InitMarker, Succeeds, Fails, FailsAs, MemoryInv, TypeOK
  <2>2. CASE stage' = "idle" /\ marker' = 0
             /\ UNCHANGED <<file, revision, records, locked, mode, previous, partial>>
    <3>1. 0 \in Marker
      BY StoreAssumption DEF Marker
    <3>2. QED
      BY <1>15, <2>1, <2>2, <3>1
      DEF InitMarker, MemoryInv, TypeOK, ErrLeavesNoTrace, Ready
  <2>3. CASE file' = NoFile /\ marker' = NoFile /\ Close
    BY <1>15, <2>1, <2>3, ClosedMemory DEF InitMarker, MemoryInv, TypeOK
  <2>4. QED
    BY <1>15, <2>2, <2>3 DEF InitMarker
<1>16. CASE UNCHANGED vars
  BY <1>16 DEF vars, MemoryInv, TypeOK, ErrLeavesNoTrace, Ready
<1>17. QED
  BY <1>1, <1>2, <1>3, <1>4, <1>5, <1>6, <1>7, <1>8, <1>9, <1>10, <1>11,
     <1>12, <1>13, <1>14, <1>15, <1>16 DEF Next

\* However often file operations fail, and whether they leave the old file or
\* the new one, a call that answers Err leaves the records in memory as the
\* last answer left them (commit's previous_records, storage.rs).
THEOREM ErrUntraced == Spec => []ErrLeavesNoTrace
<1>1. MemoryInv => ErrLeavesNoTrace
  BY DEF MemoryInv
<1>2. QED
  BY <1>1, InitMemory, NextMemory, PTL DEF Spec

-----------------------------------------------------------------------------
\* Revisions.  Until a wipe begins there is a store file and a marker that is
\* not ahead of it, nor of the revision in memory, nor of the file an undo
\* would put back.
RevisionInv ==
    ~wiped =>
      /\ file # NoFile /\ marker # NoFile /\ mode # "refused"
      /\ stage # "init_marker"
      /\ marker <= file.revision
      /\ mode = "open" => marker <= revision
      /\ stage \in Committing =>
           previous.marker = marker /\ marker <= previous.file.revision
      /\ stage = "marker" => file.revision = revision + 1

LEMMA InitRevision == Init => RevisionInv
<1> SUFFICES ASSUME Init PROVE RevisionInv
  OBVIOUS
<1>1. file \in File /\ marker \in Marker
  BY NoRecordsType, StoreAssumption DEF Init, File, Marker
<1>2. file.revision = 0 /\ marker = 0
  BY DEF Init
<1>3. QED
  BY <1>1, <1>2, StoreAssumption DEF Init, RevisionInv, Committing

LEMMA NextRevision ==
    ASSUME FaultModes \subseteq {"before"}
    PROVE  MemoryInv /\ RevisionInv /\ [Next]_vars => RevisionInv'
<1> SUFFICES ASSUME MemoryInv, RevisionInv, [Next]_vars, ~wiped' PROVE RevisionInv'
  BY DEF RevisionInv
<1>0. ~wiped
  BY Zenon DEF Next, vars, Put, Delete, ApplyBatch, Commit, WriteStore, WriteMarker,
     UndoStore, UndoMarker, Lock, Wipe, WipeMarker, Crash, Stop, OpenStore,
     Initialize, InitMarker
<1> USE <1>0 DEF Committing
<1>t. /\ file \in File /\ file.revision \in Nat /\ marker \in Nat
      /\ revision \in Nat
  BY StoreAssumption DEF RevisionInv, MemoryInv, TypeOK, File, Marker
<1>1. ASSUME NEW r, Ready, Commit(r) PROVE RevisionInv'
  BY <1>1, <1>t DEF Commit, Ready, RevisionInv
<1>2. ASSUME NEW m1 \in Mutation, NEW m2 \in Mutation, ApplyBatch(m1, m2)
      PROVE  RevisionInv'
  <2>1. CASE m1.bad \/ m2.bad
    BY <1>2, <2>1 DEF ApplyBatch, Ready, RevisionInv
  <2>2. CASE ~(m1.bad \/ m2.bad)
    BY <1>1, <1>2, <2>2 DEF ApplyBatch
  <2>3. QED
    BY <2>1, <2>2
<1>3. CASE WriteStore
  <2> DEFINE new == [revision |-> revision + 1, records |-> records]
  <2>1. PICK ok \in BOOLEAN :
          /\ AtomicWrite(file', file, new, ok)
          /\ ok => stage' = "marker" /\ UNCHANGED previous
          /\ ~ok => stage' = "idle"
    BY Zenon, <1>3 DEF WriteStore, GiveUp
  <2>2. new.revision = revision + 1 /\ new \in File
    BY <1>3, StoreAssumption DEF WriteStore, MemoryInv, TypeOK, File, Marker
  <2> HIDE DEF new
  <2>3. IF ok THEN file' = new ELSE file' = file
    BY <2>1, WriteLeaves DEF MemoryInv, TypeOK
  <2>4. file' \in File /\ file' # NoFile
    BY <2>2, <2>3, <1>t, StoreAssumption
  <2>5. QED
    BY <1>3, <1>t, <2>1, <2>2, <2>3, <2>4 DEF WriteStore, RevisionInv
<1>4. CASE WriteMarker
  <2>1. PICK ok \in BOOLEAN :
          /\ AtomicWrite(marker', marker, revision + 1, ok)
          /\ ok => revision' = revision + 1 /\ stage' = "idle"
          /\ ~ok => stage' = "undo_store" /\ UNCHANGED <<revision, previous>>
    BY Zenon, <1>4 DEF WriteMarker
  <2>2. IF ok THEN marker' = revision + 1 ELSE marker' = marker
    BY <2>1, WriteLeaves DEF MemoryInv, TypeOK
  <2>3. revision + 1 # NoFile
    BY <1>4, StoreAssumption DEF WriteMarker, MemoryInv, TypeOK, Marker
  <2>4. QED
    BY <1>4, <1>t, <2>1, <2>2, <2>3 DEF WriteMarker, RevisionInv
<1>5. CASE UndoStore
  <2>1. file' \in {file, previous.file}
    BY <1>5, WriteLeaves DEF UndoStore, MemoryInv, TypeOK
  <2>2. previous.file # NoFile
    BY <1>5 DEF UndoStore, MemoryInv
  <2>3. QED
    BY <1>5, <1>t, <2>1, <2>2 DEF UndoStore, RevisionInv
<1>6. CASE UndoMarker
  <2>1. marker' \in {marker, previous.marker}
    BY <1>6, WriteLeaves DEF UndoMarker, MemoryInv, TypeOK
  <2>2. marker' = marker /\ stage' = "idle"
    BY SMTT(30), <1>6, <2>1 DEF UndoMarker, GiveUp, RevisionInv
  <2>3. QED
    BY <1>6, <1>t, <2>2 DEF UndoMarker, RevisionInv
<1>7. CASE Lock
  BY SMTT(30), <1>7, <1>t DEF Lock, Ready, RevisionInv
<1>8. CASE Crash \/ Stop
  <2>1. mode' = "closed" /\ stage' = "idle" /\ UNCHANGED <<file, marker, wiped>>
    BY Zenon, <1>8 DEF Crash, Stop, Close
  <2>2. QED
    BY SMTT(30), <1>t, <2>1 DEF RevisionInv, Committing
<1>9. CASE OpenStore
  <2>1. ~(marker # NoFile /\ file.revision < marker)
    BY <1>t DEF RevisionInv
  <2>2. PICK ok \in BOOLEAN :
          /\ IF marker = file.revision THEN ok /\ UNCHANGED <<marker, faults>>
             ELSE AtomicWrite(marker', marker, file.revision, ok)
          /\ ok => mode' = "open" /\ revision' = file.revision
          /\ ~ok => UNCHANGED <<mode, revision>>
    BY <1>9, <2>1 DEF OpenStore
  <2>3. IF ok THEN marker' = file.revision ELSE marker' = marker
    BY <2>2, WriteLeaves DEF MemoryInv, TypeOK
  <2>4. file.revision # NoFile
    BY SMTT(30), <1>t, StoreAssumption DEF File, Marker
  <2>5. QED
    BY <1>9, <1>t, <2>2, <2>3, <2>4 DEF OpenStore, MemoryInv, RevisionInv
<1>10. CASE Wipe \/ WipeMarker \/ Initialize \/ InitMarker
  BY SMTT(30), <1>10 DEF Wipe, WipeMarker, Initialize, InitMarker, MemoryInv, RevisionInv
<1>11. CASE UNCHANGED vars
  BY <1>11 DEF vars, RevisionInv
<1>12. QED
  BY Zenon, <1>1, <1>2, <1>3, <1>4, <1>5, <1>6, <1>7, <1>8, <1>9, <1>10, <1>11
  DEF Next, Put, Delete

\* When a file operation that fails leaves the old file, no sequence of
\* commits, failed commits, undos that fail in their turn, stops and crashes
\* makes open_with_key refuse the store as rolled back; only a wipe does.
THEOREM RefusedAfterWipe ==
    ASSUME FaultModes \subseteq {"before"}
    PROVE  Spec => []RefusedOnlyAfterWipe
<1>1. RevisionInv => RefusedOnlyAfterWipe
  BY DEF RevisionInv, RefusedOnlyAfterWipe
<1>2. MemoryInv /\ RevisionInv /\ [Next]_vars => RevisionInv'
  BY NextRevision
<1>3. QED
  BY <1>1, <1>2, InitMemory, NextMemory, InitRevision, PTL DEF Spec

-----------------------------------------------------------------------------
\* The refinement.  The store file holds what was answered except between the
\* write of a new one and its undo, when it holds what the call wants and the
\* file to put back holds what was answered.
DurableInv ==
    IF stage \in {"marker", "undo_store"}
    THEN file.records = wanted /\ previous.file.records = answered
    ELSE /\ Stored = answered
         /\ stage = "store" => previous.file.records = answered

\* Putting the store file back succeeds.
UndoSucceeds == stage = "undo_store" => UNCHANGED faults

LEMMA InitDurable == Init => DurableInv
<1> SUFFICES ASSUME Init PROVE DurableInv
  OBVIOUS
<1>1. file \in File
  BY NoRecordsType, StoreAssumption DEF Init, File
<1>2. file.records = NoRecords /\ file # NoFile
  BY SMTT(30), <1>1, StoreAssumption DEF Init
<1>3. QED
  BY <1>2 DEF Init, DurableInv, Stored

\* Every step keeps the invariant and is a step of DurableRecords or changes
\* nothing of it.
LEMMA StepRefines ==
    ASSUME FaultModes \subseteq {"before"}
    PROVE  MemoryInv /\ DurableInv /\ [Next]_vars /\ [UndoSucceeds]_vars
             => DurableInv' /\ [Durable!AbsNext]_(Durable!absVars)
<1> SUFFICES ASSUME MemoryInv, DurableInv, [Next]_vars, [UndoSucceeds]_vars
             PROVE  DurableInv' /\ [Durable!AbsNext]_(Durable!absVars)
  OBVIOUS
<1> DEFINE Goal == /\ DurableInv'
                   /\ UNCHANGED <<Stored, answered, wanted>> \/ Durable!AbsNext
<1>g. SUFFICES Goal
  BY DEF Durable!absVars, Stored
<1>1. ASSUME NEW r \in Records, Ready, Commit(r) PROVE Goal
  <2>1. DurableInv' /\ UNCHANGED <<Stored, answered>>
    BY <1>1 DEF Commit, Ready, DurableInv, Stored
  <2>2. Durable!Begin(r)
    BY <1>1, <2>1 DEF Commit, Ready, MemoryInv, Committing, Durable!Begin, Stored
  <2>3. QED
    BY <2>1, <2>2 DEF Durable!AbsNext
<1>2. ASSUME NEW m1 \in Mutation, NEW m2 \in Mutation, ApplyBatch(m1, m2)
      PROVE  Goal
  <2>1. CASE m1.bad \/ m2.bad
    BY <1>2, <2>1 DEF ApplyBatch, Ready, DurableInv, Stored
  <2>2. CASE ~(m1.bad \/ m2.bad)
    <3>1. Mutate(records, m1) \in Records
      BY MutateType DEF Mutate, Mutation, MemoryInv, TypeOK
    <3>2. Mutate(Mutate(records, m1), m2) \in Records
      BY Zenon, <3>1, MutateType DEF Mutate, Mutation
    <3>3. QED
      BY <1>1, <1>2, <2>2, <3>2 DEF ApplyBatch
  <2>3. QED
    BY <2>1, <2>2
<1>3. CASE WriteStore
  <2> DEFINE new == [revision |-> revision + 1, records |-> records]
  <2>1. PICK ok \in BOOLEAN :
          /\ AtomicWrite(file', file, new, ok)
          /\ ok => stage' = "marker" /\ UNCHANGED <<previous, wanted>>
          /\ ~ok => stage' = "idle" /\ wanted' = None
    BY Zenon, <1>3 DEF WriteStore, GiveUp
  <2>2. new.records = records /\ new \in File
    BY <1>3, StoreAssumption
    DEF WriteStore, MemoryInv, TypeOK, File, Marker, Committing
  <2> HIDE DEF new
  <2>3. IF ok THEN file' = new ELSE file' = file
    BY <2>1, WriteLeaves DEF MemoryInv, TypeOK
  <2>4. wanted = records /\ wanted # None /\ file # NoFile /\ answered' = answered
    BY <1>3 DEF WriteStore, MemoryInv, Committing
  <2>5. CASE ok
    <3>1. Stored' = wanted /\ DurableInv'
      BY <1>3, <2>1, <2>2, <2>3, <2>4, <2>5, StoreAssumption
      DEF WriteStore, DurableInv, Stored
    <3>2. Durable!Settle
      BY <2>1, <2>4, <2>5, <3>1 DEF Durable!Settle, Stored
    <3>3. QED
      BY SMTT(30), <3>1, <3>2 DEF Durable!AbsNext
  <2>6. CASE ~ok
    <3>1. Stored' = Stored /\ Stored = answered
      <4>1. file' = file /\ stage = "store"
        BY Zenon, <1>3, <2>3, <2>6 DEF WriteStore
      <4>2. stage \notin {"marker", "undo_store"}
        BY Zenon, <4>1
      <4> QED
        BY Zenon, <4>1, <4>2 DEF DurableInv, Stored
    <3>2. DurableInv'
      BY <2>1, <2>4, <2>6, <3>1 DEF DurableInv
    <3>3. Durable!AnswerErr
      BY <2>1, <2>4, <2>6, <3>1 DEF Durable!AnswerErr, Stored
    <3>4. QED
      BY SMTT(30), <3>2, <3>3 DEF Durable!AbsNext
  <2>7. QED
    BY <2>5, <2>6
<1>4. CASE WriteMarker
  <2>1. CASE stage' = "idle" /\ answered' = records /\ wanted' = None
    <3>1. wanted = records /\ wanted # None /\ file # NoFile /\ file' = file
      BY <1>4 DEF WriteMarker, MemoryInv, Committing
    <3>2. Stored = wanted /\ Stored' = Stored
      BY <1>4, <3>1 DEF WriteMarker, DurableInv, Stored
    <3>3. DurableInv'
      BY <2>1, <3>1, <3>2 DEF DurableInv
    <3>4. Durable!AnswerOk
      BY <2>1, <3>1, <3>2 DEF Durable!AnswerOk, Stored
    <3>5. QED
      BY <3>3, <3>4 DEF Durable!AbsNext
  <2>2. CASE stage' = "undo_store" /\ UNCHANGED <<answered, wanted, previous>>
    BY <1>4, <2>2 DEF WriteMarker, DurableInv, Stored
  <2>3. QED
    BY Zenon, <1>4, <2>1, <2>2 DEF WriteMarker
<1>5. CASE UndoStore
  <2>1. UNCHANGED faults
    BY <1>5 DEF UndoStore, UndoSucceeds, vars
  <2>2. file' = previous.file
    BY <1>5, <2>1, WriteLeaves DEF UndoStore, MemoryInv, TypeOK
  <2>3. previous.file # NoFile /\ wanted # None
    BY <1>5 DEF UndoStore, MemoryInv, Committing
  <2>4. Stored' = answered /\ UNCHANGED <<answered, wanted>>
    BY SMTT(30), <1>5, <2>2, <2>3 DEF UndoStore, DurableInv, Stored
  <2>5. DurableInv'
    BY <1>5, <2>4 DEF UndoStore, DurableInv
  <2>6. Durable!Settle
    BY <2>3, <2>4 DEF Durable!Settle, Stored
  <2>7. QED
    BY <2>5, <2>6 DEF Durable!AbsNext
<1>6. CASE UndoMarker
  <2>1. wanted # None /\ wanted' = None /\ stage' = "idle"
    BY SMTT(30), <1>6 DEF UndoMarker, GiveUp, MemoryInv, Committing
  <2>2. Stored = answered /\ UNCHANGED <<Stored, answered>>
    BY <1>6 DEF UndoMarker, DurableInv, Stored
  <2>3. DurableInv'
    BY <2>1, <2>2 DEF DurableInv
  <2>4. Durable!AnswerErr
    BY <2>1, <2>2 DEF Durable!AnswerErr, Stored
  <2>5. QED
    BY <2>3, <2>4 DEF Durable!AbsNext
<1>7. CASE Lock
  BY <1>7 DEF Lock, Ready, DurableInv, Stored
<1>8. CASE Wipe
  <2>1. wanted = None /\ wanted' = None
    BY <1>8 DEF Wipe, MemoryInv, Committing
  <2>2. CASE UNCHANGED <<file, stage, answered>>
    BY <1>8, <2>1, <2>2 DEF Wipe, DurableInv, Stored
  <2>3. CASE file' = NoFile /\ stage' = "wipe_marker" /\ answered' = NoRecords
    <3>1. DurableInv'
      BY <2>3 DEF DurableInv, Stored
    <3>2. Durable!Erase
      BY <2>1, <2>3 DEF Durable!Erase
    <3>3. QED
      BY <3>1, <3>2 DEF Durable!AbsNext
  <2>4. QED
    BY <1>8, <2>2, <2>3 DEF Wipe
<1>9. CASE Crash \/ Stop
  <2>1. wanted' = None /\ stage' = "idle" /\ file' = file /\ answered' = Stored
    BY <1>9 DEF Crash, Stop, Close, Stored, MemoryInv, Committing
  <2>2. DurableInv'
    BY <2>1 DEF DurableInv, Stored
  <2>3. Durable!Interrupted
    BY SMTT(30), <2>1 DEF Durable!Interrupted, Stored
  <2>4. QED
    BY SMTT(30), <2>2, <2>3 DEF Durable!AbsNext
<1>10. CASE WipeMarker
  BY SMTT(30), <1>10 DEF WipeMarker, DurableInv, Stored
<1>11. CASE OpenStore
  BY SMTT(30), <1>11 DEF OpenStore, DurableInv, MemoryInv, Stored
<1>12. CASE Initialize
  <2>1. Stored = NoRecords /\ Stored' = NoRecords /\ UNCHANGED <<answered, wanted>>
    BY SMTT(30), <1>12 DEF Initialize, Stored
  <2>2. stage = "idle" /\ stage' \in {"idle", "init_marker"}
    BY SMTT(30), <1>12 DEF Initialize, MemoryInv
  <2>3. QED
    BY <2>1, <2>2 DEF DurableInv
<1>13. CASE InitMarker
  <2>1. Stored = answered /\ answered = NoRecords
    BY <1>13 DEF InitMarker, DurableInv, MemoryInv
  <2>2. Stored' = NoRecords /\ stage' = "idle" /\ UNCHANGED <<answered, wanted>>
    BY SMTT(30), <1>13, <2>1 DEF InitMarker, Close, Stored
  <2>3. QED
    BY SMTT(30), <2>1, <2>2 DEF DurableInv
<1>14. CASE UNCHANGED vars
  BY <1>14 DEF vars, DurableInv, Stored
<1>15. QED
  BY Zenon, <1>1, <1>2, <1>3, <1>4, <1>5, <1>6, <1>7, <1>8, <1>9, <1>10, <1>11, <1>12,
     <1>13, <1>14, MutateType DEF Next, Put, Delete, MemoryInv, TypeOK

\* The encrypted store implements DurableRecords for any number of failed
\* file operations and crashes, at any point of a commit, its undo, a wipe, an
\* initialization or an open: a write that fails must leave the old file, and
\* commit must succeed in putting the store file back when the marker could
\* not be written.
THEOREM StoreRefines ==
    ASSUME FaultModes \subseteq {"before"}
    PROVE  Spec /\ [][UndoSucceeds]_vars => ImplementsDurableRecords
<1>1. Init => Durable!AbsInit
  <2> SUFFICES ASSUME Init PROVE Durable!AbsInit
    OBVIOUS
  <2>1. Stored = NoRecords
    BY InitDurable DEF Init, DurableInv
  <2>2. QED
    BY <2>1, NoRecordsType DEF Init, Durable!AbsInit, Stored
<1>2. MemoryInv /\ DurableInv /\ [Next]_vars /\ [UndoSucceeds]_vars
        => DurableInv' /\ [Durable!AbsNext]_(Durable!absVars)
  BY StepRefines
<1>3. QED
  BY <1>1, <1>2, InitMemory, NextMemory, InitDurable, PTL
  DEF Spec, ImplementsDurableRecords, Durable!AbsSpec

\* An undo follows a failed file operation.
UndoneFault == stage \in {"undo_store", "undo_marker"} => faults >= 1

\* With at most one failed file operation in a behaviour, one that leaves the
\* old file, the store implements DurableRecords: the undo cannot fail, and
\* nothing needs to be assumed of it.
THEOREM StoreRefinesOneFault ==
    ASSUME FaultModes \subseteq {"before"}, MaxFaults <= 1
    PROVE  Spec => ImplementsDurableRecords
<1>1. Init => UndoneFault
  BY SMTT(30) DEF Init, UndoneFault
<1>2. MemoryInv /\ UndoneFault /\ [Next]_vars => UndoneFault'
  <2> SUFFICES ASSUME MemoryInv, UndoneFault, [Next]_vars,
                      stage' \in {"undo_store", "undo_marker"}
               PROVE  faults' >= 1
    BY DEF UndoneFault
  <2>1. faults \in Nat
    BY StoreAssumption DEF MemoryInv, TypeOK
  <2>2. CASE WriteMarker
    BY <2>1, <2>2 DEF WriteMarker, AtomicWrite, FailsAs, Succeeds
  <2>3. CASE UndoStore
    BY <2>1, <2>3
    DEF UndoStore, AtomicWrite, FailsAs, Succeeds, UndoneFault
  <2>4. CASE UNCHANGED vars
    BY <2>4 DEF vars, UndoneFault
  <2>5. CASE \E m1, m2 \in Mutation : ApplyBatch(m1, m2)
    BY SMTT(30), <2>5 DEF ApplyBatch, Commit, Ready
  <2>6. QED
    BY ZenonT(60), <2>2, <2>3, <2>4, <2>5
    DEF Next, Put, Delete, Commit, WriteStore, GiveUp, UndoMarker, Lock, Wipe,
        WipeMarker, Crash, Stop, OpenStore, Initialize, InitMarker, Close, Ready,
        MemoryInv
<1>3. MemoryInv /\ UndoneFault /\ [Next]_vars => [UndoSucceeds]_vars
  <2> SUFFICES ASSUME MemoryInv, UndoneFault, Next, stage = "undo_store"
               PROVE  UNCHANGED faults
    BY DEF UndoSucceeds
  <2>1. faults = MaxFaults
    BY StoreAssumption DEF UndoneFault, MemoryInv, TypeOK
  <2>2. CASE UndoStore
    BY <2>1, <2>2, StoreAssumption DEF UndoStore, AtomicWrite, FailsAs, Succeeds
  <2>3. CASE Crash
    BY <2>3 DEF Crash
  <2>4. CASE \E m1, m2 \in Mutation : ApplyBatch(m1, m2)
    BY <2>4 DEF ApplyBatch, Ready
  <2>5. QED
    BY <2>2, <2>3, <2>4
    DEF Next, Put, Delete, WriteStore, WriteMarker, UndoMarker, Lock, Wipe,
        WipeMarker, Stop, OpenStore, Initialize, InitMarker, Ready, MemoryInv
<1>4. Spec /\ [][UndoSucceeds]_vars => ImplementsDurableRecords
  BY StoreRefines
<1>5. QED
  BY <1>1, <1>2, <1>3, <1>4, InitMemory, NextMemory, PTL DEF Spec
=============================================================================
