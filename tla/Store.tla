-------------------------------- MODULE Store --------------------------------
(***************************************************************************)
(* The encrypted store (apps/daemon/src/storage.rs): the records in        *)
(* memory, the store file and the revision marker beside it, and the       *)
(* sequence of file operations by which commit, open, initialize and wipe  *)
(* change them, with a crash possible between any two of them.             *)
(*                                                                         *)
(* A file operation of atomic_write is one step with three outcomes: it    *)
(* succeeds, fails with the old file in place ("before" the rename), or    *)
(* fails with the new one in place ("after" it, when the directory cannot  *)
(* be synchronised).  The store's mutex is held for a whole operation, so  *)
(* two operations never overlap.  A file is a revision and the records it  *)
(* decrypts to; a wrong key never gets this far.                           *)
(***************************************************************************)
EXTENDS Naturals, FiniteSets

CONSTANTS
    Keys, Values,   \* records: a class and key, and their bytes
    Nil,            \* no record
    NoFile,         \* no such file
    None,           \* no operation in progress
    MaxRecords,     \* MAX_RECORDS
    FaultModes,     \* how a file operation may fail: before, after
    MaxRevision,    \* bound: commits in a behaviour
    MaxFaults,      \* bound: failed file operations
    MaxCrashes      \* bound: crashes

Records == [Keys -> Values \cup {Nil}]
NoRecords == [k \in Keys |-> Nil]
Count(r) == Cardinality({k \in Keys : r[k] # Nil})

File == [revision : 0..MaxRevision, records : Records]
Marker == 0..MaxRevision

ASSUME StoreAssumption ==
    /\ Nil \notin Values /\ None \notin Records
    /\ NoFile \notin File /\ NoFile \notin Marker
    /\ FaultModes \subseteq {"before", "after"}
    /\ MaxRevision \in Nat /\ MaxFaults \in Nat /\ MaxCrashes \in Nat
    /\ MaxRecords \in Nat

\* A mutation of apply_batch: a Put or a Delete (Nil).  One with a bad key or
\* too long a value is refused.
Mutation == [key : Keys, value : Values \cup {Nil}, bad : BOOLEAN]

VARIABLES
    file,       \* the store file
    marker,     \* the revision marker
    revision, records, locked,      \* the open EncryptedStore
    mode,       \* "open", "closed", "refused"
    stage,      \* file operation an unfinished call does next, or "idle"
    previous,   \* what the call read before it wrote: records, file, marker
    answered,   \* records after the last answer, or found by the last open
    wanted,     \* records the call in progress wants durable, or None
    partial,    \* memory holds the beginning of a batch that was refused
    wiped,      \* a wipe has begun at some time
    faults, crashes

vars == <<file, marker, revision, records, locked, mode, stage, previous,
          answered, wanted, partial, wiped, faults, crashes>>

NoPrevious == [records |-> NoRecords, file |-> NoFile, marker |-> NoFile]

TypeOK ==
    /\ file \in File \cup {NoFile} /\ marker \in Marker \cup {NoFile}
    /\ revision \in Marker /\ records \in Records /\ locked \in BOOLEAN
    /\ mode \in {"open", "closed", "refused"}
    /\ stage \in {"idle", "store", "marker", "undo_store", "undo_marker",
                  "init_marker", "wipe_marker"}
    /\ previous \in [records : Records, file : File \cup {NoFile},
                     marker : Marker \cup {NoFile}]
    /\ answered \in Records /\ wanted \in Records \cup {None}
    /\ partial \in BOOLEAN /\ wiped \in BOOLEAN
    /\ faults \in 0..MaxFaults /\ crashes \in 0..MaxCrashes

Init ==
    /\ file = [revision |-> 0, records |-> NoRecords] /\ marker = 0
    /\ revision = 0 /\ records = NoRecords /\ locked = FALSE /\ mode = "open"
    /\ stage = "idle" /\ previous = NoPrevious
    /\ answered = NoRecords /\ wanted = None /\ partial = FALSE /\ wiped = FALSE
    /\ faults = 0 /\ crashes = 0

-----------------------------------------------------------------------------
\* File operations

Succeeds == UNCHANGED faults

FailsAs(how) ==
    /\ how \in FaultModes /\ faults < MaxFaults /\ faults' = faults + 1

Fails == \E how \in FaultModes : FailsAs(how)

\* atomic_write of a file that holds old and should hold new; now is the
\* primed variable.  ok says what is answered.
AtomicWrite(now, old, new, ok) ==
    \/ ok /\ now = new /\ Succeeds
    \/ ~ok /\ now = old /\ FailsAs("before")
    \/ ~ok /\ now = new /\ FailsAs("after")

-----------------------------------------------------------------------------
\* Operations on records

Ready == mode = "open" /\ stage = "idle" /\ ~locked

\* Slip: the marker moves ahead of the store file.
CommitMarkerFirst(r) ==
    /\ revision < MaxRevision
    /\ Count(r) <= MaxRecords /\ file # NoFile
    /\ records' = r /\ wanted' = r /\ marker' = revision + 1
    /\ previous' = [records |-> records, file |-> file, marker |-> marker]
    /\ stage' = "store"
    /\ UNCHANGED <<file, revision, locked, mode, answered, partial, faults,
                   wiped, crashes>>

\* The records become r in memory and commit starts.  A full store, or a store
\* file that cannot be read, fails before anything is written.
Commit(r) ==
    /\ revision < MaxRevision
    /\ Count(r) <= MaxRecords /\ file # NoFile
    /\ records' = r /\ wanted' = r
    /\ previous' = [records |-> records, file |-> file, marker |-> marker]
    /\ stage' = "store"
    /\ UNCHANGED <<file, marker, revision, locked, mode, answered, partial,
                   faults, wiped, crashes>>

Put(k, v) == Ready /\ Commit([records EXCEPT ![k] = v])

Delete(k) == Ready /\ records[k] # Nil /\ Commit([records EXCEPT ![k] = Nil])

Mutate(r, m) == [r EXCEPT ![m.key] = m.value]

\* Mutations are checked one by one while they are made.  When the second is
\* refused, the first stays made in memory, and the next commit stores it.
ApplyBatch(m1, m2) ==
    /\ Ready
    /\ IF m1.bad \/ m2.bad
       THEN /\ records' = IF m1.bad THEN records ELSE Mutate(records, m1)
            /\ partial' = (partial \/ ~m1.bad)
            /\ UNCHANGED <<file, marker, revision, locked, mode, stage,
                           previous, answered, wanted, faults, wiped, crashes>>
       ELSE Commit(Mutate(Mutate(records, m1), m2))

-----------------------------------------------------------------------------
\* The file operations of commit

\* Slip: the records in memory are not put back.
GiveUpKeepsRecords ==
    /\ wanted' = None /\ stage' = "idle" /\ previous' = NoPrevious
    /\ UNCHANGED records

\* A call that answers Err puts back the records it found in memory.
GiveUp ==
    /\ records' = previous.records /\ wanted' = None /\ stage' = "idle"
    /\ previous' = NoPrevious

WriteStore ==
    /\ mode = "open" /\ stage = "store"
    /\ LET new == [revision |-> revision + 1, records |-> records]
       IN  \/ /\ AtomicWrite(file', file, new, TRUE)
              /\ stage' = "marker" /\ UNCHANGED <<records, previous, wanted>>
           \/ AtomicWrite(file', file, new, FALSE) /\ GiveUp
    /\ UNCHANGED <<marker, revision, locked, mode, answered, partial, wiped,
                   crashes>>

\* Slip: a marker that cannot be written leaves the new store file.
WriteMarkerNoUndo ==
    /\ mode = "open" /\ stage = "marker"
    /\ \/ /\ AtomicWrite(marker', marker, revision + 1, TRUE)
          /\ revision' = revision + 1 /\ answered' = records /\ wanted' = None
          /\ stage' = "idle" /\ previous' = NoPrevious /\ partial' = FALSE
          /\ UNCHANGED records
       \/ /\ AtomicWrite(marker', marker, revision + 1, FALSE)
          /\ GiveUp /\ UNCHANGED <<revision, answered, partial>>
    /\ UNCHANGED <<file, locked, mode, wiped, crashes>>

WriteMarker ==
    /\ mode = "open" /\ stage = "marker"
    /\ \/ /\ AtomicWrite(marker', marker, revision + 1, TRUE)
          /\ revision' = revision + 1 /\ answered' = records /\ wanted' = None
          /\ stage' = "idle" /\ previous' = NoPrevious /\ partial' = FALSE
       \/ /\ AtomicWrite(marker', marker, revision + 1, FALSE)
          /\ stage' = "undo_store"
          /\ UNCHANGED <<revision, answered, wanted, previous, partial>>
    /\ UNCHANGED <<file, records, locked, mode, wiped, crashes>>

\* The marker could not be written: the store file is put back first, then
\* the marker, each whether or not the other succeeds.
UndoStore ==
    /\ mode = "open" /\ stage = "undo_store"
    /\ \E ok \in BOOLEAN : AtomicWrite(file', file, previous.file, ok)
    /\ stage' = "undo_marker"
    /\ UNCHANGED <<marker, revision, records, locked, mode, previous, answered,
                   wanted, partial, wiped, crashes>>

UndoMarker ==
    /\ mode = "open" /\ stage = "undo_marker"
    /\ \E ok \in BOOLEAN : AtomicWrite(marker', marker, previous.marker, ok)
    /\ GiveUp
    /\ UNCHANGED <<file, revision, locked, mode, answered, partial, wiped,
                   crashes>>

-----------------------------------------------------------------------------
\* Lock, wipe, initialize, open, crash

Lock ==
    /\ Ready /\ locked' = TRUE /\ records' = NoRecords /\ partial' = FALSE
    /\ UNCHANGED <<file, marker, revision, mode, stage, previous, answered,
                   wanted, faults, wiped, crashes>>

\* wipe_files: the store file goes first, then the marker.
Wipe ==
    /\ mode = "open" /\ stage = "idle"
    /\ wiped' = TRUE /\ locked' = TRUE /\ records' = NoRecords
    /\ partial' = FALSE
    /\ \/ file' = NoFile /\ stage' = "wipe_marker" /\ answered' = NoRecords
          /\ Succeeds
       \/ UNCHANGED <<file, stage, answered>> /\ FailsAs("before")
    /\ UNCHANGED <<marker, revision, mode, previous, wanted, crashes>>

WipeMarker ==
    /\ mode = "open" /\ stage = "wipe_marker"
    /\ \/ marker' = NoFile /\ Succeeds
       \/ UNCHANGED marker /\ FailsAs("before")
    /\ stage' = "idle"
    /\ UNCHANGED <<file, revision, records, locked, mode, previous, answered,
                   wanted, partial, wiped, crashes>>

Close ==
    /\ mode' = "closed" /\ stage' = "idle" /\ previous' = NoPrevious
    /\ records' = NoRecords /\ locked' = FALSE /\ revision' = 0
    /\ partial' = FALSE

Crash ==
    /\ mode = "open" /\ crashes < MaxCrashes /\ crashes' = crashes + 1
    /\ Close /\ wanted' = None
    /\ answered' = IF file = NoFile THEN NoRecords ELSE file.records
    /\ UNCHANGED <<file, marker, wiped, faults>>

\* The daemon stops between two operations.
Stop ==
    /\ mode = "open" /\ stage = "idle" /\ Close
    /\ answered' = IF file = NoFile THEN NoRecords ELSE file.records
    /\ UNCHANGED <<file, marker, wanted, wiped, faults, crashes>>

\* open_with_key: a store behind its marker is refused; a missing or older
\* marker is written.
OpenStore ==
    /\ mode = "closed" /\ file # NoFile
    /\ IF marker # NoFile /\ file.revision < marker
       THEN mode' = "refused" /\ UNCHANGED <<marker, revision, records, faults>>
       ELSE \E ok \in BOOLEAN :
              /\ IF marker = file.revision THEN ok /\ UNCHANGED <<marker, faults>>
                 ELSE AtomicWrite(marker', marker, file.revision, ok)
              /\ IF ok
                 THEN mode' = "open" /\ revision' = file.revision
                      /\ records' = file.records
                 ELSE UNCHANGED <<mode, revision, records>>
    /\ UNCHANGED <<file, locked, stage, previous, answered, wanted, partial,
                   wiped, crashes>>

\* initialize_with_key on a profile without a store file: the file at revision
\* 0, then the marker; what a failed one leaves is removed.
Initialize ==
    /\ mode = "closed" /\ file = NoFile
    /\ \/ /\ file' = [revision |-> 0, records |-> NoRecords] /\ Succeeds
          /\ mode' = "open" /\ stage' = "init_marker" /\ UNCHANGED marker
       \/ /\ Fails /\ marker' = NoFile /\ UNCHANGED <<file, mode, stage>>
    /\ UNCHANGED <<revision, records, locked, previous, answered, wanted,
                   partial, wiped, crashes>>

InitMarker ==
    /\ mode = "open" /\ stage = "init_marker"
    /\ \/ marker' = 0 /\ Succeeds /\ stage' = "idle"
          /\ UNCHANGED <<file, revision, records, locked, mode, previous, partial>>
       \/ Fails /\ file' = NoFile /\ marker' = NoFile /\ Close
    /\ UNCHANGED <<answered, wanted, wiped, crashes>>

Next ==
    \/ \E k \in Keys, v \in Values : Put(k, v)
    \/ \E k \in Keys : Delete(k)
    \/ \E m1, m2 \in Mutation : ApplyBatch(m1, m2)
    \/ WriteStore \/ WriteMarker \/ UndoStore \/ UndoMarker
    \/ Lock \/ Wipe \/ WipeMarker \/ Crash \/ Stop \/ OpenStore
    \/ Initialize \/ InitMarker

Spec == Init /\ [][Next]_vars

-----------------------------------------------------------------------------
(* Properties.  When a write fails after its rename, or the undo of a      *)
(* write fails too, commit answers Err with the new file in place: what is *)
(* durable is stated for writes that fail before the rename and for undos  *)
(* that succeed.  What is in memory holds however often a write fails.     *)

\* No sequence of commits, stops and crashes makes a daemon refuse its own
\* store as rolled back, unless a wipe left the marker of the old profile.
RefusedOnlyAfterWipe == mode = "refused" => wiped

\* An operation answered Err leaves no trace in the records, whichever of its
\* file operations failed; only a batch refused half way does.
ErrLeavesNoTrace == Ready /\ ~partial => records = answered

Durable == INSTANCE DurableRecords WITH
    Contents <- Records, Empty <- NoRecords, Idle <- None,
    durable <- IF file = NoFile THEN NoRecords ELSE file.records

\* The store implements DurableRecords: at every point of a commit, its undo,
\* a wipe, an initialization or an open, what a crash would leave to be read is
\* the records of the last answer or those of the call in progress, never a
\* mixture and never older ones.
ImplementsDurableRecords == Durable!AbsSpec
=============================================================================
