---------------------------- MODULE ProfileFiles ----------------------------
(***************************************************************************)
(* The files of a profile directory and what the commands of the daemon's  *)
(* executable make of them (apps/daemon/src/cli.rs, cli_profile.rs,        *)
(* cli_recovery.rs and storage.rs): a directory is a function from paths   *)
(* to contents, and an operation is a function from directories to         *)
(* directories.                                                            *)
(*                                                                         *)
(* A store file is an image: the passphrase that opens it, its revision,   *)
(* whether identity and registry are stored, whether the registry still    *)
(* authorizes this device, whether the other records are such that serve   *)
(* restores them, and the writes it holds.  An image has one account: init *)
(* and link-complete, which alone store an identity, store the registry    *)
(* of the same root with it.  A process generates at most one account and  *)
(* one passphrase, so its process id names both; 0 names those of a        *)
(* profile that is there from the beginning.                               *)
(***************************************************************************)
EXTENDS Naturals, FiniteSets

CONSTANTS
    Processes,      \* bound: the processes of a behaviour
    NoFile,         \* no such file
    MaxRevision     \* bound: the revisions of a store

ASSUME ProfileFilesAssumption ==
    Processes \in Nat /\ MaxRevision \in Nat \ {0, 1}

Pids == 1..Processes

Owner == Pids \cup {0}

Image == [account : Owner, secret : Owner, revision : 0..MaxRevision,
          ready : BOOLEAN, active : BOOLEAN, restorable : BOOLEAN, writes : SUBSET Pids]

\* A recovery artifact: a copy of the store file and one of the marker.
Artifact == [store : Image, revision : 0..MaxRevision]

-----------------------------------------------------------------------------
\* Paths.  The files of a process carry its process id: Old(p) is the old-PID
\* file of rotate or the before-recovery-PID file of serve, and Temporary(p)
\* the rotate-PID or import-PID file, as a process runs one command.

StoreFile == <<"store.adstore", 0>>
RevisionFile == <<"store.adstore.revision", 0>>
PendingFile == <<"store.recovery.pending", 0>>
ProfileIdFile == <<"profile.id", 0>>
KeychainFile == <<"profile.keychain", 0>>
LockFile == <<"daemon.lock", 0>>

Old(p) == <<"store.adstore.old", p>>
OldRevision(p) == <<"store.adstore.revision.old", p>>
Temporary(p) == <<"store.adstore.tmp", p>>
TemporaryRevision(p) == <<"store.adstore.revision.tmp", p>>

Paths == {StoreFile, RevisionFile, PendingFile, ProfileIdFile, KeychainFile,
          LockFile}
    \cup UNION {{Old(p), OldRevision(p), Temporary(p), TemporaryRevision(p)} : p \in Pids}

Images == {StoreFile} \cup {Old(p) : p \in Pids} \cup {Temporary(p) : p \in Pids}

Exists(d, f) == d[f] # NoFile

Write(d, f, contents) == [d EXCEPT ![f] = contents]

Remove(d, files) == [f \in DOMAIN d |-> IF f \in files THEN NoFile ELSE d[f]]

Rename(d, from, to) ==
    IF Exists(d, from) THEN [d EXCEPT ![to] = d[from], ![from] = NoFile] ELSE d

-----------------------------------------------------------------------------
\* The store

New(account, secret) ==
    [account |-> account, secret |-> secret, revision |-> 0, ready |-> FALSE,
     active |-> TRUE, restorable |-> TRUE, writes |-> {}]

\* EncryptedStore::open: the passphrase decrypts the file, and the marker is not
\* ahead of it.
Opens(image, revision, secret) ==
    /\ image # NoFile /\ image.secret = secret
    /\ revision # NoFile => image.revision >= revision

CanOpen(d, secret) == Opens(d[StoreFile], d[RevisionFile], secret)

\* Opening brings a marker that is absent or behind up to the store.
Opened(d) == Write(d, RevisionFile, d[StoreFile].revision)

\* What a commit of the open image writes.
Advanced(image) == [image EXCEPT !.revision = @ + 1]
Written(image, p) == [Advanced(image) EXCEPT !.writes = @ \cup {p}]

\* The images of a profile whose identity, and then whose registry, is stored.
Identified(p) == Advanced(New(p, p))
Registered(p) == [Advanced(Identified(p)) EXCEPT !.ready = TRUE]

\* Store and marker after a whole commit.
Committed(d, image) ==
    Write(Write(d, StoreFile, image), RevisionFile, image.revision)

\* rekey_to: a new store with every record, which starts its own revisions.
Rekeyed(image, p) == [image EXCEPT !.secret = p, !.revision = 1]

-----------------------------------------------------------------------------
\* Recovery artifacts

\* parse_recovery_artifact
Parses(artifact) == artifact.store.revision = artifact.revision

\* Identity and registry are there, and the registry authorizes the device.
Authorizes(image) == image.ready /\ image.active

\* What apply_pending_recovery asks of a staged artifact before it touches the
\* live files: nothing of the records beside identity and registry.
Applies(artifact, secret) ==
    /\ Parses(artifact)
    /\ Opens(artifact.store, artifact.revision, secret)
    /\ Authorizes(artifact.store)

\* What serve asks of a store it has opened: it also restores the sessions, the
\* pairing, the contacts, the received attachments and the delivery ledger, and
\* ends when one of them is refused.  Identity and registry name one account in
\* every image, so their comparison refuses none.
Serves(image) == Authorizes(image) /\ image.restorable

\* A failed installation takes away what it wrote and puts back what it moved.
Reinstated(d, p) ==
    Rename(Rename(Remove(d, {StoreFile, RevisionFile}),
                  Old(p), StoreFile), OldRevision(p), RevisionFile)

-----------------------------------------------------------------------------
\* The instance lock.  Its file names the process that made it once that
\* process has written its id.

Lock == [owner : Pids, written : BOOLEAN]

ASSUME NoFileAssumption == NoFile \notin Lock \cup Artifact \cup Owner

lock_pid(d) ==
    IF Exists(d, LockFile) /\ d[LockFile].written THEN d[LockFile].owner ELSE 0

NewLock(p) == [owner |-> p, written |-> FALSE]

\* The id goes to the file the process has open, which may be gone by now.
PidWritten(d, p) ==
    IF Exists(d, LockFile) /\ d[LockFile].owner = p
    THEN [d EXCEPT ![LockFile].written = TRUE] ELSE d
=============================================================================
