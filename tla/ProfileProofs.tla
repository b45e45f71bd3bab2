--------------------------- MODULE ProfileProofs ---------------------------
(***************************************************************************)
(* Proofs about module Profile, for any number of processes and any        *)
(* commands: what the files and the memory of the processes hold, and who  *)
(* holds the instance lock.  One lemma per group of actions gives both.    *)
(* What follows for serve, setup and the lock is in ProfileRecoveryProofs. *)
(***************************************************************************)
EXTENDS Profile, TLAPS

Fields == DOMAIN Fresh

\* The steps of serve, those of them that replace the live files, those of init
\* in which the store is the new one, and those of init under the setup daemon.
Daemon == {"recover", "recover_store", "recover_revision", "install_store",
           "install_revision", "drop_old", "drop_pending", "open", "run",
           "commit_marker", "locked", "wipe_marker", "wipe_failed"}

Replacing == {"recover_store", "recover_revision", "install_store", "install_revision",
              "drop_old", "drop_pending"}

Making == {"init_identity", "init_registry", "init_id", "init_keychain", "init_mark",
           "init_out", "setup_undo"}

FirstRun == {"setup_run", "init", "init_create"} \cup Making

\* The steps of a setup before it has made a store, and all its steps.
Unmade == {"new", "setup", "acquire", "break", "acquire_again", "write_pid", "setup_run",
           "init", "init_create"}

SetupSteps == Unmade \cup Making \cup {"ok", "err"}

\* The steps of a process that has an open store in memory.
Loaded == {"revoke_put", "revoke_marker", "enroll_id", "enroll_save", "rotate_rekey",
           "export_revision", "run", "commit_marker"}

\* The steps of a process that may hold the lock.
Holding(p) == IF IsSetup(p) THEN FirstRun ELSE Daemon

Special == {"new", "write_pid", "break", "stop_break", "setup_run"}

Owns(p) == Exists(disk, LockFile) /\ disk[LockFile].owner = p

\* The process read from the lock file ran, and is gone.
ReadGone(p) == \E q \in Pids : q = proc[p].read /\ ~Runs(q) /\ proc[q].at # "new"

\* The shape of the variables.
Layout ==
    /\ DOMAIN disk = Paths /\ disk[LockFile] \in Lock \cup {NoFile}
    /\ limits \in Profiles /\ raced \in BOOLEAN
    /\ DOMAIN proc = Pids

\* A process p with memory r holds the lock only at the steps after it got it.
Stands(r, p) ==
    /\ DOMAIN r = Fields /\ r.alive \in BOOLEAN /\ r.holds \in BOOLEAN
    /\ r.holds => r.at \in Holding(p)
    /\ IsSetup(p) => r.at \in SetupSteps
    /\ r.at = "setup_run" /\ r.alive => r.holds

\* A process that is about to break a lock has read a process that is gone.
Finds(p) == proc[p].alive /\ proc[p].at \in {"break", "stop_break"} => ReadGone(p)

\* Unless a lock was removed that nobody had found stale, a process that holds
\* the lock, or has made it, owns the file.
Held ==
    \A p \in Pids :
        ~raced /\ proc[p].alive /\ (proc[p].holds \/ proc[p].at = "write_pid") => Owns(p)

\* The lock file is of a process that has started.
Named == Exists(disk, LockFile) => proc[disk[LockFile].owner].at # "new"

\* The inductive invariant of the instance lock.
LockInv ==
    /\ Layout /\ Named /\ Held
    /\ \A p \in Pids : Stands(proc[p], p) /\ Finds(p)

-----------------------------------------------------------------------------
\* What the files and the processes hold

\* Stores and artifacts of the accounts in A.
Imgs(A) == {i \in Image : i.account \in A}
Arts(A) == {a \in Artifact : a.store.account \in A}

Revisions == {RevisionFile} \cup {OldRevision(p) : p \in Pids}
                            \cup {TemporaryRevision(p) : p \in Pids}

\* The contents c is one of file f.
Fits(f, c, A) ==
    \/ c = NoFile
    \/ /\ f \in Images => c \in Imgs(A)
       /\ f \in Revisions => c \in 0..MaxRevision
       /\ f = PendingFile => c \in Arts(A)
       /\ f = ProfileIdFile => c \in Owner

\* What a process has in memory is of its step.
Memory(r, A) ==
    /\ r.at \in Steps /\ r.secret \in Owner /\ r.out \in BOOLEAN /\ r.read \in Owner
    /\ r.servable \in BOOLEAN /\ r.failed \in BOOLEAN
    /\ r.image \in Imgs(A) \cup Arts(A) \cup {NoFile}
    /\ r.alive /\ r.at \in Loaded => r.image \in Imgs(A)
    /\ r.alive /\ r.at \in Replacing => r.image \in Arts(A)

Rest(A) ==
    /\ keychain \in [Owner -> Owner \cup {NoFile}]
    /\ known \subseteq Owner /\ backups \subseteq Arts(A)
    /\ promised \in [account : Owner \cup {NoFile}, writes : SUBSET Pids]

\* Every store, in the files F, in artifacts and in memory, is of an account in A.
TypeInv(F, A) ==
    /\ \A f \in F : Fits(f, disk[f], A)
    /\ Rest(A)
    /\ \A p \in Pids : Memory(proc[p], A)

-----------------------------------------------------------------------------
\* Directories

\* A directory with the lock and the staged artifact of the present one.
Good(d, A) ==
    /\ DOMAIN d = Paths /\ d[LockFile] = disk[LockFile]
    /\ d[PendingFile] = disk[PendingFile]
    /\ \A f \in Paths : Fits(f, d[f], A)

Elsewhere == Paths \ {LockFile, PendingFile}

\* Every path names one kind of file.
LEMMA Files ==
    /\ LockFile \in Paths /\ PendingFile \in Paths
    /\ {StoreFile, RevisionFile, ProfileIdFile, KeychainFile} \subseteq Elsewhere
    /\ \A p \in Pids : {Old(p), OldRevision(p), Temporary(p), TemporaryRevision(p)} \subseteq Elsewhere
<1>1. LockFile \in Paths /\ PendingFile \in Paths
  BY DEF Paths
<1>2. {StoreFile, RevisionFile, ProfileIdFile, KeychainFile} \subseteq Elsewhere
  BY DEF Paths, Elsewhere, LockFile, StoreFile, RevisionFile, PendingFile, ProfileIdFile,
         KeychainFile
<1>3. ASSUME NEW p \in Pids
      PROVE  {Old(p), OldRevision(p), Temporary(p), TemporaryRevision(p)} \subseteq Elsewhere
  <2>1. {Old(p), OldRevision(p), Temporary(p), TemporaryRevision(p)} \subseteq Paths
    BY DEF Paths
  <2>2. {LockFile, PendingFile} \cap {Old(p), OldRevision(p), Temporary(p), TemporaryRevision(p)} = {}
    BY SMTT(30) DEF LockFile, PendingFile, Old, OldRevision, Temporary, TemporaryRevision
  <2> QED
    BY Zenon, <2>1, <2>2 DEF Elsewhere
<1> QED
  BY <1>1, <1>2, <1>3

\* The files of stores, those of revisions, and the others.
LEMMA Kinds ==
    /\ StoreFile \in Images /\ RevisionFile \in Revisions
    /\ \A p \in Pids : /\ Old(p) \in Images /\ Temporary(p) \in Images
                       /\ OldRevision(p) \in Revisions /\ TemporaryRevision(p) \in Revisions
    /\ Images \subseteq Elsewhere /\ Revisions \subseteq Elsewhere
    /\ \A f \in Images : f \notin Revisions /\ f # PendingFile /\ f # ProfileIdFile
    /\ \A f \in Revisions : f # PendingFile /\ f # ProfileIdFile
    /\ \A f \in {LockFile, PendingFile, ProfileIdFile, KeychainFile} :
         f \notin Images /\ f \notin Revisions
    /\ ProfileIdFile # PendingFile /\ KeychainFile # ProfileIdFile
    /\ LockFile # ProfileIdFile /\ LockFile # PendingFile /\ StoreFile # LockFile
<1>1. /\ StoreFile \in Images /\ RevisionFile \in Revisions
      /\ \A p \in Pids : /\ Old(p) \in Images /\ Temporary(p) \in Images
                         /\ OldRevision(p) \in Revisions /\ TemporaryRevision(p) \in Revisions
  BY SMTT(30) DEF Images, Revisions
<1>2. Images \subseteq Elsewhere /\ Revisions \subseteq Elsewhere
  BY SMTT(30), Files DEF Images, Revisions
<1> USE DEF StoreFile, Old, Temporary, RevisionFile, OldRevision, TemporaryRevision, LockFile,
            PendingFile, ProfileIdFile, KeychainFile
<1>3. \A f \in Images : f[1] \in {"store.adstore", "store.adstore.old", "store.adstore.tmp"}
  BY SMTT(30) DEF Images
<1>4. \A f \in Revisions : f[1] \in {"store.adstore.revision", "store.adstore.revision.old",
                                     "store.adstore.revision.tmp"}
  BY SMTT(30) DEF Revisions
<1>5. /\ \A f \in Images : f \notin Revisions /\ f # PendingFile /\ f # ProfileIdFile
      /\ \A f \in Revisions : f # PendingFile /\ f # ProfileIdFile
  BY SMTT(30), <1>3, <1>4
<1>6. \A f \in {LockFile, PendingFile, ProfileIdFile, KeychainFile} :
         f \notin Images /\ f \notin Revisions
  BY SMTT(30), <1>3, <1>4
<1>7. /\ ProfileIdFile # PendingFile /\ KeychainFile # ProfileIdFile
      /\ LockFile # ProfileIdFile /\ LockFile # PendingFile /\ StoreFile # LockFile
  BY SMTT(30)
<1> QED
  BY Zenon, <1>1, <1>2, <1>5, <1>6, <1>7

\* What fits a file of each kind; the lock and the keychain mark fit anything.
LEMMA Fitting ==
    ASSUME NEW A
    PROVE  /\ \A f \in Images : \A c \in Imgs(A) : Fits(f, c, A)
           /\ \A f \in Revisions : \A c \in 0..MaxRevision : Fits(f, c, A)
           /\ \A c \in Owner : Fits(ProfileIdFile, c, A)
           /\ \A c \in Arts(A) : Fits(PendingFile, c, A)
           /\ \A c : Fits(KeychainFile, c, A) /\ Fits(LockFile, c, A)
           /\ \A f : Fits(f, NoFile, A)
<1>1. KeychainFile # PendingFile
  BY SMTT(30) DEF KeychainFile, PendingFile
<1> QED
  BY Zenon, <1>1, Kinds DEF Fits

\* Writing another file leaves lock and artifact alone.
LEMMA GoodWrite ==
    ASSUME NEW A, NEW d, Good(d, A), NEW f \in Elsewhere, NEW c, Fits(f, c, A)
    PROVE  Good(Write(d, f, c), A)
  BY SMTT(30), Files DEF Good, Write, Elsewhere

\* Removing other files leaves lock and artifact alone.
LEMMA GoodRemove ==
    ASSUME NEW A, NEW d, Good(d, A), NEW files, files \subseteq Elsewhere
    PROVE  Good(Remove(d, files), A)
<1>1. \A f : Fits(f, NoFile, A)
  BY Zenon DEF Fits
<1> QED
  BY SMTT(30), <1>1, Files DEF Good, Remove, Elsewhere

\* So does renaming a store, or a revision, to another name.
LEMMA GoodRename ==
    ASSUME NEW A, NEW d, Good(d, A), NEW f, NEW g,
           (f \in Images /\ g \in Images) \/ (f \in Revisions /\ g \in Revisions)
    PROVE  Good(Rename(d, f, g), A)
<1>1. f \in Elsewhere /\ g \in Elsewhere
  BY Zenon, Kinds
<1>2. \A c : Fits(f, c, A) => Fits(g, c, A)
  BY ZenonT(60), Kinds DEF Fits
<1>3. \A h : Fits(h, NoFile, A)
  BY Zenon DEF Fits
<1> QED
  BY SMTT(30), <1>1, <1>2, <1>3, Files DEF Good, Rename, Elsewhere

\* A commit, and the opening of a store, leave lock and artifact alone.
LEMMA GoodCommitted ==
    ASSUME NEW A, NEW d, Good(d, A)
    PROVE  /\ \A image \in Imgs(A) : Good(Committed(d, image), A)
           /\ d[StoreFile] \in Imgs(A) => Good(Opened(d), A)
<1>1. \A i \in Imgs(A) : i.revision \in 0..MaxRevision
  BY SMTT(30) DEF Imgs, Image
<1>2. ASSUME NEW image \in Imgs(A) PROVE Good(Committed(d, image), A)
  <2>1. Good(Write(d, StoreFile, image), A)
    BY Zenon, Files, Kinds, Fitting, GoodWrite
  <2>2. Fits(RevisionFile, image.revision, A)
    BY Zenon, <1>1, Kinds, Fitting
  <2> QED
    BY Zenon, <2>1, <2>2, Files, GoodWrite DEF Committed
<1>3. ASSUME d[StoreFile] \in Imgs(A) PROVE Good(Opened(d), A)
  <2>1. Fits(RevisionFile, d[StoreFile].revision, A)
    BY Zenon, <1>1, <1>3, Kinds, Fitting
  <2> QED
    BY Zenon, <2>1, Files, GoodWrite DEF Opened
<1> QED
  BY Zenon, <1>2, <1>3
-----------------------------------------------------------------------------
\* Steps that do not concern the lock

\* What holds in every state, of all stores or of those of the accounts in A.
Sound(A) == A \subseteq Owner /\ LockInv /\ TypeInv(Paths, A)

\* A process may go from one step to the other.
Moves(from, to) ==
    /\ from \notin Ended /\ to \notin Special /\ to \in Steps
    /\ from \in Daemon <=> to \in Daemon
    /\ from \in FirstRun => to \in FirstRun
    /\ from \in SetupSteps => to \in SetupSteps

\* The other step asks no more of what is in memory.
Carries(from, to) ==
    /\ Moves(from, to)
    /\ to \in Loaded => from \in Loaded
    /\ to \in Replacing => from \in Replacing

\* The process goes on, and not to a step that concerns the lock.
Quiet(p, r, A) ==
    /\ DOMAIN r = Fields /\ r.alive = TRUE /\ r.holds = proc[p].holds
    /\ Moves(proc[p].at, r.at) /\ Memory(r, A)

Kept(A) == raced' = raced /\ limits' = limits /\ Rest(A)'

\* A running process works on other files, or answers.
Harmless(p, A) ==
    /\ Runs(p) /\ Kept(A)
    /\ \E d : /\ Good(d, A)
              /\ \/ \E r : Quiet(p, r, A) /\ proc' = [proc EXCEPT ![p] = r] /\ disk' = d
                 \/ \E answer \in {"ok", "err"} : \E failed \in BOOLEAN :
                        Answers(p, answer, failed, d)

\* The steps of init, link-complete, revoke, enroll and wipe.
LEMMA ChangingMoves ==
    /\ Carries("init", "init_create") /\ Carries("init_create", "init_identity")
    /\ Carries("init_identity", "init_registry") /\ Carries("init_registry", "init_id")
    /\ Carries("init_id", "init_keychain") /\ Carries("init_keychain", "init_mark")
    /\ Carries("init_keychain", "setup_undo") /\ Carries("init_keychain", "init_out")
    /\ Carries("init_mark", "init_out")
    /\ Carries("link", "link_batch") /\ Carries("link_batch", "ok")
    /\ Carries("setup", "acquire") /\ Carries("setup_run", "init")
    /\ Moves("revoke", "revoke_put") /\ Moves("revoke_put", "revoke_marker")
    /\ Moves("enroll", "enroll_id") /\ Carries("enroll_id", "enroll_save")
    /\ Carries("enroll_save", "enroll_mark") /\ Carries("enroll_mark", "ok")
    /\ Moves("wipe", "wipe_keychain") /\ Carries("wipe_keychain", "wipe_store")
    /\ Carries("wipe_store", "wipe_revision") /\ Carries("wipe_revision", "wipe_rest")
<1>1. /\ Carries("init", "init_create") /\ Carries("init_create", "init_identity")
      /\ Carries("init_identity", "init_registry") /\ Carries("init_registry", "init_id")
  BY SMTT(30) DEF Carries, Moves, Ended, Special, Daemon, FirstRun, SetupSteps, Unmade, Making,
                  Loaded, Replacing, Steps, Locking, Operations
<1>2. /\ Carries("init_id", "init_keychain") /\ Carries("init_keychain", "init_mark")
      /\ Carries("init_keychain", "setup_undo") /\ Carries("init_keychain", "init_out")
  BY SMTT(30) DEF Carries, Moves, Ended, Special, Daemon, FirstRun, SetupSteps, Unmade, Making,
                  Loaded, Replacing, Steps, Locking, Operations
<1>3. /\ Carries("init_mark", "init_out") /\ Carries("link", "link_batch")
      /\ Carries("link_batch", "ok") /\ Carries("setup", "acquire")
  BY SMTT(30) DEF Carries, Moves, Ended, Special, Daemon, FirstRun, SetupSteps, Unmade, Making,
                  Loaded, Replacing, Steps, Locking, Operations
<1>4. /\ Carries("setup_run", "init") /\ Moves("revoke", "revoke_put")
      /\ Moves("revoke_put", "revoke_marker") /\ Moves("enroll", "enroll_id")
  BY SMTT(30) DEF Carries, Moves, Ended, Special, Daemon, FirstRun, SetupSteps, Unmade, Making,
                  Loaded, Replacing, Steps, Locking, Operations
<1>5. /\ Carries("enroll_id", "enroll_save") /\ Carries("enroll_save", "enroll_mark")
      /\ Carries("enroll_mark", "ok") /\ Moves("wipe", "wipe_keychain")
  BY SMTT(30) DEF Carries, Moves, Ended, Special, Daemon, FirstRun, SetupSteps, Unmade, Making,
                  Loaded, Replacing, Steps, Locking, Operations
<1>6. /\ Carries("wipe_keychain", "wipe_store") /\ Carries("wipe_store", "wipe_revision")
      /\ Carries("wipe_revision", "wipe_rest")
  BY SMTT(30) DEF Carries, Moves, Ended, Special, Daemon, FirstRun, SetupSteps, Unmade, Making,
                  Loaded, Replacing, Steps, Locking, Operations
<1> QED
  BY Zenon, <1>1, <1>2, <1>3, <1>4, <1>5, <1>6

\* The steps of export, import and rotate.
LEMMA RecoveringMoves ==
    /\ Moves("export", "export_revision") /\ Carries("import", "import_store")
    /\ Carries("import_store", "import_revision") /\ Carries("import_revision", "ok")
    /\ Moves("rotate", "rotate_rekey") /\ Carries("rotate_rekey", "rotate_store")
    /\ Carries("rotate_store", "rotate_revision") /\ Carries("rotate_revision", "rotate_install")
    /\ Carries("rotate_install", "rotate_install_revision")
    /\ Carries("rotate_install_revision", "rotate_drop")
    /\ Carries("rotate_drop", "rotate_drop_revision")
    /\ Carries("rotate_drop_revision", "rotate_keychain")
<1>1. /\ Moves("export", "export_revision") /\ Carries("import", "import_store")
      /\ Carries("import_store", "import_revision") /\ Carries("import_revision", "ok")
  BY SMTT(30) DEF Carries, Moves, Ended, Special, Daemon, FirstRun, SetupSteps, Unmade, Making,
                  Loaded, Replacing, Steps, Locking, Operations
<1>2. /\ Moves("rotate", "rotate_rekey") /\ Carries("rotate_rekey", "rotate_store")
      /\ Carries("rotate_store", "rotate_revision") /\ Carries("rotate_revision", "rotate_install")
  BY SMTT(30) DEF Carries, Moves, Ended, Special, Daemon, FirstRun, SetupSteps, Unmade, Making,
                  Loaded, Replacing, Steps, Locking, Operations
<1>3. /\ Carries("rotate_install", "rotate_install_revision")
      /\ Carries("rotate_install_revision", "rotate_drop")
      /\ Carries("rotate_drop", "rotate_drop_revision") /\ Carries("rotate_drop_revision", "rotate_keychain")
  BY SMTT(30) DEF Carries, Moves, Ended, Special, Daemon, FirstRun, SetupSteps, Unmade, Making,
                  Loaded, Replacing, Steps, Locking, Operations
<1> QED
  BY Zenon, <1>1, <1>2, <1>3

\* The steps of serve.
LEMMA ServingMoves ==
    /\ Moves("recover", "recover_store") /\ Carries("recover", "open")
    /\ Carries("recover_store", "recover_revision") /\ Carries("recover_revision", "install_store")
    /\ Carries("install_store", "install_revision") /\ Carries("install_revision", "drop_old")
    /\ Carries("drop_old", "drop_pending") /\ Carries("drop_pending", "open")
    /\ Moves("open", "run") /\ Moves("run", "commit_marker") /\ Carries("commit_marker", "run")
    /\ Moves("run", "run") /\ Moves("run", "locked")
    /\ Moves("run", "wipe_marker") /\ Moves("run", "wipe_failed")
    /\ Moves("wipe_failed", "wipe_marker") /\ Moves("wipe_failed", "wipe_failed")
    /\ Carries("wipe_marker", "locked") /\ Carries("wipe_marker", "wipe_failed")
<1>1. /\ Moves("recover", "recover_store") /\ Carries("recover", "open")
      /\ Carries("recover_store", "recover_revision") /\ Carries("recover_revision", "install_store")
  BY SMTT(30) DEF Carries, Moves, Ended, Special, Daemon, FirstRun, SetupSteps, Unmade, Making,
                  Loaded, Replacing, Steps, Locking, Operations
<1>2. /\ Carries("install_store", "install_revision") /\ Carries("install_revision", "drop_old")
      /\ Carries("drop_old", "drop_pending") /\ Carries("drop_pending", "open")
  BY SMTT(30) DEF Carries, Moves, Ended, Special, Daemon, FirstRun, SetupSteps, Unmade, Making,
                  Loaded, Replacing, Steps, Locking, Operations
<1>3. /\ Moves("open", "run") /\ Moves("run", "commit_marker")
      /\ Carries("commit_marker", "run") /\ Moves("run", "run")
  BY SMTT(30) DEF Carries, Moves, Ended, Special, Daemon, FirstRun, SetupSteps, Unmade, Making,
                  Loaded, Replacing, Steps, Locking, Operations
<1>4. /\ Moves("run", "locked") /\ Moves("run", "wipe_marker")
      /\ Moves("run", "wipe_failed") /\ Moves("wipe_failed", "wipe_marker")
  BY SMTT(30) DEF Carries, Moves, Ended, Special, Daemon, FirstRun, SetupSteps, Unmade, Making,
                  Loaded, Replacing, Steps, Locking, Operations
<1>5. /\ Moves("wipe_failed", "wipe_failed") /\ Carries("wipe_marker", "locked")
      /\ Carries("wipe_marker", "wipe_failed")
  BY SMTT(30) DEF Carries, Moves, Ended, Special, Daemon, FirstRun, SetupSteps, Unmade, Making,
                  Loaded, Replacing, Steps, Locking, Operations
<1> QED
  BY Zenon, <1>1, <1>2, <1>3, <1>4, <1>5

\* What the invariant says of the shape of things.
LEMMA Shapes ==
    ASSUME LockInv
    PROVE  /\ DOMAIN disk = Paths /\ disk[LockFile] \in Lock \cup {NoFile} /\ raced \in BOOLEAN
           /\ \A p \in Pids : DOMAIN proc[p] = Fields
  BY Zenon DEF LockInv, Layout, Stands

\* The directory itself.
LEMMA Here ==
    ASSUME NEW A, Sound(A)
    PROVE  /\ Good(disk, A)
           /\ Exists(disk, StoreFile) => disk[StoreFile] \in Imgs(A)
           /\ Exists(disk, RevisionFile) => disk[RevisionFile] \in 0..MaxRevision
           /\ Exists(disk, ProfileIdFile) => disk[ProfileIdFile] \in Owner
           /\ Exists(disk, PendingFile) => disk[PendingFile] \in Arts(A)
<1>1. Good(disk, A)
  BY Zenon, Shapes DEF Sound, TypeInv, Good
<1>2. {StoreFile, RevisionFile, ProfileIdFile, PendingFile} \subseteq Paths
  BY SMTT(30), Files DEF Elsewhere
<1> QED
  BY Zenon, <1>1, <1>2, Kinds DEF Good, Fits, Exists

\* What the other variables hold when they do not change.
LEMMA OthersKept ==
    ASSUME NEW A, Sound(A), UNCHANGED others
    PROVE  Kept(A)
  BY SMTT(30) DEF Sound, TypeInv, Kept, Rest, others

\* A process that goes to the next step with what it has in memory.
LEMMA NextQuiet ==
    ASSUME NEW A, Sound(A), NEW p \in Pids, NEW from, At(p, from), NEW to, Carries(from, to),
           NEW r, r = [proc[p] EXCEPT !.at = to]
    PROVE  Quiet(p, r, A)
<1>1. DOMAIN proc[p] = Fields /\ Memory(proc[p], A)
  BY Zenon, Shapes DEF Sound, TypeInv
<1>2. /\ DOMAIN r = Fields /\ r.at = to /\ r.alive = proc[p].alive /\ r.holds = proc[p].holds
      /\ r.secret = proc[p].secret /\ r.out = proc[p].out /\ r.read = proc[p].read
      /\ r.servable = proc[p].servable /\ r.failed = proc[p].failed /\ r.image = proc[p].image
  BY SMTT(30), <1>1 DEF Fields, Fresh
<1>3. proc[p].alive = TRUE /\ proc[p].at = from
  BY Zenon DEF At, Sound, LockInv, Stands
<1> QED
  BY Zenon, <1>1, <1>2, <1>3 DEF Quiet, Memory, Carries, Moves

\* A process that goes to the next step with another image in memory.
LEMMA ImageQuiet ==
    ASSUME NEW A, Sound(A), NEW p \in Pids, NEW from, At(p, from), NEW to, Moves(from, to),
           NEW image \in Imgs(A) \cup Arts(A) \cup {NoFile},
           to \in Loaded => image \in Imgs(A), to \in Replacing => image \in Arts(A),
           NEW r, r = [proc[p] EXCEPT !.at = to, !.image = image]
    PROVE  Quiet(p, r, A)
<1>1. DOMAIN proc[p] = Fields /\ Memory(proc[p], A)
  BY Zenon, Shapes DEF Sound, TypeInv
<1>2. /\ DOMAIN r = Fields /\ r.at = to /\ r.alive = proc[p].alive /\ r.holds = proc[p].holds
      /\ r.secret = proc[p].secret /\ r.out = proc[p].out /\ r.read = proc[p].read
      /\ r.servable = proc[p].servable /\ r.failed = proc[p].failed /\ r.image = image
  BY SMTT(30), <1>1 DEF Fields, Fresh
<1>3. proc[p].alive = TRUE /\ proc[p].at = from
  BY Zenon DEF At, Sound, LockInv, Stands
<1> QED
  BY Zenon, <1>1, <1>2, <1>3 DEF Quiet, Memory, Moves

\* A process at a step that is not the end of its command runs.
LEMMA RunsAt ==
    ASSUME NEW p, NEW from, At(p, from), from \notin Ended
    PROVE  Runs(p)
  BY Zenon DEF At, Runs

\* A file operation on other files.
LEMMA FileOpHarmless ==
    ASSUME NEW A, NEW p \in Pids, Runs(p), Kept(A),
           NEW can \in BOOLEAN, NEW after, NEW r, NEW undone, FileOp(p, can, after, r, undone),
           can => Good(after, A) /\ Quiet(p, r, A), Good(undone, A)
    PROVE  Harmless(p, A)
  BY Zenon DEF FileOp, Harmless, Becomes

\* A file operation that moves a process from one step to the next.
LEMMA StepHarmless ==
    ASSUME NEW A, Sound(A), NEW p \in Pids, Kept(A), NEW from, NEW to, NEW can \in BOOLEAN,
           NEW after, NEW undone, Step(p, from, can, after, to, undone), Carries(from, to),
           can => Good(after, A), Good(undone, A)
    PROVE  Harmless(p, A)
<1>1. PICK r : r = [proc[p] EXCEPT !.at = to]
  BY Zenon
<1>2. At(p, from) /\ FileOp(p, can, after, r, undone)
  BY Zenon, <1>1 DEF Step
<1>3. Quiet(p, r, A) /\ Runs(p)
  BY Zenon, <1>1, <1>2, NextQuiet, RunsAt DEF Carries, Moves
<1> QED
  BY Zenon, <1>2, <1>3, FileOpHarmless

\* A file operation that is always possible.
LEMMA SureHarmless ==
    ASSUME NEW A, Sound(A), NEW p \in Pids, Kept(A), NEW from, NEW to, NEW after, NEW undone,
           Step(p, from, TRUE, after, to, undone), Carries(from, to),
           Good(after, A), Good(undone, A)
    PROVE  Harmless(p, A)
<1>1. PICK can \in BOOLEAN : can = TRUE
  BY Zenon
<1>2. Step(p, from, can, after, to, undone)
  BY Zenon, <1>1
<1> QED
  BY Zenon, <1>2, StepHarmless

\* A process goes to the next step of its command.
LEMMA GotoHarmless ==
    ASSUME NEW A, Sound(A), NEW p \in Pids, Kept(A), NEW from, At(p, from), NEW to, Goto(p, to),
           Carries(from, to), Good(disk', A)
    PROVE  Harmless(p, A)
<1>1. PICK r : r = [proc[p] EXCEPT !.at = to]
  BY Zenon
<1>2. Quiet(p, r, A) /\ Runs(p)
  BY Zenon, <1>1, NextQuiet, RunsAt DEF Carries, Moves
<1>3. proc' = [proc EXCEPT ![p] = r]
  BY Zenon, <1>1 DEF Goto, Becomes
<1> QED
  BY Zenon, <1>2, <1>3 DEF Harmless

\* A process goes to another step with another image.
LEMMA MoveHarmless ==
    ASSUME NEW A, Sound(A), NEW p \in Pids, Kept(A), NEW from, At(p, from),
           NEW r, Becomes(p, r), Quiet(p, r, A), Good(disk', A)
    PROVE  Harmless(p, A)
<1>1. Runs(p)
  BY Zenon DEF Quiet, Moves, At, Runs
<1> QED
  BY Zenon, <1>1 DEF Harmless, Becomes

\* A process answers.
LEMMA AnswersHarmless ==
    ASSUME NEW A, NEW p \in Pids, Kept(A), NEW from, At(p, from), from \notin Ended,
           NEW answer \in {"ok", "err"}, NEW failed \in BOOLEAN, NEW d, Good(d, A),
           Answers(p, answer, failed, d)
    PROVE  Harmless(p, A)
  BY Zenon, RunsAt DEF Harmless

\* A process refuses, or succeeds.
LEMMA EndsHarmless ==
    ASSUME NEW A, Sound(A), NEW p \in Pids, Kept(A), NEW from, At(p, from), from \notin Ended
    PROVE  /\ Refuses(p) => Harmless(p, A)
           /\ \A d : Good(d, A) /\ Succeeds(p, d) => Harmless(p, A)
           /\ Answers(p, "err", FALSE, disk) => Harmless(p, A)
<1>1. Good(disk, A)
  BY Zenon, Here
<1> QED
  BY Zenon, <1>1, AnswersHarmless DEF Refuses, Succeeds

\* An operation whose failure is ignored.
LEMMA TriesHarmless ==
    ASSUME NEW A, Sound(A), NEW p \in Pids, Kept(A), NEW from, NEW after, NEW to,
           Tries(p, from, after, to), Carries(from, to), Good(after, A)
    PROVE  Harmless(p, A)
<1>1. At(p, from) /\ Goto(p, to) /\ (disk' = after \/ disk' = disk)
  BY Zenon DEF Tries
<1>2. Good(disk', A)
  BY Zenon, <1>1, Here
<1> QED
  BY Zenon, <1>1, <1>2, GotoHarmless

\* The commands that open the store.
LEMMA OpensHarmless ==
    ASSUME NEW A, Sound(A), NEW p \in Pids, NEW from, NEW needsProfile \in BOOLEAN, NEW to,
           OpensStore(p, from, needsProfile, to), Moves(from, to), to \notin Replacing
    PROVE  Harmless(p, A)
<1>1. PICK r : r = [proc[p] EXCEPT !.at = to, !.image = disk[StoreFile]]
  BY Zenon
<1>2. PICK can \in BOOLEAN :
        can = (CanOpen(disk, proc[p].secret) /\ (needsProfile => disk[StoreFile].ready))
  BY Zenon
<1>3. PICK after : after = (IF can THEN Opened(disk) ELSE disk)
  BY Zenon
<1>4. At(p, from) /\ FileOp(p, can, after, r, disk) /\ UNCHANGED others
  BY Zenon, <1>1, <1>2, <1>3 DEF OpensStore
<1>5. Kept(A) /\ Runs(p) /\ Good(disk, A)
  BY Zenon, <1>4, OthersKept, RunsAt, Here DEF Moves
<1>6. ASSUME can PROVE Good(after, A) /\ Quiet(p, r, A)
  <2>1. disk[StoreFile] \in Imgs(A)
    BY Zenon, <1>2, <1>6, Here DEF CanOpen, Opens, Exists
  <2>2. Good(after, A)
    BY Zenon, <1>3, <1>5, <1>6, <2>1, GoodCommitted
  <2> QED
    BY Zenon, <1>1, <1>4, <2>1, <2>2, ImageQuiet
<1> QED
  BY Zenon, <1>4, <1>5, <1>6, FileOpHarmless

\* The store half of a commit.
LEMMA WritesHarmless ==
    ASSUME NEW A, Sound(A), NEW p \in Pids, NEW from, NEW image \in Imgs(A), NEW to,
           WritesStore(p, from, image, to), Moves(from, to), to \notin Replacing
    PROVE  Harmless(p, A)
<1>1. PICK r : r = [proc[p] EXCEPT !.at = to, !.image = image]
  BY Zenon
<1>2. PICK after : after = Write(disk, StoreFile, image)
  BY Zenon
<1>3. PICK can \in BOOLEAN : can = Exists(disk, StoreFile)
  BY Zenon DEF Exists
<1>4. At(p, from) /\ FileOp(p, can, after, r, disk) /\ UNCHANGED others
  BY Zenon, <1>1, <1>2, <1>3 DEF WritesStore
<1>5. Kept(A) /\ Runs(p) /\ Good(disk, A)
  BY Zenon, <1>4, OthersKept, RunsAt, Here DEF Moves
<1>6. Good(after, A) /\ Quiet(p, r, A)
  BY Zenon, <1>1, <1>2, <1>4, <1>5, Files, Kinds, Fitting, GoodWrite, ImageQuiet
<1> QED
  BY Zenon, <1>4, <1>5, <1>6, FileOpHarmless

\* The mover after its step.
LEMMA Moved ==
    ASSUME LockInv, NEW p \in Pids, NEW r, proc' = [proc EXCEPT ![p] = r]
    PROVE  DOMAIN proc' = Pids /\ proc'[p] = r /\ \A q \in Pids \ {p} : proc'[q] = proc[q]
<1>1. DOMAIN proc = Pids
  BY Zenon DEF LockInv, Layout
<1> QED
  BY SMTT(30), <1>1

\* The process named by a lock file.
LEMMA LockOwner ==
    ASSUME NEW l \in Lock
    PROVE  l.owner \in Pids
  BY SMTT(30) DEF Lock

\* One process moves: what is left to show is who owns the lock.
LEMMA OneMoves ==
    ASSUME LockInv, NEW p \in Pids, Runs(p) \/ proc[p].at = "new",
           limits' = limits, raced' \in BOOLEAN,
           NEW r, proc' = [proc EXCEPT ![p] = r], Stands(r, p), r.at # "new",
           r.alive /\ r.at \in {"break", "stop_break"} =>
               \E x \in Pids \ {p} : x = r.read /\ ~Runs(x) /\ proc[x].at # "new",
           DOMAIN disk' = Paths, disk'[LockFile] \in Lock \cup {NoFile},
           Exists(disk', LockFile) =>
               \/ disk'[LockFile].owner = p
               \/ Exists(disk, LockFile) /\ disk'[LockFile].owner = disk[LockFile].owner,
           Held'
    PROVE  LockInv'
<1>1. DOMAIN proc' = Pids /\ proc'[p] = r /\ \A q \in Pids \ {p} : proc'[q] = proc[q]
  BY Zenon, Moved
<1>2. Named'
  <2>1. SUFFICES ASSUME Exists(disk', LockFile), disk'[LockFile].owner # p
                 PROVE  proc'[disk'[LockFile].owner].at # "new"
    BY Zenon, <1>1 DEF Named
  <2>2. disk[LockFile] \in Lock /\ disk'[LockFile].owner = disk[LockFile].owner
    BY Zenon, <2>1 DEF LockInv, Layout, Exists
  <2>3. disk[LockFile].owner \in Pids /\ proc[disk[LockFile].owner].at # "new"
    BY Zenon, <2>1, <2>2, LockOwner DEF LockInv, Named
  <2> QED
    BY Zenon, <1>1, <2>1, <2>2, <2>3
<1>3. ASSUME NEW q \in Pids, proc'[q].alive, proc'[q].at \in {"break", "stop_break"}
      PROVE  ReadGone(q)'
  <2>1. PICK x \in Pids \ {p} : x = proc'[q].read /\ ~Runs(x) /\ proc[x].at # "new"
    <3>1. CASE q = p
      BY Zenon, <1>1, <1>3, <3>1
    <3>2. CASE q # p
      <4>1. proc'[q] = proc[q]
        BY Zenon, <1>1, <3>2
      <4>2. ReadGone(q)
        BY Zenon, <1>3, <4>1 DEF LockInv, Finds
      <4> QED
        BY Zenon, <4>1, <4>2 DEF ReadGone
    <3> QED
      BY Zenon, <3>1, <3>2
  <2> QED
    BY Zenon, <1>1, <2>1 DEF Runs, ReadGone
<1>4. \A q \in Pids : Stands(proc'[q], q)
  BY Zenon, <1>1 DEF LockInv
<1>5. \A q : Stands(proc[q], q)' <=> Stands(proc'[q], q)
  BY Zenon DEF Stands, Holding, IsSetup
<1>6. Layout'
  BY Zenon, <1>1 DEF LockInv, Layout
<1> QED
  BY Zenon, <1>2, <1>3, <1>4, <1>5, <1>6 DEF LockInv, Finds

\* A process that neither gets nor makes the lock does not change who owns it.
LEMMA HeldKept ==
    ASSUME LockInv, NEW p \in Pids, NEW r, proc' = [proc EXCEPT ![p] = r],
           disk'[LockFile] = disk[LockFile], raced' = raced,
           r.alive => r.at # "write_pid" /\ (r.holds => proc[p].alive /\ proc[p].holds)
    PROVE  Held'
<1>1. proc'[p] = r /\ \A q \in Pids \ {p} : proc'[q] = proc[q]
  BY Zenon, Moved
<1>2. ASSUME NEW q \in Pids, ~raced', proc'[q].alive, proc'[q].holds \/ proc'[q].at = "write_pid"
      PROVE  Owns(q)'
  <2>1. Owns(q)
    BY Zenon, <1>1, <1>2 DEF LockInv, Held
  <2> QED
    BY Zenon, <2>1 DEF Owns, Exists
<1> QED
  BY Zenon, <1>2 DEF Held

\* A process that had the lock removes it: nobody else owned it.
LEMMA ReleaseStep ==
    ASSUME LockInv, NEW p \in Pids, Runs(p), raced' = raced, limits' = limits,
           NEW r, DOMAIN r = Fields, r.alive = TRUE, r.holds = FALSE, r.at \in {"ok", "err"},
           proc' = [proc EXCEPT ![p] = r],
           \/ disk'[LockFile] = disk[LockFile]
           \/ disk'[LockFile] = NoFile /\ proc[p].holds,
           DOMAIN disk' = Paths
    PROVE  LockInv'
<1>1. Held'
  <2>1. CASE disk'[LockFile] = disk[LockFile]
    BY Zenon, <2>1, HeldKept
  <2>2. CASE proc[p].holds
    <3>1. proc'[p] = r /\ \A q \in Pids \ {p} : proc'[q] = proc[q]
      BY Zenon, Moved
    <3>2. ASSUME NEW q \in Pids, ~raced', proc'[q].alive,
                 proc'[q].holds \/ proc'[q].at = "write_pid"
          PROVE  FALSE
      <4>1. q # p /\ Owns(q) /\ Owns(p)
        BY Zenon, <2>2, <3>1, <3>2 DEF LockInv, Held, Runs
      <4> QED
        BY Zenon, <4>1 DEF Owns
    <3> QED
      BY Zenon, <3>2 DEF Held
  <2> QED
    BY Zenon, <2>1, <2>2
<1>2. /\ raced' \in BOOLEAN /\ disk'[LockFile] \in Lock \cup {NoFile}
      /\ Exists(disk', LockFile) =>
             Exists(disk, LockFile) /\ disk'[LockFile].owner = disk[LockFile].owner
  BY Zenon DEF LockInv, Layout, Exists
<1>3. Stands(r, p)
  BY Zenon DEF Stands, SetupSteps
<1> QED
  BY Zenon, <1>1, <1>2, <1>3, OneMoves

\* A process that goes on without touching the lock keeps the invariant; so
\* does the setup daemon that answers an error and keeps its lock.
LEMMA QuietStep ==
    ASSUME LockInv, NEW p \in Pids, Runs(p), raced' = raced, limits' = limits,
           NEW r, proc' = [proc EXCEPT ![p] = r],
           DOMAIN disk' = Paths, disk'[LockFile] = disk[LockFile],
           NEW A,
           Quiet(p, r, A) \/ /\ DOMAIN r = Fields /\ r.alive = TRUE /\ r.at = "setup_run"
                             /\ r.holds = TRUE /\ proc[p].holds /\ IsSetup(p)
    PROVE  LockInv'
<1>1. /\ r.holds => proc[p].alive /\ proc[p].holds
      /\ r.at \notin {"new", "write_pid", "break", "stop_break"}
  BY Zenon DEF Quiet, Moves, Special, Runs
<1>2. Stands(proc[p], p)
  BY Zenon DEF LockInv
<1>3. Stands(r, p)
  <2>1. CASE Quiet(p, r, A)
    BY Zenon, <1>2, <2>1 DEF Quiet, Moves, Special, Stands, Holding
  <2>2. CASE ~Quiet(p, r, A)
    BY Zenon, <2>2 DEF Stands, Holding, FirstRun, SetupSteps, Unmade
  <2> QED
    BY Zenon, <2>1, <2>2
<1>4. raced' \in BOOLEAN /\ disk'[LockFile] \in Lock \cup {NoFile}
  BY Zenon DEF LockInv, Layout
<1>5. Held'
  BY Zenon, <1>1, HeldKept
<1> QED
  BY Zenon, <1>1, <1>3, <1>4, <1>5, OneMoves DEF Exists

\* One process moves, and the files fit.
LEMMA OneTyped ==
    ASSUME NEW F, NEW A, LockInv, TypeInv(F, A), NEW p \in Pids,
           NEW r, proc' = [proc EXCEPT ![p] = r], Memory(r, A),
           \A f \in F : Fits(f, disk'[f], A), Rest(A)'
    PROVE  TypeInv(F, A)'
<1>1. \A q \in Pids : Memory(proc'[q], A)
  BY Zenon, Moved DEF TypeInv
<1>2. \A q : Memory(proc[q], A)' <=> Memory(proc'[q], A)
  BY Zenon DEF Memory
<1>3. \A f : Fits(f, disk[f], A)' <=> Fits(f, disk'[f], A)
  BY Zenon DEF Fits
<1> QED
  BY Zenon, <1>1, <1>2, <1>3 DEF TypeInv

\* A process that has answered has nothing in memory.
Blank(r) ==
    /\ r.at \in {"ok", "err", "setup_run"} /\ r.secret = 0 /\ r.image = NoFile /\ r.read = 0
    /\ r.out \in BOOLEAN /\ r.servable \in BOOLEAN /\ r.failed \in BOOLEAN

\* Nothing is of every type.
LEMMA BlankMemory ==
    ASSUME NEW A, NEW r, Blank(r)
    PROVE  Memory(r, A)
<1>1. r.at \in Steps /\ r.at \notin Loaded /\ r.at \notin Replacing
  BY SMTT(30) DEF Blank, Steps, Ended, Locking, Loaded, Replacing
<1> QED
  BY Zenon, <1>1 DEF Blank, Memory, Owner

\* What an answer leaves of the memory of the process, and of the directory.
Left(r, p, answer, failed, d, A) ==
    /\ proc' = [proc EXCEPT ![p] = r] /\ DOMAIN r = Fields /\ r.alive = TRUE
    /\ Memory(r, A) /\ r.failed = (proc[p].failed \/ failed)
    /\ DOMAIN disk' = Paths /\ \A f \in Paths \ {LockFile} : disk'[f] = d[f]
    /\ \/ /\ r.at = "setup_run" /\ r.holds = TRUE /\ proc[p].holds /\ IsSetup(p)
          /\ answer = "err" /\ disk'[LockFile] = d[LockFile]
       \/ /\ r.at = answer /\ r.holds = FALSE
          /\ ~(IsSetup(p) /\ proc[p].holds /\ answer = "err")
          /\ \/ disk'[LockFile] = d[LockFile]
             \/ disk'[LockFile] = NoFile /\ proc[p].holds

\* The flag of the answer.
LEMMA AnswerFails ==
    ASSUME NEW at, NEW x, NEW failed
    PROVE  /\ [Fresh EXCEPT !.at = at, !.holds = x, !.failed = failed].failed = failed
           /\ [Fresh EXCEPT !.at = at, !.servable = x, !.failed = failed].failed = failed
  BY SMTT(30) DEF Fresh

\* Every answer does.
LEMMA AnswerLeaves ==
    ASSUME NEW A, NEW p \in Pids, Memory(proc[p], A), NEW answer \in {"ok", "err"},
           NEW failed \in BOOLEAN, NEW d, DOMAIN d = Paths, Answers(p, answer, failed, d)
    PROVE  \E r : Left(r, p, answer, failed, d, A)
<1>0. proc[p].failed \in BOOLEAN /\ proc[p].servable \in BOOLEAN
  BY Zenon DEF Memory
<1>2. CASE IsSetup(p) /\ proc[p].holds /\ answer = "err"
  <2>0. PICK r : /\ r = [Fresh EXCEPT !.at = "setup_run", !.holds = TRUE,
                                      !.failed = proc[p].failed \/ failed]
                 /\ proc' = [proc EXCEPT ![p] = r] /\ disk' = d
    BY Zenon, <1>2 DEF Answers, Becomes
  <2>1. r.failed = (proc[p].failed \/ failed)
    BY ZenonT(60), <2>0, AnswerFails
  <2>2. /\ DOMAIN r = Fields /\ r.alive = TRUE /\ r.at = "setup_run" /\ r.holds = TRUE
        /\ r.secret = 0 /\ r.out \in BOOLEAN /\ r.image = NoFile /\ r.read = 0
        /\ r.servable \in BOOLEAN
    BY SMTT(30), <2>0 DEF Fields, Fresh
  <2>3. Memory(r, A)
    <3>1. r.failed \in BOOLEAN
      BY SMTT(30), <1>0, <2>1
    <3>2. r.at \in {"ok", "err", "setup_run"}
      BY Zenon, <2>2
    <3>3. Blank(r)
      BY Zenon, <2>2, <3>1, <3>2 DEF Blank
    <3> QED
      BY Zenon, <3>3, BlankMemory
  <2> QED
    BY Zenon, <1>2, <2>0, <2>1, <2>2, <2>3 DEF Left
<1>3. CASE ~(IsSetup(p) /\ proc[p].holds /\ answer = "err")
  <2>0. PICK r : /\ r = [Fresh EXCEPT !.at = answer, !.servable = proc[p].servable,
                                      !.failed = proc[p].failed \/ failed]
                 /\ proc' = [proc EXCEPT ![p] = r]
                 /\ disk' = IF proc[p].holds THEN Remove(d, {LockFile}) ELSE d
    BY Zenon, <1>3 DEF Answers, Becomes
  <2>1. r.failed = (proc[p].failed \/ failed)
    BY ZenonT(60), <2>0, AnswerFails
  <2>2. /\ DOMAIN r = Fields /\ r.alive = TRUE /\ r.at = answer /\ r.holds = FALSE
        /\ r.secret = 0 /\ r.out \in BOOLEAN /\ r.image = NoFile /\ r.read = 0
        /\ r.servable \in BOOLEAN
    BY SMTT(30), <1>0, <2>0 DEF Fields, Fresh
  <2>3. Memory(r, A)
    <3>1. r.failed \in BOOLEAN
      BY SMTT(30), <1>0, <2>1
    <3>2. r.at \in {"ok", "err", "setup_run"}
      BY Zenon, <2>2
    <3>3. Blank(r)
      BY Zenon, <2>2, <3>1, <3>2 DEF Blank
    <3> QED
      BY Zenon, <3>3, BlankMemory
  <2>4. /\ DOMAIN disk' = Paths /\ \A f \in Paths \ {LockFile} : disk'[f] = d[f]
        /\ \/ disk'[LockFile] = d[LockFile]
           \/ disk'[LockFile] = NoFile /\ proc[p].holds
    BY SMTT(30), <2>0, Files DEF Remove
  <2> QED
    BY Zenon, <1>3, <2>0, <2>1, <2>2, <2>3, <2>4 DEF Left
<1> QED
  BY Zenon, <1>2, <1>3

\* Steps that do not concern the lock keep both invariants.
LEMMA HarmlessStep ==
    ASSUME NEW A, Sound(A), NEW p \in Pids, Harmless(p, A)
    PROVE  LockInv' /\ TypeInv(Paths, A)'
<1>0. Runs(p) /\ raced' = raced /\ limits' = limits /\ Rest(A)' /\ LockInv /\ TypeInv(Paths, A)
  BY Zenon DEF Harmless, Kept, Sound
<1>1. PICK d : /\ Good(d, A)
               /\ \/ \E r : Quiet(p, r, A) /\ proc' = [proc EXCEPT ![p] = r] /\ disk' = d
                  \/ \E answer \in {"ok", "err"} : \E failed \in BOOLEAN :
                         Answers(p, answer, failed, d)
  BY Zenon DEF Harmless
<1>2. ASSUME NEW r, Quiet(p, r, A), proc' = [proc EXCEPT ![p] = r], disk' = d
      PROVE  LockInv' /\ TypeInv(Paths, A)'
  <2>1. LockInv'
    BY Zenon, <1>0, <1>1, <1>2, QuietStep DEF Good
  <2>2. Memory(r, A) /\ \A f \in Paths : Fits(f, disk'[f], A)
    BY Zenon, <1>1, <1>2 DEF Good, Quiet
  <2> QED
    BY Zenon, <1>0, <1>2, <2>1, <2>2, OneTyped
<1>3. ASSUME NEW answer \in {"ok", "err"}, NEW failed \in BOOLEAN, Answers(p, answer, failed, d)
      PROVE  LockInv' /\ TypeInv(Paths, A)'
  <2>0. PICK r : Left(r, p, answer, failed, d, A)
    <3>1. DOMAIN d = Paths /\ Memory(proc[p], A)
      BY Zenon, <1>0, <1>1 DEF Good, TypeInv
    <3> QED
      BY Zenon, <1>3, <3>1, AnswerLeaves
  <2>1. /\ proc' = [proc EXCEPT ![p] = r] /\ DOMAIN r = Fields /\ r.alive = TRUE
        /\ Memory(r, A)
        /\ DOMAIN disk' = Paths /\ \A f \in Paths \ {LockFile} : disk'[f] = d[f]
        /\ \/ /\ r.at = "setup_run" /\ r.holds = TRUE /\ proc[p].holds /\ IsSetup(p)
              /\ disk'[LockFile] = d[LockFile]
           \/ /\ r.at \in {"ok", "err"} /\ r.holds = FALSE
              /\ \/ disk'[LockFile] = d[LockFile]
                 \/ disk'[LockFile] = NoFile /\ proc[p].holds
    BY Zenon, <2>0 DEF Left
  <2>2. d[LockFile] = disk[LockFile] /\ \A f \in Paths : Fits(f, d[f], A)
    BY Zenon, <1>1 DEF Good
  <2>3. LockInv'
    <3>1. CASE r.at = "setup_run" /\ r.holds = TRUE
      BY Zenon, <1>0, <2>1, <2>2, <3>1, QuietStep
    <3>2. CASE r.at \in {"ok", "err"} /\ r.holds = FALSE
      <4>1. \/ disk'[LockFile] = disk[LockFile]
            \/ disk'[LockFile] = NoFile /\ proc[p].holds
        BY Zenon, <2>1, <2>2
      <4> QED
        BY Zenon, <1>0, <2>1, <3>2, <4>1, ReleaseStep
    <3> QED
      BY Zenon, <2>1, <3>1, <3>2
  <2>4. \A f \in Paths : Fits(f, disk'[f], A)
    BY Zenon, <2>1, <2>2, Fitting
  <2> QED
    BY Zenon, <1>0, <2>1, <2>3, <2>4, OneTyped
<1> QED
  BY Zenon, <1>1, <1>2, <1>3

\* A store with another revision, passphrase, state, record or write is one of the
\* account.
LEMMA Updates ==
    ASSUME NEW A, NEW i \in Imgs(A)
    PROVE  /\ \A v \in 0..MaxRevision : /\ [i EXCEPT !.revision = v] \in Imgs(A)
                                        /\ [i EXCEPT !.revision = v].revision = v
           /\ \A s \in Owner : [i EXCEPT !.secret = s] \in Imgs(A)
           /\ \A b \in BOOLEAN : [i EXCEPT !.ready = b] \in Imgs(A)
           /\ \A b \in BOOLEAN : [i EXCEPT !.active = @ /\ b] \in Imgs(A)
           /\ \A b \in BOOLEAN : [i EXCEPT !.restorable = b] \in Imgs(A)
           /\ \A w \in SUBSET Pids : [i EXCEPT !.writes = w] \in Imgs(A)
<1>0. i \in Image /\ i.account \in A
  BY Zenon DEF Imgs
<1>1. ASSUME NEW v \in 0..MaxRevision
      PROVE  [i EXCEPT !.revision = v] \in Imgs(A) /\ [i EXCEPT !.revision = v].revision = v
  BY SMTT(30), <1>0 DEF Imgs, Image
<1>2. ASSUME NEW s \in Owner PROVE [i EXCEPT !.secret = s] \in Imgs(A)
  BY SMTT(30), <1>0 DEF Imgs, Image
<1>3. ASSUME NEW b \in BOOLEAN PROVE [i EXCEPT !.ready = b] \in Imgs(A)
  BY SMTT(30), <1>0 DEF Imgs, Image
<1>4. ASSUME NEW b \in BOOLEAN PROVE [i EXCEPT !.active = @ /\ b] \in Imgs(A)
  BY SMTT(30), <1>0 DEF Imgs, Image
<1>5. ASSUME NEW w \in SUBSET Pids PROVE [i EXCEPT !.writes = w] \in Imgs(A)
  BY SMTT(30), <1>0 DEF Imgs, Image
<1>6. ASSUME NEW b \in BOOLEAN PROVE [i EXCEPT !.restorable = b] \in Imgs(A)
  BY SMTT(30), <1>0 DEF Imgs, Image
<1> QED
  BY Zenon, <1>1, <1>2, <1>3, <1>4, <1>5, <1>6

\* The stores init and link-complete make are of the account they name.
LEMMA NewForms ==
    ASSUME NEW A, A \subseteq Owner, NEW p \in A
    PROVE  /\ New(p, p) \in Imgs(A) /\ Identified(p) \in Imgs(A) /\ Registered(p) \in Imgs(A)
           /\ [Identified(p) EXCEPT !.ready = TRUE] \in Imgs(A)
<1>0. /\ p \in Owner /\ 0 \in 0..MaxRevision /\ 1 \in 0..MaxRevision /\ 2 \in 0..MaxRevision
      /\ 0 + 1 = 1 /\ 1 + 1 = 2
  BY SMTT(30), ProfileFilesAssumption
<1>1. PICK n : n = New(p, p)
  BY Zenon
<1>2. n \in Imgs(A) /\ n.revision = 0
  BY SMTT(30), <1>0, <1>1 DEF Imgs, Image, New
<1>3. PICK j : j = [n EXCEPT !.revision = 1]
  BY Zenon
<1>4. j \in Imgs(A) /\ j.revision = 1
  <2>1. \A v \in 0..MaxRevision : /\ [n EXCEPT !.revision = v] \in Imgs(A)
                                  /\ [n EXCEPT !.revision = v].revision = v
    BY Zenon, <1>2, Updates
  <2> QED
    BY Zenon, <1>0, <1>3, <2>1
<1>5. Identified(p) = j
  BY Zenon, <1>0, <1>1, <1>2, <1>3 DEF Identified, Advanced
<1>6. PICK k : k = [j EXCEPT !.revision = 2]
  BY Zenon
<1>7. k \in Imgs(A)
  BY Zenon, <1>0, <1>4, <1>6, Updates
<1>8. Registered(p) = [k EXCEPT !.ready = TRUE]
  <2>1. Advanced(Identified(p)) = k
    BY Zenon, <1>0, <1>4, <1>5, <1>6 DEF Advanced
  <2> QED
    BY Zenon, <2>1 DEF Registered
<1>9. ASSUME NEW i \in Imgs(A) PROVE [i EXCEPT !.ready = TRUE] \in Imgs(A)
  <2>1. \A b \in BOOLEAN : [i EXCEPT !.ready = b] \in Imgs(A)
    BY Zenon, Updates
  <2> QED
    BY Zenon, <2>1
<1> QED
  BY Zenon, <1>1, <1>2, <1>4, <1>5, <1>7, <1>8, <1>9

\* Images that the commands make, and the parts of artifacts.
LEMMA ImageForms ==
    ASSUME NEW A, A \subseteq Owner, NEW p \in Pids
    PROVE  /\ p \in A => /\ New(p, p) \in Imgs(A) /\ Identified(p) \in Imgs(A)
                         /\ Registered(p) \in Imgs(A)
                         /\ [Identified(p) EXCEPT !.ready = TRUE] \in Imgs(A)
           /\ \A i \in Imgs(A) :
                /\ i.account \in Owner /\ i.writes \in SUBSET Pids /\ i.revision \in 0..MaxRevision
                /\ Rekeyed(i, p) \in Imgs(A)
                /\ Advanced(i).revision <= MaxRevision => Advanced(i) \in Imgs(A)
                /\ Written(i, p).revision <= MaxRevision => Written(i, p) \in Imgs(A)
           /\ \A a \in Arts(A) : a.store \in Imgs(A) /\ a.revision \in 0..MaxRevision
           /\ \A i \in Imgs(A) : \A v \in 0..MaxRevision : [store |-> i, revision |-> v] \in Arts(A)
<1>0. /\ p \in Owner /\ 0 \in 0..MaxRevision /\ 1 \in 0..MaxRevision /\ 2 \in 0..MaxRevision
      /\ 0 + 1 = 1 /\ 1 + 1 = 2
  BY SMTT(30), ProfileFilesAssumption DEF Owner
<1>1. ASSUME p \in A
      PROVE  /\ New(p, p) \in Imgs(A) /\ Identified(p) \in Imgs(A) /\ Registered(p) \in Imgs(A)
             /\ [Identified(p) EXCEPT !.ready = TRUE] \in Imgs(A)
  BY Zenon, <1>1, NewForms
<1>2. ASSUME NEW i \in Imgs(A)
      PROVE  /\ i.account \in Owner /\ i.writes \in SUBSET Pids /\ i.revision \in 0..MaxRevision
             /\ Rekeyed(i, p) \in Imgs(A)
             /\ Advanced(i).revision <= MaxRevision => Advanced(i) \in Imgs(A)
             /\ Written(i, p).revision <= MaxRevision => Written(i, p) \in Imgs(A)
  <2>1. i.account \in Owner /\ i.writes \in SUBSET Pids /\ i.revision \in 0..MaxRevision
    BY SMTT(30) DEF Imgs, Image
  <2>2. Rekeyed(i, p) \in Imgs(A)
    <3>1. PICK j : j = [i EXCEPT !.secret = p]
      BY Zenon
    <3>2. j \in Imgs(A)
      BY Zenon, <1>0, <3>1, Updates
    <3>3. Rekeyed(i, p) = [j EXCEPT !.revision = 1]
      BY SMTT(30), <3>1 DEF Rekeyed, Imgs, Image
    <3>4. [j EXCEPT !.revision = 1] \in Imgs(A)
      BY Zenon, <1>0, <3>2, Updates
    <3> QED
      BY SMTT(30), <3>3, <3>4
  <2>3. PICK v : v = i.revision + 1
    BY Zenon
  <2>4. PICK j : j = [i EXCEPT !.revision = v]
    BY Zenon
  <2>5. Advanced(i) = j
    BY Zenon, <2>3, <2>4 DEF Advanced
  <2>6. j.revision <= MaxRevision => j \in Imgs(A)
    <3>1. j.revision = v
      BY SMTT(30), <2>4 DEF Imgs, Image
    <3>2. v <= MaxRevision => v \in 0..MaxRevision
      BY SMTT(30), <2>1, <2>3, ProfileFilesAssumption
    <3> QED
      BY Zenon, <2>4, <3>1, <3>2, Updates
  <2>7. PICK w : w = j.writes \cup {p}
    BY Zenon
  <2>8. Written(i, p) = [j EXCEPT !.writes = w]
    BY Zenon, <2>5, <2>7 DEF Written
  <2>9. j.writes = i.writes /\ [j EXCEPT !.writes = w].revision = j.revision
    BY SMTT(30), <2>4 DEF Imgs, Image
  <2>10. w \in SUBSET Pids
    BY SMTT(30), <2>1, <2>7, <2>9
  <2>11. j \in Imgs(A) => [j EXCEPT !.writes = w] \in Imgs(A)
    BY Zenon, <2>10, Updates
  <2>12. Written(i, p).revision = j.revision
    BY Zenon, <2>8, <2>9
  <2> QED
    BY Zenon, <2>1, <2>2, <2>5, <2>6, <2>8, <2>11, <2>12
<1>3. ASSUME NEW a \in Arts(A) PROVE a.store \in Imgs(A) /\ a.revision \in 0..MaxRevision
  BY SMTT(30) DEF Arts, Artifact, Imgs
<1>4. ASSUME NEW i \in Imgs(A), NEW v \in 0..MaxRevision
      PROVE  [store |-> i, revision |-> v] \in Arts(A)
  BY SMTT(30) DEF Arts, Artifact, Imgs
<1> QED
  BY Zenon, <1>1, <1>2, <1>3, <1>4

\* The other variables hold what they may after each of the changes the
\* commands make.
LEMMA RestKept ==
    ASSUME NEW A, Sound(A), raced' = raced, limits' = limits,
           \/ keychain' = keychain
           \/ \E a \in Owner : \E s \in Owner \cup {NoFile} :
                  keychain' = [keychain EXCEPT ![a] = s],
           known' = known \/ known' \subseteq known \/ \E s \in Owner : known' = known \cup {s},
           backups' = backups \/ \E b \in Arts(A) : backups' = backups \cup {b},
           \/ promised' = promised
           \/ \E a \in Owner \cup {NoFile} : \E w \in SUBSET Pids :
                  promised' = [account |-> a, writes |-> w]
    PROVE  Kept(A)
<1>0. Rest(A)
  BY Zenon DEF Sound, TypeInv
<1>1. keychain' \in [Owner -> Owner \cup {NoFile}]
  BY SMTT(30), <1>0 DEF Rest
<1>2. known' \subseteq Owner /\ backups' \subseteq Arts(A)
  BY SMTT(30), <1>0 DEF Rest
<1>3. promised' \in [account : Owner \cup {NoFile}, writes : SUBSET Pids]
  BY SMTT(30), <1>0 DEF Rest
<1>4. Rest(A)'
  BY Zenon, <1>1, <1>2, <1>3 DEF Rest
<1> QED
  BY Zenon, <1>4 DEF Kept

\* The write of a process is acknowledged.
LEMMA PromisesKept ==
    ASSUME NEW A, Sound(A), NEW p \in Pids, Promises(p),
           UNCHANGED <<keychain, known, backups, raced, limits>>
    PROVE  Kept(A)
<1>0. promised \in [account : Owner \cup {NoFile}, writes : SUBSET Pids]
  BY Zenon DEF Sound, TypeInv, Rest
<1>1. \/ promised' = promised
      \/ promised' = [account |-> promised.account, writes |-> promised.writes \cup {p}]
  BY SMTT(30), <1>0 DEF Promises
<1>2. promised.account \in Owner \cup {NoFile} /\ promised.writes \cup {p} \in SUBSET Pids
  BY SMTT(30), <1>0
<1> QED
  BY Zenon, <1>1, <1>2, RestKept

\* A new promise.
LEMMA PromisedKept ==
    ASSUME NEW A, Sound(A), NEW a \in Owner \cup {NoFile}, NEW w \in SUBSET Pids,
           promised' = promised \/ promised' = [account |-> a, writes |-> w],
           UNCHANGED <<keychain, known, backups, raced, limits>>
    PROVE  Kept(A)
  BY Zenon, RestKept

\* What a process has in memory.
LEMMA InMemory ==
    ASSUME NEW A, Sound(A), NEW p \in Pids, NEW from, At(p, from)
    PROVE  /\ proc[p].secret \in Owner
           /\ from \in Loaded => proc[p].image \in Imgs(A)
           /\ from \in Replacing => proc[p].image \in Arts(A)
<1>1. Memory(proc[p], A)
  BY Zenon DEF Sound, TypeInv
<1> QED
  BY Zenon, <1>1 DEF Memory, At

\* The steps that have an open store in memory.
LEMMA LoadedSteps ==
    /\ {"revoke_put", "revoke_marker", "enroll_id", "enroll_save", "rotate_rekey",
        "export_revision", "run", "commit_marker"} \subseteq Loaded
    /\ {"recover_store", "install_store", "install_revision", "drop_old"} \subseteq Replacing
    /\ {"revoke_put", "revoke_marker", "enroll_id", "wipe_keychain", "rotate_rekey",
        "export_revision", "run", "commit_marker", "locked", "wipe_marker",
        "wipe_failed"} \cap Replacing = {}
    /\ {"recover_store", "locked", "wipe_marker", "wipe_failed"} \cap Loaded = {}
    /\ {"setup", "setup_run", "setup_undo", "init_keychain", "init_out", "revoke_marker",
        "enroll_save", "wipe_keychain", "wipe_rest", "export", "export_revision", "import",
        "rotate_keychain", "recover", "open", "run", "locked", "wipe_failed"} \cap Ended = {}
  BY SMTT(30) DEF Loaded, Replacing, Ended

\* revoke, enroll and wipe never touch the instance lock.
LEMMA ChangingHarmless ==
    ASSUME NEW A, Sound(A), NEW p \in Pids, Changing(p)
    PROVE  Harmless(p, A)
<1> USE ChangingMoves, LoadedSteps
<1>h. Good(disk, A) /\ A \subseteq Owner
  BY Zenon, Here DEF Sound
<1>1. ASSUME Revoke(p) \/ Enroll(p) \/ Wipe(p) PROVE Harmless(p, A)
  BY Zenon, <1>1, OpensHarmless DEF Revoke, Enroll, Wipe
<1>2. ASSUME RevokePuts(p) PROVE Harmless(p, A)
  <2>1. PICK active \in BOOLEAN :
          WritesStore(p, "revoke_put",
                      [Written(proc[p].image, p) EXCEPT !.active = @ /\ active], "revoke_marker")
    BY Zenon, <1>2 DEF RevokePuts
  <2>2. PICK image : image = [Written(proc[p].image, p) EXCEPT !.active = @ /\ active]
    BY Zenon
  <2>3. WritesStore(p, "revoke_put", image, "revoke_marker")
    BY Zenon, <2>1, <2>2
  <2>4. At(p, "revoke_put") /\ image.revision <= MaxRevision
    BY Zenon, <2>3 DEF WritesStore
  <2>5. proc[p].image \in Imgs(A)
    BY Zenon, <2>4, InMemory
  <2>6. image \in Imgs(A)
    <3>1. PICK j : j = Written(proc[p].image, p)
      BY Zenon
    <3>2. image = [j EXCEPT !.active = @ /\ active]
      BY Zenon, <2>2, <3>1
    <3>3. DOMAIN j = DOMAIN proc[p].image /\ DOMAIN proc[p].image = DOMAIN New(p, p)
      BY SMTT(30), <2>5, <3>1 DEF Written, Advanced, Imgs, Image, New
    <3>4. j.revision = image.revision
      BY SMTT(30), <3>2, <3>3 DEF New
    <3> QED
      BY Zenon, <1>h, <2>4, <2>5, <3>1, <3>2, <3>4, ImageForms, Updates
  <2> QED
    BY Zenon, <2>3, <2>6, WritesHarmless
<1>3. ASSUME RevokeEnds(p) PROVE Harmless(p, A)
  <2>1. /\ At(p, "revoke_marker") /\ Succeeds(p, WithMarker(p)) /\ Promises(p)
        /\ UNCHANGED <<keychain, known, backups, raced, limits>>
    BY Zenon, <1>3 DEF RevokeEnds
  <2>2. proc[p].image.revision \in 0..MaxRevision
    BY Zenon, <1>h, <2>1, InMemory, ImageForms
  <2>3. Good(WithMarker(p), A)
    BY Zenon, <1>h, <2>2, Files, Kinds, Fitting, GoodWrite DEF WithMarker
  <2>4. Kept(A)
    BY Zenon, <2>1, PromisesKept
  <2> QED
    BY Zenon, <2>1, <2>3, <2>4, EndsHarmless
<1>4. ASSUME EnrollWritesId(p) PROVE Harmless(p, A)
  <2>1. PICK d : d = Write(disk, ProfileIdFile, proc[p].image.account)
    BY Zenon
  <2>2. Step(p, "enroll_id", TRUE, d, "enroll_save", disk) /\ UNCHANGED others
    BY Zenon, <1>4, <2>1 DEF EnrollWritesId
  <2>3. At(p, "enroll_id") /\ Kept(A)
    BY Zenon, <2>2, OthersKept DEF Step
  <2>4. proc[p].image.account \in Owner
    BY Zenon, <1>h, <2>3, InMemory, ImageForms
  <2>5. Good(d, A)
    BY Zenon, <1>h, <2>1, <2>4, Files, Fitting, GoodWrite
  <2> QED
    BY Zenon, <1>h, <2>2, <2>3, <2>5, SureHarmless
<1>5. ASSUME EnrollSaves(p) PROVE Harmless(p, A)
  <2>1. /\ At(p, "enroll_save")
        /\ UNCHANGED <<known, backups, promised, raced, limits>>
        /\ \/ keychain' = keychain
           \/ keychain' = [keychain EXCEPT ![proc[p].image.account] = proc[p].secret]
    BY Zenon, <1>5 DEF EnrollSaves
  <2>2. proc[p].image.account \in Owner /\ proc[p].secret \in Owner
    BY Zenon, <1>h, <2>1, InMemory, ImageForms
  <2>3. Kept(A)
    BY Zenon, <2>1, <2>2, RestKept
  <2>4. CASE Goto(p, "enroll_mark") /\ disk' = disk
    BY Zenon, <1>h, <2>1, <2>3, <2>4, GotoHarmless
  <2>5. CASE Answers(p, "err", FALSE, disk)
    BY Zenon, <2>1, <2>3, <2>5, EndsHarmless
  <2> QED
    BY Zenon, <1>5, <2>4, <2>5 DEF EnrollSaves
<1>6. ASSUME EnrollMarks(p) PROVE Harmless(p, A)
  <2>1. PICK d : d = Write(disk, KeychainFile, TRUE)
    BY Zenon
  <2>2. Step(p, "enroll_mark", TRUE, d, "ok", disk) /\ UNCHANGED others
    BY Zenon, <1>6, <2>1 DEF EnrollMarks
  <2>3. Good(d, A) /\ Kept(A)
    BY Zenon, <1>h, <2>1, <2>2, Files, Fitting, GoodWrite, OthersKept
  <2> QED
    BY Zenon, <1>h, <2>2, <2>3, SureHarmless
<1>7. ASSUME WipeKeychain(p) PROVE Harmless(p, A)
  <2>1. /\ At(p, "wipe_keychain")
        /\ UNCHANGED <<known, backups, promised, raced, limits>>
        /\ \/ keychain' = keychain
           \/ /\ keychain' = [keychain EXCEPT ![disk[ProfileIdFile]] = NoFile]
              /\ Exists(disk, ProfileIdFile)
    BY Zenon, <1>7 DEF WipeKeychain
  <2>2. Kept(A)
    BY Zenon, <2>1, RestKept, Here
  <2>3. CASE Goto(p, "wipe_store") /\ disk' = disk
    BY Zenon, <1>h, <2>1, <2>2, <2>3, GotoHarmless
  <2>4. CASE Refuses(p) \/ Answers(p, "err", FALSE, disk)
    BY Zenon, <2>1, <2>2, <2>4, EndsHarmless
  <2> QED
    BY Zenon, <1>7, <2>3, <2>4 DEF WipeKeychain
<1>8. ASSUME WipeStore(p) PROVE Harmless(p, A)
  <2>1. PICK d : d = Remove(disk, {StoreFile})
    BY Zenon
  <2>2. PICK can \in BOOLEAN : can = (Exists(disk, StoreFile) /\ Exists(disk, RevisionFile))
    BY Zenon
  <2>3. /\ Step(p, "wipe_store", can, d, "wipe_revision", disk) /\ promised' = NoPromise
        /\ UNCHANGED <<keychain, known, backups, raced, limits>>
    BY Zenon, <1>8, <2>1, <2>2 DEF WipeStore
  <2>4. Kept(A)
    BY Zenon, <2>3, PromisedKept DEF NoPromise
  <2>5. Good(d, A)
    BY Zenon, <1>h, <2>1, Files, GoodRemove
  <2> QED
    BY Zenon, <1>h, <2>3, <2>4, <2>5, StepHarmless
<1>9. ASSUME WipeRevision(p) PROVE Harmless(p, A)
  <2>1. PICK d : d = Remove(disk, {RevisionFile})
    BY Zenon
  <2>2. PICK can \in BOOLEAN : can = Exists(disk, RevisionFile)
    BY Zenon DEF Exists
  <2>3. Step(p, "wipe_revision", can, d, "wipe_rest", disk) /\ UNCHANGED others
    BY Zenon, <1>9, <2>1, <2>2 DEF WipeRevision
  <2>4. Good(d, A) /\ Kept(A)
    BY Zenon, <1>h, <2>1, <2>3, Files, GoodRemove, OthersKept
  <2> QED
    BY Zenon, <1>h, <2>3, <2>4, StepHarmless
<1>10. ASSUME WipeEnds(p) PROVE Harmless(p, A)
  <2>1. PICK d : d = Remove(disk, {ProfileIdFile, KeychainFile})
    BY Zenon
  <2>2. Good(d, A)
    BY Zenon, <1>h, <2>1, Files, GoodRemove
  <2> QED
    BY Zenon, <1>10, <2>1, <2>2, OthersKept, EndsHarmless DEF WipeEnds
<1> QED
  BY Zenon, <1>1, <1>2, <1>3, <1>4, <1>5, <1>6, <1>7, <1>8, <1>9, <1>10 DEF Changing

\* recovery export, import and rotate never touch the instance lock.
LEMMA RecoveringHarmless ==
    ASSUME NEW A, Sound(A), NEW p \in Pids, Recovering(p)
    PROVE  Harmless(p, A)
<1> USE RecoveringMoves, LoadedSteps
<1>h. Good(disk, A) /\ A \subseteq Owner /\ p \in Owner /\ Rest(A)
  BY Zenon, Here DEF Sound, TypeInv, Owner
<1>1. ASSUME Export(p) PROVE Harmless(p, A)
  <2>1. PICK r : r = [proc[p] EXCEPT !.at = "export_revision", !.image = disk[StoreFile]]
    BY Zenon
  <2>2. PICK can \in BOOLEAN : can = (Exists(disk, StoreFile) /\ Exists(disk, RevisionFile))
    BY Zenon
  <2>3. At(p, "export") /\ FileOp(p, can, disk, r, disk) /\ UNCHANGED others
    BY Zenon, <1>1, <2>1, <2>2 DEF Export
  <2>4. Kept(A) /\ Runs(p)
    BY Zenon, <2>3, OthersKept, RunsAt
  <2>5. can => Quiet(p, r, A)
    BY Zenon, <2>1, <2>2, <2>3, Here, ImageQuiet
  <2> QED
    BY Zenon, <1>h, <2>3, <2>4, <2>5, FileOpHarmless
<1>2. ASSUME ExportEnds(p) PROVE Harmless(p, A)
  <2>1. At(p, "export_revision") /\ UNCHANGED <<keychain, known, promised, raced, limits>>
    BY Zenon, <1>2 DEF ExportEnds
  <2>2. proc[p].image \in Imgs(A)
    BY Zenon, <2>1, InMemory
  <2>3. CASE Exists(disk, RevisionFile)
    <3>1. PICK b : b = [store |-> proc[p].image, revision |-> disk[RevisionFile]]
      BY Zenon
    <3>2. b \in Arts(A)
      BY Zenon, <1>h, <2>2, <2>3, <3>1, Here, ImageForms
    <3>3. Succeeds(p, disk) /\ backups' = backups \cup {b}
      BY Zenon, <1>2, <2>3, <3>1 DEF ExportEnds
    <3>4. Kept(A)
      BY Zenon, <2>1, <3>2, <3>3, RestKept
    <3> QED
      BY Zenon, <1>h, <2>1, <3>3, <3>4, EndsHarmless
  <2>4. CASE ~Exists(disk, RevisionFile)
    <3>1. Refuses(p) /\ backups' = backups
      BY Zenon, <1>2, <2>4 DEF ExportEnds
    <3>2. Kept(A)
      BY Zenon, <2>1, <3>1, RestKept
    <3> QED
      BY Zenon, <2>1, <3>1, <3>2, EndsHarmless
  <2> QED
    BY Zenon, <2>3, <2>4
<1>3. ASSUME Import(p) PROVE Harmless(p, A)
  <2>1. At(p, "import") /\ Kept(A)
    BY Zenon, <1>3, OthersKept DEF Import
  <2>2. CASE Refuses(p)
    BY Zenon, <2>1, <2>2, EndsHarmless
  <2>3. CASE ~Refuses(p)
    <3>1. PICK a \in backups :
             FileOp(p, TRUE, Write(Write(disk, Temporary(p), a.store),
                                   TemporaryRevision(p), a.revision),
                    [proc[p] EXCEPT !.at = "import_store"], disk)
      BY Zenon, <1>3, <2>3 DEF Import
    <3>2. a.store \in Imgs(A) /\ a.revision \in 0..MaxRevision
      BY Zenon, <1>h, ImageForms DEF Rest
    <3>3. PICK e : e = Write(disk, Temporary(p), a.store)
      BY Zenon
    <3>4. PICK d : d = Write(e, TemporaryRevision(p), a.revision)
      BY Zenon
    <3>5. Good(e, A)
      BY Zenon, <1>h, <3>2, <3>3, Kinds, Fitting, GoodWrite
    <3>6. Good(d, A)
      BY Zenon, <3>2, <3>4, <3>5, Kinds, Fitting, GoodWrite
    <3>7. Step(p, "import", TRUE, d, "import_store", disk)
      BY Zenon, <2>1, <3>1, <3>3, <3>4 DEF Step
    <3> QED
      BY Zenon, <1>h, <2>1, <3>6, <3>7, SureHarmless
  <2> QED
    BY Zenon, <2>2, <2>3
<1>4. ASSUME ImportStore(p) PROVE Harmless(p, A)
  <2>1. PICK d : d = Rename(disk, Temporary(p), StoreFile)
    BY Zenon
  <2>2. PICK u : u = Remove(disk, {Temporary(p), TemporaryRevision(p)})
    BY Zenon
  <2>3. Good(d, A) /\ Good(u, A)
    BY Zenon, <1>h, <2>1, <2>2, Files, Kinds, GoodRename, GoodRemove
  <2>4. Step(p, "import_store", TRUE, d, "import_revision", u) /\ UNCHANGED others
    BY Zenon, <1>4, <2>1, <2>2 DEF ImportStore
  <2> QED
    BY Zenon, <2>3, <2>4, OthersKept, SureHarmless
<1>5. ASSUME ImportRevision(p) PROVE Harmless(p, A)
  <2>1. PICK d : d = Rename(disk, TemporaryRevision(p), RevisionFile)
    BY Zenon
  <2>2. PICK u : u = Remove(disk, {StoreFile, TemporaryRevision(p)})
    BY Zenon
  <2>3. Good(d, A) /\ Good(u, A)
    BY Zenon, <1>h, <2>1, <2>2, Files, Kinds, GoodRename, GoodRemove
  <2>4. Step(p, "import_revision", TRUE, d, "ok", u)
    BY Zenon, <1>5, <2>1, <2>2 DEF ImportRevision
  <2>5. /\ UNCHANGED <<keychain, known, backups, raced, limits>>
        /\ \/ promised' = promised
           \/ /\ Exists(disk, StoreFile)
              /\ promised' = [account |-> disk[StoreFile].account,
                              writes |-> disk[StoreFile].writes]
    BY Zenon, <1>5 DEF ImportRevision
  <2>6. Exists(disk, StoreFile) => /\ disk[StoreFile].account \in Owner
                                   /\ disk[StoreFile].writes \in SUBSET Pids
    BY Zenon, <1>h, Here, ImageForms
  <2>7. Kept(A)
    BY Zenon, <2>5, <2>6, RestKept
  <2> QED
    BY Zenon, <2>3, <2>4, <2>7, SureHarmless
<1>6. ASSUME Rotate(p) PROVE Harmless(p, A)
  BY Zenon, <1>6, OpensHarmless DEF Rotate
<1>7. ASSUME RotateRekeys(p) PROVE Harmless(p, A)
  <2>1. PICK e : e = Write(disk, Temporary(p), Rekeyed(proc[p].image, p))
    BY Zenon
  <2>2. PICK d : d = Write(e, TemporaryRevision(p), 1)
    BY Zenon
  <2>3. /\ Step(p, "rotate_rekey", TRUE, d, "rotate_store", disk)
        /\ UNCHANGED <<keychain, backups, promised, raced, limits>>
        /\ known' = known \/ known' = known \cup {p}
    BY Zenon, <1>7, <2>1, <2>2 DEF RotateRekeys, Tells
  <2>4. Kept(A)
    BY Zenon, <1>h, <2>3, RestKept
  <2>5. At(p, "rotate_rekey")
    BY Zenon, <2>3 DEF Step
  <2>6. Rekeyed(proc[p].image, p) \in Imgs(A)
    BY Zenon, <1>h, <2>5, InMemory, ImageForms
  <2>7. 1 \in 0..MaxRevision
    BY SMTT(30), ProfileFilesAssumption
  <2>8. Good(e, A)
    BY Zenon, <1>h, <2>1, <2>6, Kinds, Fitting, GoodWrite
  <2>9. Good(d, A)
    BY Zenon, <2>2, <2>7, <2>8, Kinds, Fitting, GoodWrite
  <2> QED
    BY Zenon, <1>h, <2>3, <2>4, <2>9, SureHarmless
<1>f. ASSUME UNCHANGED <<keychain, backups, promised, raced, limits>>, Forgets(p) PROVE Kept(A)
  <2>1. known' \subseteq known
    BY SMTT(30), <1>f DEF Forgets
  <2> QED
    BY Zenon, <1>f, <2>1, RestKept
<1>8. ASSUME RotateSetsAside(p) PROVE Harmless(p, A)
  <2>0. Kept(A)
    BY Zenon, <1>8, <1>f DEF RotateSetsAside
  <2>1. PICK d : d = Rename(disk, StoreFile, Old(p))
    BY Zenon
  <2>2. PICK u : u = Unrotated(disk, p)
    BY Zenon
  <2>3. Good(d, A) /\ Good(u, A)
    BY Zenon, <1>h, <2>1, <2>2, Files, Kinds, GoodRename, GoodRemove DEF Unrotated
  <2>4. CASE Step(p, "rotate_store", Exists(disk, StoreFile), d, "rotate_revision", u)
    BY Zenon, <2>0, <2>3, <2>4, StepHarmless DEF Exists
  <2>5. PICK e : e = Rename(disk, RevisionFile, OldRevision(p))
    BY Zenon
  <2>6. PICK w : w = Rename(disk, Old(p), StoreFile)
    BY Zenon
  <2>7. PICK v : v = Unrotated(w, p)
    BY Zenon
  <2>8. Good(e, A) /\ Good(w, A)
    BY Zenon, <1>h, <2>5, <2>6, Kinds, GoodRename
  <2>9. Good(v, A)
    BY Zenon, <2>7, <2>8, Files, GoodRemove DEF Unrotated
  <2>10. CASE Step(p, "rotate_revision", Exists(disk, RevisionFile), e, "rotate_install", v)
    BY Zenon, <2>0, <2>8, <2>9, <2>10, StepHarmless DEF Exists
  <2> QED
    BY Zenon, <1>8, <2>1, <2>2, <2>4, <2>5, <2>6, <2>7, <2>10 DEF RotateSetsAside
<1>p. ASSUME NEW d, Good(d, A) PROVE Good(PutBack(d, p), A)
  <2>1. PICK e : e = Rename(d, Old(p), StoreFile)
    BY Zenon
  <2>2. Good(e, A)
    BY Zenon, <1>p, <2>1, Kinds, GoodRename
  <2> QED
    BY Zenon, <2>1, <2>2, Kinds, GoodRename DEF PutBack
<1>9. ASSUME RotateInstalls(p) PROVE Harmless(p, A)
  <2>1. PICK d : d = Rename(disk, Temporary(p), StoreFile)
    BY Zenon
  <2>2. PICK u : u = Remove(PutBack(disk, p), {TemporaryRevision(p)})
    BY Zenon
  <2>3. Good(d, A) /\ Good(u, A)
    BY Zenon, <1>h, <1>p, <2>1, <2>2, Files, Kinds, GoodRename, GoodRemove
  <2>4. Step(p, "rotate_install", TRUE, d, "rotate_install_revision", u) /\ UNCHANGED others
    BY Zenon, <1>9, <2>1, <2>2 DEF RotateInstalls
  <2> QED
    BY Zenon, <2>3, <2>4, OthersKept, SureHarmless
<1>10. ASSUME RotateInstallsRevision(p) PROVE Harmless(p, A)
  <2>1. PICK d : d = Rename(disk, TemporaryRevision(p), RevisionFile)
    BY Zenon
  <2>2. PICK u : u = PutBack(Remove(disk, {StoreFile}), p)
    BY Zenon
  <2>3. Good(d, A) /\ Good(u, A)
    BY Zenon, <1>h, <1>p, <2>1, <2>2, Files, Kinds, GoodRename, GoodRemove
  <2>4. Step(p, "rotate_install_revision", TRUE, d, "rotate_drop", u) /\ Kept(A)
    BY Zenon, <1>10, <1>f, <2>1, <2>2 DEF RotateInstallsRevision
  <2> QED
    BY Zenon, <2>3, <2>4, SureHarmless
<1>11. ASSUME RotateDrops(p) PROVE Harmless(p, A)
  <2>1. Good(Remove(disk, {Old(p)}), A) /\ Good(Remove(disk, {OldRevision(p)}), A)
    BY Zenon, <1>h, Files, GoodRemove
  <2>2. Kept(A)
    BY Zenon, <1>11, OthersKept DEF RotateDrops
  <2> QED
    BY Zenon, <1>11, <2>1, <2>2, TriesHarmless DEF RotateDrops
<1>12. ASSUME RotateEnds(p) PROVE Harmless(p, A)
  <2>1. Good(Write(disk, KeychainFile, TRUE), A)
    BY Zenon, <1>h, Files, Fitting, GoodWrite
  <2>2. /\ At(p, "rotate_keychain") /\ known' = known \cup {p}
        /\ UNCHANGED <<backups, promised, raced, limits>>
        /\ \/ keychain' = keychain
           \/ /\ Exists(disk, ProfileIdFile)
              /\ keychain' = [keychain EXCEPT ![disk[ProfileIdFile]] = p]
    BY Zenon, <1>12 DEF RotateEnds
  <2>3. Kept(A)
    <3>1. Exists(disk, ProfileIdFile) => disk[ProfileIdFile] \in Owner
      BY Zenon, Here
    <3> QED
      BY Zenon, <1>h, <2>2, <3>1, RestKept
  <2>4. \/ Succeeds(p, Write(disk, KeychainFile, TRUE)) \/ Succeeds(p, disk)
        \/ Answers(p, "ok", FALSE, disk)
    BY Zenon, <1>12 DEF RotateEnds
  <2>5. CASE Succeeds(p, Write(disk, KeychainFile, TRUE)) \/ Succeeds(p, disk)
    BY Zenon, <1>h, <2>1, <2>2, <2>3, <2>5, EndsHarmless
  <2>6. CASE Answers(p, "ok", FALSE, disk)
    BY Zenon, <1>h, <2>2, <2>3, <2>6, AnswersHarmless
  <2> QED
    BY Zenon, <2>4, <2>5, <2>6
<1> QED
  BY Zenon, <1>1, <1>2, <1>3, <1>4, <1>5, <1>6, <1>7, <1>8, <1>9, <1>10, <1>11, <1>12 DEF Recovering

\* init, link-complete and the requests of the setup daemon give the lock up
\* only with their answer.
LEMMA InitializingHarmless ==
    ASSUME NEW A, Sound(A), NEW p \in Pids, p \in A, Initializing(p), ~SetupEnds(p)
    PROVE  Harmless(p, A)
<1> USE ChangingMoves, LoadedSteps
<1>h. Good(disk, A) /\ A \subseteq Owner /\ p \in Owner
  BY Zenon, Here DEF Sound, Owner
<1>1. ASSUME Setup(p) PROVE Harmless(p, A)
  <2>1. At(p, "setup") /\ Kept(A)
    BY Zenon, <1>1, OthersKept DEF Setup
  <2>2. CASE Refuses(p)
    BY Zenon, <2>1, <2>2, EndsHarmless
  <2>3. CASE ~Refuses(p)
    <3>1. PICK out \in BOOLEAN :
             /\ out = (\E f \in {StoreFile, RevisionFile, ProfileIdFile, KeychainFile} :
                          Exists(disk, f))
             /\ Becomes(p, [proc[p] EXCEPT !.at = "acquire", !.out = out]) /\ UNCHANGED disk
      BY Zenon, <1>1, <2>3 DEF Setup
    <3>2. PICK r : r = [proc[p] EXCEPT !.at = "acquire", !.out = out]
      BY Zenon
    <3>3. DOMAIN proc[p] = Fields /\ Memory(proc[p], A) /\ proc[p].alive = TRUE
          /\ proc[p].at = "setup"
      BY Zenon, <2>1 DEF Sound, LockInv, Stands, TypeInv, At
    <3>4. /\ DOMAIN r = Fields /\ r.at = "acquire" /\ r.alive = proc[p].alive
          /\ r.holds = proc[p].holds /\ r.secret = proc[p].secret /\ r.out = out
          /\ r.read = proc[p].read /\ r.servable = proc[p].servable
          /\ r.failed = proc[p].failed /\ r.image = proc[p].image
      BY SMTT(30), <3>2, <3>3 DEF Fields, Fresh
    <3>5. Quiet(p, r, A)
      BY ZenonT(60), <3>3, <3>4 DEF Quiet, Memory, Carries, Moves
    <3> QED
      BY Zenon, <1>h, <2>1, <3>1, <3>2, <3>5, MoveHarmless
  <2> QED
    BY Zenon, <2>2, <2>3
<1>2. ASSUME SetupProfile(p) PROVE Harmless(p, A)
  <2>1. At(p, "setup_run") /\ Goto(p, "init") /\ disk' = disk /\ Kept(A)
    BY Zenon, <1>2, OthersKept DEF SetupProfile
  <2> QED
    BY Zenon, <1>h, <2>1, GotoHarmless
<1>3. ASSUME SetupUndoes(p) PROVE Harmless(p, A)
  <2>1. PICK d : d = Remove(disk, {StoreFile, RevisionFile, ProfileIdFile, KeychainFile})
    BY Zenon
  <2>2. Good(d, A)
    BY Zenon, <1>h, <2>1, Files, GoodRemove
  <2>3. At(p, "setup_undo") /\ Kept(A)
    BY Zenon, <1>3, OthersKept DEF SetupUndoes
  <2>4. PICK c : c = Remove(disk, {StoreFile})
    BY Zenon
  <2>5. Good(c, A)
    BY Zenon, <1>h, <2>4, Files, GoodRemove
  <2>6. \/ Answers(p, "err", FALSE, d) \/ Answers(p, "err", TRUE, disk)
        \/ Answers(p, "err", TRUE, c)
    BY Zenon, <1>3, <2>1, <2>4 DEF SetupUndoes
  <2> QED
    BY Zenon, <1>h, <2>2, <2>3, <2>5, <2>6, AnswersHarmless
<1>4. ASSUME InitBegins(p) PROVE Harmless(p, A)
  BY Zenon, <1>4, <1>h, OthersKept, StepHarmless DEF InitBegins, Exists
<1>5. ASSUME InitCreates(p) \/ Link(p) PROVE Harmless(p, A)
  <2>1. PICK d : d = Committed(disk, New(p, p))
    BY Zenon
  <2>2. PICK u : u = IF Exists(disk, StoreFile) THEN disk
                      ELSE Remove(disk, {StoreFile, RevisionFile})
    BY Zenon
  <2>3. Good(d, A)
    BY Zenon, <1>h, <2>1, GoodCommitted, ImageForms
  <2>4. Good(u, A)
    <3>1. Good(Remove(disk, {StoreFile, RevisionFile}), A)
      BY Zenon, <1>h, Files, GoodRemove
    <3> QED
      BY Zenon, <1>h, <2>2, <3>1
  <2>5. /\ UNCHANGED others
        /\ \/ Step(p, "init_create", ~Exists(disk, StoreFile), d, "init_identity", u)
           \/ Step(p, "link", ~Exists(disk, StoreFile), d, "link_batch", u)
    BY Zenon, <1>5, <2>1, <2>2 DEF InitCreates, Link
  <2> QED
    BY Zenon, <2>3, <2>4, <2>5, OthersKept, StepHarmless DEF Exists
<1>6. ASSUME InitPutsIdentity(p) PROVE Harmless(p, A)
  <2>1. PICK d : d = Committed(disk, Identified(p))
    BY Zenon
  <2>2. Good(d, A)
    BY Zenon, <1>h, <2>1, GoodCommitted, ImageForms
  <2>3. /\ Step(p, "init_identity", Exists(disk, StoreFile), d, "init_registry", disk)
        /\ UNCHANGED others
    BY Zenon, <1>6, <2>1 DEF InitPutsIdentity
  <2> QED
    BY Zenon, <1>h, <2>2, <2>3, OthersKept, StepHarmless DEF Exists
<1>7. ASSUME InitPutsRegistry(p) PROVE Harmless(p, A)
  <2>1. PICK d : d = Committed(disk, Registered(p))
    BY Zenon
  <2>2. Good(d, A)
    BY Zenon, <1>h, <2>1, GoodCommitted, ImageForms
  <2>3. /\ Step(p, "init_registry", Exists(disk, StoreFile), d, "init_id", disk)
        /\ UNCHANGED others
    BY Zenon, <1>7, <2>1 DEF InitPutsRegistry
  <2> QED
    BY Zenon, <1>h, <2>2, <2>3, OthersKept, StepHarmless DEF Exists
<1>8. ASSUME InitWritesId(p) PROVE Harmless(p, A)
  <2>1. PICK d : d = Write(disk, ProfileIdFile, p)
    BY Zenon
  <2>2. Good(d, A)
    BY Zenon, <1>h, <2>1, Files, Fitting, GoodWrite
  <2>3. Step(p, "init_id", TRUE, d, "init_keychain", disk) /\ UNCHANGED others
    BY Zenon, <1>8, <2>1 DEF InitWritesId
  <2> QED
    BY Zenon, <1>h, <2>2, <2>3, OthersKept, SureHarmless
<1>9. ASSUME InitEnrolls(p) PROVE Harmless(p, A)
  <2>1. /\ At(p, "init_keychain") /\ disk' = disk
        /\ UNCHANGED <<known, backups, promised, raced, limits>>
        /\ keychain' = keychain \/ keychain' = [keychain EXCEPT ![p] = p]
    BY Zenon, <1>9 DEF InitEnrolls
  <2>2. Goto(p, "init_mark") \/ Goto(p, "setup_undo") \/ Goto(p, "init_out")
    BY Zenon, <1>9 DEF InitEnrolls
  <2>3. Kept(A)
    BY Zenon, <1>h, <2>1, RestKept
  <2> QED
    BY Zenon, <1>h, <2>1, <2>2, <2>3, GotoHarmless
<1>10. ASSUME InitMarks(p) PROVE Harmless(p, A)
  <2>1. PICK d : d = Write(disk, KeychainFile, TRUE)
    BY Zenon
  <2>2. Good(d, A)
    BY Zenon, <1>h, <2>1, Files, Fitting, GoodWrite
  <2>3. Step(p, "init_mark", TRUE, d, "init_out", disk) /\ UNCHANGED others
    BY Zenon, <1>10, <2>1 DEF InitMarks
  <2> QED
    BY Zenon, <1>h, <2>2, <2>3, OthersKept, SureHarmless
<1>11. ASSUME InitEnds(p) PROVE Harmless(p, A)
  <2>1. PICK d : d = Remove(disk, {StoreFile, RevisionFile, ProfileIdFile, KeychainFile})
    BY Zenon
  <2>2. Good(d, A)
    BY Zenon, <1>h, <2>1, Files, GoodRemove
  <2>3. At(p, "init_out") /\ UNCHANGED <<backups, raced, limits>>
    BY Zenon, <1>11 DEF InitEnds
  <2>4. CASE /\ Succeeds(p, disk) /\ promised' = [account |-> p, writes |-> {}]
             /\ known' = (IF IsSetup(p) THEN known ELSE known \cup {p})
             /\ UNCHANGED keychain
    <3>1. known' = known \/ known' = known \cup {p}
      BY Zenon, <2>4
    <3>2. \E w \in SUBSET Pids : promised' = [account |-> p, writes |-> w]
      BY Zenon, <2>4
    <3>3. Kept(A)
      BY Zenon, <1>h, <2>3, <2>4, <3>1, <3>2, RestKept
    <3> QED
      BY Zenon, <1>h, <2>3, <2>4, <3>3, EndsHarmless
  <2>5. CASE /\ Answers(p, "err", TRUE, d) /\ keychain' = [keychain EXCEPT ![p] = NoFile]
             /\ UNCHANGED <<known, promised>>
    <3>1. Kept(A)
      BY Zenon, <1>h, <2>3, <2>5, RestKept
    <3> QED
      BY Zenon, <2>2, <2>3, <2>5, <3>1, AnswersHarmless
  <2> QED
    BY Zenon, <1>11, <2>1, <2>4, <2>5 DEF InitEnds
<1>13. ASSUME LinkEnds(p) PROVE Harmless(p, A)
  <2>1. PICK d : d = Committed(disk, [Identified(p) EXCEPT !.ready = TRUE])
    BY Zenon
  <2>2. Good(d, A)
    BY Zenon, <1>h, <2>1, GoodCommitted, ImageForms
  <2>3. /\ Step(p, "link_batch", Exists(disk, StoreFile), d, "ok", disk)
        /\ UNCHANGED <<keychain, known, backups, raced, limits>>
        /\ promised' = promised \/ promised' = [account |-> p, writes |-> {}]
    BY Zenon, <1>13, <2>1 DEF LinkEnds
  <2>4. Kept(A)
    BY Zenon, <1>h, <2>3, PromisedKept
  <2> QED
    BY Zenon, <1>h, <2>2, <2>3, <2>4, StepHarmless DEF Exists
<1> QED
  BY Zenon, <1>1, <1>2, <1>3, <1>4, <1>5, <1>6, <1>7, <1>8, <1>9, <1>10, <1>11, <1>13 DEF Initializing

\* A recovery that fails puts the live files back.
LEMMA ReinstatedGood ==
    ASSUME NEW A, Sound(A), NEW p \in Pids
    PROVE  Good(Reinstated(disk, p), A)
<1>1. PICK v : v = Remove(disk, {StoreFile, RevisionFile})
  BY Zenon
<1>2. PICK w : w = Rename(v, Old(p), StoreFile)
  BY Zenon
<1>3. Good(v, A)
  BY Zenon, <1>1, Here, Files, GoodRemove
<1>4. Good(w, A)
  BY Zenon, <1>2, <1>3, Kinds, GoodRename
<1> QED
  BY Zenon, <1>1, <1>2, <1>4, Kinds, GoodRename DEF Reinstated

\* serve gives the lock up only when it ends.
LEMMA ServingHarmless ==
    ASSUME NEW A, Sound(A), NEW p \in Pids, Serving(p), ~DaemonStages(p), ~RecoverEnds(p)
    PROVE  Harmless(p, A)
<1> USE ServingMoves, LoadedSteps
<1>h. Good(disk, A) /\ A \subseteq Owner /\ p \in Owner
  BY Zenon, Here DEF Sound, Owner
<1>1. ASSUME Recover(p) PROVE Harmless(p, A)
  <2>1. At(p, "recover") /\ Kept(A) /\ Runs(p)
    BY Zenon, <1>1, OthersKept, RunsAt DEF Recover
  <2>2. CASE ~Exists(disk, PendingFile)
    BY Zenon, <1>1, <1>h, <2>1, <2>2, GotoHarmless DEF Recover
  <2>3. CASE Exists(disk, PendingFile)
    <3>1. PICK can \in BOOLEAN : can = Applies(disk[PendingFile], proc[p].secret)
      BY Zenon DEF Applies
    <3>2. PICK r : r = [proc[p] EXCEPT !.at = "recover_store", !.image = disk[PendingFile]]
      BY Zenon
    <3>3. FileOp(p, can, disk, r, disk)
      BY Zenon, <1>1, <2>3, <3>1, <3>2 DEF Recover
    <3>4. Quiet(p, r, A)
      BY Zenon, <2>1, <2>3, <3>2, Here, ImageQuiet
    <3> QED
      BY Zenon, <1>h, <2>1, <3>3, <3>4, FileOpHarmless
  <2> QED
    BY Zenon, <2>2, <2>3
<1>2. ASSUME RecoverSetsAside(p) PROVE Harmless(p, A)
  <2>0. Kept(A)
    BY Zenon, <1>2, OthersKept DEF RecoverSetsAside
  <2>1. PICK d : d = Rename(disk, StoreFile, Old(p))
    BY Zenon
  <2>2. PICK e : e = Rename(disk, RevisionFile, OldRevision(p))
    BY Zenon
  <2>3. PICK u : u = Rename(disk, Old(p), StoreFile)
    BY Zenon
  <2>4. Good(d, A) /\ Good(e, A) /\ Good(u, A)
    BY Zenon, <1>h, <2>1, <2>2, <2>3, Kinds, GoodRename
  <2>5. \/ Step(p, "recover_store", TRUE, d, "recover_revision", disk)
        \/ Step(p, "recover_revision", TRUE, e, "install_store", u)
    BY Zenon, <1>2, <2>1, <2>2, <2>3 DEF RecoverSetsAside
  <2> QED
    BY Zenon, <1>h, <2>0, <2>4, <2>5, SureHarmless
<1>3. ASSUME RecoverInstalls(p) PROVE Harmless(p, A)
  <2>0. Kept(A)
    BY Zenon, <1>3, OthersKept DEF RecoverInstalls
  <2>1. PICK u : u = Reinstated(disk, p)
    BY Zenon
  <2>2. Good(u, A)
    BY Zenon, <2>1, ReinstatedGood
  <2>3. PICK d : d = Write(disk, StoreFile, proc[p].image.store)
    BY Zenon
  <2>4. PICK e : e = Write(disk, RevisionFile, proc[p].image.revision)
    BY Zenon
  <2>5. \/ Step(p, "install_store", TRUE, d, "install_revision", u)
        \/ Step(p, "install_revision", TRUE, e, "drop_old", u)
    BY Zenon, <1>3, <2>1, <2>3, <2>4 DEF RecoverInstalls
  <2>6. proc[p].image \in Arts(A)
    BY Zenon, <2>5, InMemory DEF Step
  <2>7. proc[p].image.store \in Imgs(A) /\ proc[p].image.revision \in 0..MaxRevision
    BY Zenon, <1>h, <2>6, ImageForms
  <2>8. Good(d, A) /\ Good(e, A)
    BY Zenon, <1>h, <2>3, <2>4, <2>7, Files, Kinds, Fitting, GoodWrite
  <2> QED
    BY Zenon, <2>0, <2>2, <2>5, <2>8, SureHarmless
<1>4. ASSUME RecoverDropsOld(p) PROVE Harmless(p, A)
  <2>1. PICK d : d = Remove(disk, {Old(p), OldRevision(p)})
    BY Zenon
  <2>2. Good(d, A)
    BY Zenon, <1>h, <2>1, Files, GoodRemove
  <2>3. /\ Tries(p, "drop_old", d, "drop_pending")
        /\ promised' = [account |-> proc[p].image.store.account,
                        writes |-> proc[p].image.store.writes]
        /\ UNCHANGED <<keychain, known, backups, raced, limits>>
    BY Zenon, <1>4, <2>1 DEF RecoverDropsOld
  <2>4. proc[p].image \in Arts(A)
    BY Zenon, <2>3, InMemory DEF Tries
  <2>5. proc[p].image.store.account \in Owner /\ proc[p].image.store.writes \in SUBSET Pids
    <3>1. PICK i : i = proc[p].image.store
      BY Zenon
    <3>2. i \in Imgs(A)
      BY Zenon, <1>h, <2>4, <3>1, ImageForms
    <3>3. i.account \in Owner /\ i.writes \in SUBSET Pids
      BY Zenon, <1>h, <3>2, ImageForms
    <3> QED
      BY Zenon, <3>1, <3>3
  <2>6. Kept(A)
    BY Zenon, <2>3, <2>5, PromisedKept
  <2> QED
    BY Zenon, <2>2, <2>3, <2>6, TriesHarmless
<1>6. ASSUME Serve(p) PROVE Harmless(p, A)
  <2>1. PICK can \in BOOLEAN : can = Servable(disk, proc[p].secret)
    BY Zenon DEF Servable
  <2>2. PICK d : d = IF CanOpen(disk, proc[p].secret) THEN Opened(disk) ELSE disk
    BY Zenon
  <2>3. PICK r : r = [proc[p] EXCEPT !.at = "run", !.image = disk[StoreFile]]
    BY Zenon
  <2>4. At(p, "open") /\ UNCHANGED others /\ FileOp(p, can, d, r, d)
    BY Zenon, <1>6, <2>1, <2>2, <2>3 DEF Serve
  <2>5. CanOpen(disk, proc[p].secret) => disk[StoreFile] \in Imgs(A)
    BY Zenon, Here DEF CanOpen, Opens, Exists
  <2>6. Good(d, A)
    BY Zenon, <1>h, <2>2, <2>5, GoodCommitted
  <2>7. can => Quiet(p, r, A)
    BY Zenon, <2>1, <2>3, <2>4, <2>5, ImageQuiet DEF Servable
  <2> QED
    BY Zenon, <2>4, <2>6, <2>7, OthersKept, RunsAt, FileOpHarmless
<1>7. ASSUME DaemonCommits(p) PROVE Harmless(p, A)
  <2>1. PICK restorable \in BOOLEAN :
          LET image == [Written(proc[p].image, p) EXCEPT !.restorable = restorable] IN
          /\ At(p, "run") /\ UNCHANGED others /\ image.revision <= MaxRevision
          /\ disk' = Write(disk, StoreFile, image)
          /\ Becomes(p, [proc[p] EXCEPT !.at = "commit_marker", !.image = image])
    BY Zenon, <1>7 DEF DaemonCommits
  <2>a. PICK image : image = [Written(proc[p].image, p) EXCEPT !.restorable = restorable]
    BY Zenon
  <2>2. PICK r : r = [proc[p] EXCEPT !.at = "commit_marker", !.image = image]
    BY Zenon
  <2>3. /\ At(p, "run") /\ UNCHANGED others /\ image.revision <= MaxRevision
        /\ Becomes(p, r) /\ disk' = Write(disk, StoreFile, image)
    BY Zenon, <2>1, <2>a, <2>2
  <2>4. image \in Imgs(A)
    <3>1. PICK j : j = Written(proc[p].image, p)
      BY Zenon
    <3>2. image = [j EXCEPT !.restorable = restorable]
      BY Zenon, <2>a, <3>1
    <3>3. proc[p].image \in Imgs(A)
      BY Zenon, <2>3, InMemory
    <3>4. DOMAIN j = DOMAIN proc[p].image /\ DOMAIN proc[p].image = DOMAIN New(p, p)
      BY SMTT(30), <3>1, <3>3 DEF Written, Advanced, Imgs, Image, New
    <3>5. j.revision = image.revision
      BY SMTT(30), <3>2, <3>4 DEF New
    <3> QED
      BY Zenon, <1>h, <2>3, <3>1, <3>2, <3>3, <3>5, ImageForms, Updates
  <2>5. Good(disk', A)
    BY Zenon, <1>h, <2>3, <2>4, Files, Kinds, Fitting, GoodWrite
  <2>6. Quiet(p, r, A)
    BY Zenon, <2>2, <2>3, <2>4, ImageQuiet
  <2> QED
    BY Zenon, <2>3, <2>5, <2>6, OthersKept, MoveHarmless
<1>8. ASSUME DaemonCommitted(p) PROVE Harmless(p, A)
  <2>1. /\ At(p, "commit_marker") /\ Goto(p, "run") /\ disk' = WithMarker(p) /\ Promises(p)
        /\ UNCHANGED <<keychain, known, backups, raced, limits>>
    BY Zenon, <1>8 DEF DaemonCommitted
  <2>2. proc[p].image.revision \in 0..MaxRevision
    BY Zenon, <1>h, <2>1, InMemory, ImageForms
  <2>3. Good(disk', A)
    BY Zenon, <1>h, <2>1, <2>2, Files, Kinds, Fitting, GoodWrite DEF WithMarker
  <2>4. Kept(A)
    BY Zenon, <2>1, PromisesKept
  <2> QED
    BY Zenon, <2>1, <2>3, <2>4, GotoHarmless
<1>9. ASSUME DaemonExports(p) PROVE Harmless(p, A)
  <2>1. PICK image : image = Advanced(proc[p].image)
    BY Zenon
  <2>2. PICK b : b = [store |-> disk[StoreFile], revision |-> disk[RevisionFile]]
    BY Zenon
  <2>3. /\ At(p, "run") /\ Exists(disk, StoreFile) /\ Exists(disk, RevisionFile)
        /\ image.revision <= MaxRevision /\ backups' = backups \cup {b}
        /\ disk' = Committed(disk, image) /\ Becomes(p, [proc[p] EXCEPT !.image = image])
        /\ UNCHANGED <<keychain, known, promised, raced, limits>>
    BY Zenon, <1>9, <2>1, <2>2 DEF DaemonExports
  <2>4. image \in Imgs(A)
    BY Zenon, <1>h, <2>1, <2>3, InMemory, ImageForms
  <2>5. b \in Arts(A)
    BY Zenon, <1>h, <2>2, <2>3, Here, ImageForms
  <2>6. Kept(A)
    BY Zenon, <2>3, <2>5, RestKept
  <2>7. PICK r : r = [proc[p] EXCEPT !.image = image]
    BY Zenon
  <2>8. DOMAIN proc[p] = Fields /\ Memory(proc[p], A) /\ proc[p].at = "run" /\ proc[p].alive = TRUE
    BY Zenon, <2>3 DEF Sound, LockInv, Stands, TypeInv, At
  <2>9. Quiet(p, r, A)
    <3>1. /\ DOMAIN r = Fields /\ r.at = proc[p].at /\ r.alive = proc[p].alive
          /\ r.holds = proc[p].holds /\ r.secret = proc[p].secret /\ r.out = proc[p].out
          /\ r.read = proc[p].read /\ r.servable = proc[p].servable
          /\ r.failed = proc[p].failed /\ r.image = image
      BY SMTT(30), <2>7, <2>8 DEF Fields, Fresh
    <3> QED
      BY Zenon, <2>4, <2>8, <3>1 DEF Quiet, Memory
  <2>10. Good(disk', A)
    BY Zenon, <1>h, <2>3, <2>4, GoodCommitted
  <2> QED
    BY Zenon, <2>3, <2>6, <2>7, <2>9, <2>10, MoveHarmless
<1>10. ASSUME DaemonLocks(p) PROVE Harmless(p, A)
  <2>1. PICK r : r = [proc[p] EXCEPT !.at = "locked", !.image = NoFile]
    BY Zenon
  <2>2. At(p, "run") /\ Becomes(p, r) /\ disk' = disk /\ UNCHANGED others
    BY Zenon, <1>10, <2>1 DEF DaemonLocks
  <2>3. Quiet(p, r, A)
    BY Zenon, <2>1, <2>2, ImageQuiet
  <2> QED
    BY Zenon, <1>h, <2>2, <2>3, OthersKept, MoveHarmless
<1>11. ASSUME DaemonWipes(p) PROVE Harmless(p, A)
  <2>1. PICK from \in {"run", "wipe_failed"} : At(p, from)
    BY Zenon, <1>11 DEF DaemonWipes
  <2>2. PICK to \in {"wipe_marker", "wipe_failed"} :
           Becomes(p, [proc[p] EXCEPT !.at = to, !.image = NoFile])
    BY Zenon, <1>11 DEF DaemonWipes
  <2>3. PICK r : r = [proc[p] EXCEPT !.at = to, !.image = NoFile]
    BY Zenon
  <2>4. Moves(from, to) /\ to \notin Loaded /\ to \notin Replacing
    BY Zenon
  <2>5. Quiet(p, r, A)
    BY Zenon, <2>1, <2>3, <2>4, ImageQuiet
  <2>6. Good(Remove(disk, {StoreFile}), A)
    BY Zenon, <1>h, Files, GoodRemove
  <2>7. /\ disk' = Remove(disk, {StoreFile}) \/ disk' = disk
        /\ promised' = NoPromise /\ UNCHANGED <<keychain, known, backups, raced, limits>>
    BY Zenon, <1>11 DEF DaemonWipes
  <2>8. Kept(A)
    BY Zenon, <2>7, PromisedKept DEF NoPromise
  <2>9. Good(disk', A)
    BY Zenon, <1>h, <2>6, <2>7
  <2> QED
    BY Zenon, <2>1, <2>2, <2>3, <2>5, <2>8, <2>9, MoveHarmless
<1>12. ASSUME DaemonWiped(p) PROVE Harmless(p, A)
  <2>1. /\ At(p, "wipe_marker") /\ UNCHANGED others
        /\ Goto(p, "locked") \/ Goto(p, "wipe_failed")
        /\ disk' = Remove(disk, {RevisionFile}) \/ disk' = disk
    BY Zenon, <1>12 DEF DaemonWiped
  <2>2. Good(Remove(disk, {RevisionFile}), A)
    BY Zenon, <1>h, Files, GoodRemove
  <2>3. Good(disk', A)
    BY Zenon, <1>h, <2>1, <2>2
  <2> QED
    BY Zenon, <2>1, <2>3, OthersKept, GotoHarmless
<1>13. ASSUME DaemonEnds(p) PROVE Harmless(p, A)
  <2>1. PICK from \in {"run", "locked", "wipe_failed"} : At(p, from)
    BY Zenon, <1>13 DEF DaemonEnds, At
  <2>2. from \notin Ended
    BY Zenon
  <2> QED
    BY Zenon, <1>13, <1>h, <2>1, <2>2, OthersKept, EndsHarmless DEF DaemonEnds
<1> QED
  BY Zenon, <1>1, <1>2, <1>3, <1>4, <1>6, <1>7, <1>8, <1>9, <1>10, <1>11, <1>12, <1>13 DEF Serving
-----------------------------------------------------------------------------
\* Steps that concern the lock

\* A process starts without the lock, and its id is in no lock file yet.
LEMMA StartStep ==
    ASSUME LockInv, NEW p \in Pids, Start(p)
    PROVE  LockInv'
<1>1. limits.run[p] \in Commands
  BY Zenon, ProfileAssumption DEF LockInv, Layout, Start
<1>2. PICK s, out : Becomes(p, [Fresh EXCEPT !.at = First[limits.run[p]], !.secret = s, !.out = out])
  BY Zenon DEF Start
<1>3. PICK r : r = [Fresh EXCEPT !.at = First[limits.run[p]], !.secret = s, !.out = out]
  BY Zenon
<1>4. First[limits.run[p]] \notin Special /\ (IsSetup(p) => First[limits.run[p]] = "setup")
  BY SMTT(30), <1>1 DEF First, Commands, Special, IsSetup
<1>5. DOMAIN r = Fields /\ r.alive = TRUE /\ r.holds = FALSE /\ r.at = First[limits.run[p]]
  BY SMTT(30), <1>3 DEF Fields, Fresh
<1>6. /\ proc' = [proc EXCEPT ![p] = r] /\ disk' = disk /\ raced' = raced /\ limits' = limits
      /\ proc[p].at = "new"
  BY Zenon, <1>2, <1>3 DEF Start, Becomes
<1>7. Stands(r, p) /\ r.at \notin {"new", "write_pid", "break", "stop_break"}
  BY Zenon, <1>4, <1>5 DEF Stands, Special, SetupSteps, Unmade
<1>8. Held'
  BY Zenon, <1>5, <1>6, <1>7, HeldKept
<1> QED
  BY Zenon, <1>6, <1>7, <1>8, Shapes, OneMoves

\* A process that dies leaves its lock file, which is now that of a dead process.
LEMMA CrashStep ==
    ASSUME LockInv, NEW p \in Pids, Crash(p)
    PROVE  LockInv'
<1>0. DOMAIN proc[p] = Fields /\ Stands(proc[p], p)
  BY Zenon, Shapes DEF LockInv
<1>1. PICK r : r = [proc[p] EXCEPT !.alive = FALSE, !.holds = FALSE, !.image = NoFile]
  BY Zenon
<1>2. DOMAIN r = Fields /\ r.alive = FALSE /\ r.holds = FALSE /\ r.at = proc[p].at
  BY SMTT(30), <1>0, <1>1 DEF Fields, Fresh
<1>3. /\ proc' = [proc EXCEPT ![p] = r] /\ disk' = disk /\ raced' = raced /\ limits' = limits
      /\ Runs(p)
  BY Zenon, <1>1 DEF Crash, Becomes, others
<1>4. r.at # "new"
  BY Zenon, <1>2, <1>3 DEF Runs, Ended
<1>5. Stands(r, p)
  BY Zenon, <1>0, <1>2 DEF Stands
<1>6. Held'
  BY Zenon, <1>2, <1>3, HeldKept
<1> QED
  BY Zenon, <1>2, <1>3, <1>4, <1>5, <1>6, Shapes, OneMoves

\* A process found the lock of one that is gone.
LEMMA FoundStep ==
    ASSUME LockInv, NEW p \in Pids, Runs(p), UNCHANGED <<raced, limits, disk>>,
           ~proc[p].holds, NEW to \in {"break", "stop_break"},
           IsSetup(p) => to \in SetupSteps, lock_pid(disk) # 0, ~Alive(lock_pid(disk)),
           Becomes(p, [proc[p] EXCEPT !.at = to, !.read = lock_pid(disk)])
    PROVE  LockInv'
<1>0. DOMAIN proc[p] = Fields /\ raced' = raced /\ limits' = limits /\ disk' = disk
  BY Zenon, Shapes
<1>1. Exists(disk, LockFile) /\ lock_pid(disk) = disk[LockFile].owner
  BY Zenon DEF lock_pid
<1>2. PICK x \in Pids : x = lock_pid(disk) /\ proc[x].at # "new"
  BY Zenon, <1>1, Shapes, LockOwner DEF LockInv, Named, Exists
<1>3. ~Runs(x) /\ x # p
  BY Zenon, <1>2 DEF Alive
<1>4. PICK r : r = [proc[p] EXCEPT !.at = to, !.read = x]
  BY Zenon
<1>5. /\ DOMAIN r = Fields /\ r.alive = proc[p].alive /\ r.holds = proc[p].holds /\ r.at = to
      /\ r.read = x
  BY SMTT(30), <1>0, <1>4 DEF Fields, Fresh
<1>6. proc' = [proc EXCEPT ![p] = r]
  BY Zenon, <1>2, <1>4 DEF Becomes
<1>7. Stands(r, p) /\ r.at # "write_pid" /\ r.at # "new" /\ ~r.holds
  <2>1. Stands(proc[p], p)
    BY Zenon DEF LockInv
  <2> QED
    BY Zenon, <1>5, <2>1 DEF Stands
<1>8. Held'
  BY Zenon, <1>0, <1>6, <1>7, HeldKept
<1> QED
  BY Zenon, <1>0, <1>2, <1>3, <1>5, <1>6, <1>7, <1>8, Shapes, OneMoves

\* A process makes the lock: nobody owned it.
LEMMA MadeStep ==
    ASSUME LockInv, NEW p \in Pids, Runs(p), UNCHANGED <<raced, limits>>,
           ~proc[p].holds, ~Exists(disk, LockFile),
           disk' = Write(disk, LockFile, NewLock(p)), Goto(p, "write_pid")
    PROVE  LockInv'
<1>0. DOMAIN disk = Paths /\ DOMAIN proc[p] = Fields /\ LockFile \in Paths
  BY Zenon, Shapes, Files
<1>1. PICK r : r = [proc[p] EXCEPT !.at = "write_pid"]
  BY Zenon
<1>2. /\ DOMAIN r = Fields /\ r.alive = proc[p].alive /\ r.holds = proc[p].holds
      /\ r.at = "write_pid"
  BY SMTT(30), <1>0, <1>1 DEF Fields, Fresh
<1>3. proc' = [proc EXCEPT ![p] = r]
  BY Zenon, <1>1 DEF Becomes, Goto
<1>4. NewLock(p) \in Lock /\ NewLock(p).owner = p
  BY SMTT(30) DEF NewLock, Lock
<1>5. DOMAIN disk' = Paths /\ disk'[LockFile] = NewLock(p)
  BY SMTT(30), <1>0 DEF Write
<1>6. Exists(disk', LockFile) /\ disk'[LockFile].owner = p
  BY Zenon, <1>4, <1>5, NoFileAssumption DEF Exists
<1>7. Held'
  <2>1. proc'[p] = r /\ \A q \in Pids \ {p} : proc'[q] = proc[q]
    BY Zenon, <1>3, Moved
  <2>2. Owns(p)'
    BY Zenon, <1>6 DEF Owns
  <2> QED
    BY Zenon, <2>1, <2>2 DEF LockInv, Held, Owns
<1>8. Stands(r, p)
  <2>1. Stands(proc[p], p)
    BY Zenon DEF LockInv
  <2> QED
    BY Zenon, <1>2, <2>1 DEF Stands, SetupSteps, Unmade
<1> QED
  BY Zenon, <1>2, <1>3, <1>4, <1>5, <1>6, <1>7, <1>8, Shapes, OneMoves

\* A process breaks a lock: the one it had read, or raced says so.
LEMMA BreaksStep ==
    ASSUME NEW A, Sound(A), NEW p \in Pids, NEW from \in {"break", "stop_break"},
           NEW to \in {"acquire_again", "ok"}, Breaks(p, from, to)
    PROVE  LockInv'
<1>0. LockInv
  BY Zenon DEF Sound
<1>s. Stands(proc[p], p) /\ Finds(p)
  BY Zenon, <1>0 DEF LockInv
<1>l. from \notin Ended /\ from \notin Daemon /\ from \notin FirstRun /\ to \in SetupSteps
  BY SMTT(30) DEF Ended, Daemon, FirstRun, Making, SetupSteps, Unmade
<1>1. /\ At(p, from) /\ limits' = limits
      /\ raced' = (raced \/ /\ Exists(disk, LockFile) /\ ~Exists(disk', LockFile)
                            /\ disk[LockFile].owner # proc[p].read)
  BY Zenon DEF Breaks, Step
<1>2. Runs(p) /\ ~proc[p].holds /\ ReadGone(p)
  BY Zenon, <1>l, <1>s, <1>1 DEF At, Runs, Stands, Finds, Holding
<1>3. CASE \E failed \in BOOLEAN : Answers(p, "err", failed, disk)
  <2>1. PICK failed \in BOOLEAN : Answers(p, "err", failed, disk)
    BY Zenon, <1>3
  <2>2. disk' = disk
    BY Zenon, <1>2, <2>1 DEF Answers
  <2>3. raced' = raced
    BY Zenon, <1>0, <1>1, <2>2, Shapes
  <2>4. Kept(A)
    BY Zenon, <1>1, <2>3, RestKept DEF Breaks
  <2> QED
    BY Zenon, <1>l, <1>1, <2>1, <2>4, Here, AnswersHarmless, HarmlessStep
<1>4. CASE /\ Exists(disk, LockFile) /\ disk' = Remove(disk, {LockFile})
           /\ Becomes(p, [proc[p] EXCEPT !.at = to])
  <2>0. DOMAIN disk = Paths /\ DOMAIN proc[p] = Fields /\ LockFile \in Paths
    BY Zenon, <1>0, Shapes, Files
  <2>1. PICK r : r = [proc[p] EXCEPT !.at = to]
    BY Zenon
  <2>2. DOMAIN r = Fields /\ r.alive = proc[p].alive /\ r.holds = proc[p].holds /\ r.at = to
    BY SMTT(30), <2>0, <2>1 DEF Fields, Fresh
  <2>3. proc' = [proc EXCEPT ![p] = r]
    BY Zenon, <1>4, <2>1 DEF Becomes
  <2>4. DOMAIN disk' = Paths /\ disk'[LockFile] = NoFile
    BY SMTT(30), <1>4, <2>0 DEF Remove
  <2>5. Stands(r, p)
    BY Zenon, <1>l, <1>s, <1>2, <2>2 DEF Stands
  <2>6. ASSUME NEW q \in Pids, ~raced', proc'[q].alive,
               proc'[q].holds \/ proc'[q].at = "write_pid"
        PROVE  FALSE
    <3>1. q # p /\ proc'[q] = proc[q]
      BY Zenon, <1>0, <1>2, <2>2, <2>3, <2>6, Moved
    <3>2. ~raced /\ disk[LockFile].owner = proc[p].read
      BY Zenon, <1>1, <1>4, <2>4, <2>6 DEF Exists
    <3>3. Owns(q) /\ Stands(proc[q], q)
      BY Zenon, <1>0, <2>6, <3>1, <3>2 DEF LockInv, Held
    <3>4. ~Runs(q)
      BY Zenon, <1>2, <3>2, <3>3 DEF ReadGone, Owns
    <3>5. proc[q].at \in Daemon \cup FirstRun \cup {"write_pid"}
      BY Zenon, <2>6, <3>1, <3>3 DEF Stands, Holding
    <3>6. \A s \in Daemon \cup FirstRun \cup {"write_pid"} : s \notin Ended
      BY Zenon DEF Ended, Daemon, FirstRun, Making
    <3> QED
      BY Zenon, <2>6, <3>1, <3>4, <3>5, <3>6 DEF Runs
  <2>7. raced' \in BOOLEAN /\ Held'
    BY Zenon, <1>1, <2>6 DEF Held
  <2>8. r.at \notin {"new", "break", "stop_break"} /\ ~Exists(disk', LockFile)
    BY Zenon, <2>2, <2>4 DEF Exists
  <2> QED
    BY Zenon, <1>0, <1>1, <1>2, <2>3, <2>4, <2>5, <2>7, <2>8, OneMoves
<1> QED
  BY Zenon, <1>3, <1>4 DEF Breaks, Step, FileOp

\* create_new, its second attempt after a stale lock, and the two refusals.
LEMMA AcquireStep ==
    ASSUME NEW A, Sound(A), NEW p \in Pids, Acquire(p) \/ AcquireAgain(p)
    PROVE  LockInv'
<1>0. LockInv /\ Stands(proc[p], p)
  BY Zenon DEF Sound, LockInv
<1>1. PICK from \in {"acquire", "acquire_again"} : At(p, from) /\ UNCHANGED others
  BY ZenonT(60) DEF Acquire, AcquireAgain, Step, At
<1>l. /\ from \notin Ended /\ from \notin Daemon /\ from \notin FirstRun
      /\ "break" \in SetupSteps
  BY SMTT(30), <1>1 DEF Ended, Daemon, FirstRun, Making, SetupSteps, Unmade
<1>2. Runs(p) /\ ~proc[p].holds /\ raced' = raced /\ limits' = limits
  BY Zenon, <1>0, <1>1, <1>l DEF At, Runs, Stands, Holding, others
<1>3. CASE \E failed \in BOOLEAN : Answers(p, "err", failed, disk)
  BY Zenon, <1>1, <1>l, <1>3, Here, OthersKept, AnswersHarmless, HarmlessStep
<1>4. CASE /\ ~Exists(disk, LockFile) /\ disk' = Write(disk, LockFile, NewLock(p))
           /\ Goto(p, "write_pid")
  BY Zenon, <1>0, <1>2, <1>4, MadeStep
<1>5. CASE /\ lock_pid(disk) # 0 /\ ~Alive(lock_pid(disk)) /\ UNCHANGED disk
           /\ Becomes(p, [proc[p] EXCEPT !.at = "break", !.read = lock_pid(disk)])
  BY Zenon, <1>0, <1>2, <1>5, <1>l, FoundStep
<1> QED
  BY Zenon, <1>3, <1>4, <1>5 DEF Acquire, AcquireAgain, Step, FileOp, Refuses, Goto

\* The file of a lock whose id is written is of the same process.
LEMMA PidKeepsOwner ==
    ASSUME LockInv, NEW p \in Pids, disk' = PidWritten(disk, p)
    PROVE  /\ DOMAIN disk' = Paths /\ disk'[LockFile] \in Lock \cup {NoFile}
           /\ Exists(disk', LockFile) <=> Exists(disk, LockFile)
           /\ Exists(disk, LockFile) => disk'[LockFile].owner = disk[LockFile].owner
<1>1. CASE ~(Exists(disk, LockFile) /\ disk[LockFile].owner = p)
  BY Zenon, <1>1, Shapes DEF PidWritten
<1>2. CASE Exists(disk, LockFile) /\ disk[LockFile].owner = p
  <2>1. disk[LockFile] \in Lock /\ DOMAIN disk = Paths /\ LockFile \in Paths
    BY Zenon, <1>2, Shapes, Files DEF Exists
  <2>2. PICK l : l = [disk[LockFile] EXCEPT !.written = TRUE]
    BY Zenon
  <2>3. l \in Lock /\ l.owner = disk[LockFile].owner
    BY Zenon, <2>1, <2>2 DEF Lock
  <2>4. disk' = [disk EXCEPT ![LockFile] = l]
    BY Zenon, <1>2, <2>2 DEF PidWritten
  <2>5. DOMAIN disk' = Paths /\ disk'[LockFile] = l
    BY SMTT(30), <2>1, <2>4
  <2> QED
    BY Zenon, <1>2, <2>3, <2>5, NoFileAssumption DEF Exists
<1> QED
  BY Zenon, <1>1, <1>2

\* The process that made the lock writes its id to it and holds it.
LEMMA WritePidStep ==
    ASSUME NEW A, Sound(A), NEW p \in Pids, WritePid(p)
    PROVE  LockInv'
<1>0. LockInv
  BY Zenon DEF Sound
<1>1. At(p, "write_pid") /\ UNCHANGED others /\ raced' = raced /\ limits' = limits
  BY Zenon DEF WritePid, others
<1>2. Runs(p) /\ "write_pid" \notin Ended
  BY Zenon, <1>1 DEF At, Runs, Ended
<1>3. CASE \E failed \in BOOLEAN : Answers(p, "err", failed, disk)
  BY Zenon, <1>1, <1>2, <1>3, Here, OthersKept, AnswersHarmless, HarmlessStep
<1>4. CASE disk' = PidWritten(disk, p) /\ Becomes(p, Locked(p))
  <2>0. DOMAIN proc[p] = Fields /\ raced' \in BOOLEAN
    BY Zenon, <1>0, <1>1, Shapes
  <2>1. PICK b, to : /\ b = Servable(disk, proc[p].secret)
                     /\ to = IF IsSetup(p) THEN "setup_run" ELSE "recover"
    BY Zenon
  <2>2. PICK r : r = [proc[p] EXCEPT !.holds = TRUE, !.servable = b, !.at = to]
    BY Zenon
  <2>3. DOMAIN r = Fields /\ r.alive = proc[p].alive /\ r.holds = TRUE /\ r.at = to
    BY SMTT(30), <2>0, <2>2 DEF Fields, Fresh
  <2>4. proc' = [proc EXCEPT ![p] = r]
    BY Zenon, <1>4, <2>1, <2>2 DEF Becomes, Locked
  <2>5. /\ DOMAIN disk' = Paths /\ disk'[LockFile] \in Lock \cup {NoFile}
        /\ Exists(disk', LockFile) <=> Exists(disk, LockFile)
        /\ Exists(disk, LockFile) => disk'[LockFile].owner = disk[LockFile].owner
    BY Zenon, <1>0, <1>4, PidKeepsOwner
  <2>6. Held'
    <3>1. proc'[p] = r /\ \A q \in Pids \ {p} : proc'[q] = proc[q]
      BY Zenon, <1>0, <2>4, Moved
    <3>2. \A q \in Pids : Owns(q) => Owns(q)'
      BY Zenon, <2>5 DEF Owns
    <3> QED
      BY Zenon, <1>0, <1>1, <3>1, <3>2 DEF LockInv, Held, At
  <2>7. Stands(r, p) /\ r.at \notin {"new", "break", "stop_break"}
    <3>1. proc[p].alive \in BOOLEAN
      BY Zenon, <1>0 DEF LockInv, Stands
    <3>2. to \in Holding(p) /\ (IsSetup(p) => to \in SetupSteps)
      BY Zenon, <2>1 DEF Holding, Daemon, FirstRun, SetupSteps, Unmade
    <3> QED
      BY Zenon, <2>1, <2>3, <3>1, <3>2 DEF Stands
  <2> QED
    BY Zenon, <1>0, <1>1, <1>2, <2>0, <2>4, <2>5, <2>6, <2>7, OneMoves
<1> QED
  BY Zenon, <1>3, <1>4 DEF WritePid, FileOp

\* stop finds the lock of a dead process, or ends.
LEMMA StopStep ==
    ASSUME NEW A, Sound(A), NEW p \in Pids, Stop(p)
    PROVE  LockInv'
<1>0. LockInv /\ Stands(proc[p], p)
  BY Zenon DEF Sound, LockInv
<1>l. /\ "stop" \notin Ended /\ "stop" \notin Daemon /\ "stop" \notin FirstRun
      /\ "stop" \notin SetupSteps
  BY SMTT(30) DEF Ended, Daemon, FirstRun, Making, SetupSteps, Unmade
<1>1. /\ At(p, "stop") /\ UNCHANGED others /\ raced' = raced /\ limits' = limits
      /\ Runs(p) /\ ~proc[p].holds /\ ~IsSetup(p)
  BY Zenon, <1>0, <1>l DEF Stop, others, At, Runs, Stands, Holding
<1>2. CASE Succeeds(p, disk)
  BY Zenon, <1>1, <1>2, <1>l, Here, OthersKept, EndsHarmless, HarmlessStep
<1>3. CASE /\ lock_pid(disk) # 0 /\ ~Alive(lock_pid(disk)) /\ UNCHANGED disk
           /\ Becomes(p, [proc[p] EXCEPT !.at = "stop_break", !.read = lock_pid(disk)])
  BY Zenon, <1>0, <1>1, <1>3, FoundStep
<1> QED
  BY SMTT(30), <1>2, <1>3 DEF Stop

\* The setup daemon removes the lock it holds when it ends.
LEMMA SetupEndsStep ==
    ASSUME LockInv, NEW p \in Pids, SetupEnds(p)
    PROVE  LockInv'
<1>1. /\ At(p, "setup_run") /\ UNCHANGED others /\ disk' = Remove(disk, {LockFile})
      /\ Becomes(p, [Fresh EXCEPT !.at = "ok"])
  BY Zenon DEF SetupEnds
<1>2. Runs(p) /\ proc[p].holds /\ raced' = raced /\ limits' = limits
  BY Zenon, <1>1 DEF At, Runs, Ended, LockInv, Stands, others
<1>3. PICK r : r = [Fresh EXCEPT !.at = "ok"]
  BY Zenon
<1>4. DOMAIN r = Fields /\ r.alive = TRUE /\ r.holds = FALSE /\ r.at = "ok"
  BY SMTT(30), <1>3 DEF Fields, Fresh
<1>5. DOMAIN disk' = Paths /\ disk'[LockFile] = NoFile
  <2>1. DOMAIN disk = Paths /\ LockFile \in Paths
    BY Zenon, Shapes, Files
  <2> QED
    BY SMTT(30), <1>1, <2>1 DEF Remove
<1>6. proc' = [proc EXCEPT ![p] = r]
  BY Zenon, <1>1, <1>3 DEF Becomes
<1> QED
  BY Zenon, <1>2, <1>4, <1>5, <1>6, ReleaseStep


-----------------------------------------------------------------------------
\* Starting, locking and ending touch no other file

\* A directory that is the present one but for the lock.
Aside(d) == DOMAIN d = Paths /\ \A f \in Paths \ {LockFile} : d[f] = disk[f]

\* What a process becomes that starts, dies, or is about the lock.
Begins(p, r) ==
    /\ r.at # "new"
    /\ \/ r.alive = FALSE /\ r.at = proc[p].at
       \/ /\ proc[p].at = "new" \/ (proc[p].alive /\ proc[p].at \in Locking)
          /\ proc[p].at # "new" /\ proc[p].failed => r.failed \/ r.at = "ok"
          /\ r.at \notin Making /\ r.at # "init_create"
          /\ r.at = "init" => ~IsSetup(p) \/ ~r.out
          /\ r.at \in Daemon => r.at = "recover" /\ (r.servable => Servable(disk, r.secret))

Apart(p, A) ==
    /\ Aside(disk') /\ limits' = limits /\ Rest(A)'
    /\ \E r : proc' = [proc EXCEPT ![p] = r] /\ Memory(r, A) /\ Begins(p, r)

\* Making, marking and removing the lock is beside the other files.
LEMMA LockAside ==
    ASSUME LockInv
    PROVE  /\ Aside(disk) /\ Aside(Remove(disk, {LockFile}))
           /\ \A c : Aside(Write(disk, LockFile, c))
           /\ \A p : Aside(PidWritten(disk, p))
<1>1. DOMAIN disk = Paths
  BY Zenon, Shapes
<1> QED
  BY SMTT(30), <1>1 DEF Aside, Remove, Write, PidWritten

\* A process with other flags at a step that needs nothing in memory.
LEMMA LikeMemory ==
    ASSUME NEW A, NEW s, Memory(s, A), NEW r, r.at \in Steps, r.secret = s.secret,
           r.out \in BOOLEAN, r.read \in Owner, r.servable \in BOOLEAN, r.failed = s.failed,
           r.image \in {s.image, NoFile},
           ~r.alive \/ (r.at \notin Loaded /\ r.at \notin Replacing)
    PROVE  Memory(r, A)
  BY Zenon DEF Memory

\* The steps around the lock need nothing in memory and are not the daemon's,
\* nor those of init.
LEMMA LockingSteps ==
    /\ \A to \in Locking \cup {"ok", "err", "init"} :
         to \in Steps /\ to \notin Loaded /\ to \notin Replacing /\ to \notin Making
         /\ to \notin Daemon /\ to # "new" /\ to # "init_create"
    /\ "recover" \in Steps /\ "recover" \notin Loaded /\ "recover" \notin Replacing
    /\ "recover" \notin Making
    /\ {"acquire", "break", "acquire_again", "write_pid", "stop", "stop_break", "setup",
        "setup_run"} \subseteq Locking
    /\ \A c \in Commands : First[c] \in Steps /\ First[c] \notin Loaded /\ First[c] \notin Replacing
                           /\ First[c] \notin Making /\ First[c] \notin Daemon /\ First[c] # "new"
                           /\ First[c] # "init_create"
    /\ First["setup"] # "init" /\ \A to \in Locking \cup {"ok"} : to # "init"
<1>1. /\ \A to \in Locking \cup {"ok", "err", "init"} :
           to \in Steps /\ to \notin Loaded /\ to \notin Replacing /\ to \notin Making
           /\ to \notin Daemon /\ to # "new" /\ to # "init_create"
      /\ "recover" \in Steps /\ "recover" \notin Loaded /\ "recover" \notin Replacing
      /\ "recover" \notin Making
      /\ {"acquire", "break", "acquire_again", "write_pid", "stop", "stop_break", "setup",
          "setup_run"} \subseteq Locking
  BY SMTT(30) DEF Locking, Steps, Ended, Operations, Loaded, Replacing, Making, Daemon
<1>2. \A c \in Commands : First[c] \in Steps /\ First[c] \notin Loaded /\ First[c] \notin Replacing
                           /\ First[c] \notin Making /\ First[c] \notin Daemon /\ First[c] # "new"
                           /\ First[c] # "init_create"
  <2>1. \A c \in Commands :
           First[c] \in {"acquire", "setup", "init", "link", "revoke", "enroll", "export",
                         "import", "rotate", "wipe", "stop"}
    BY SMTT(30) DEF Commands, First
  <2>2. \A s \in {"acquire", "setup", "init", "link", "revoke", "enroll", "export",
                  "import", "rotate", "wipe", "stop"} :
           s \in Steps /\ s \notin Loaded /\ s \notin Replacing /\ s \notin Making
           /\ s \notin Daemon /\ s # "new" /\ s # "init_create"
    BY SMTT(30) DEF Locking, Steps, Ended, Operations, Loaded, Replacing, Making, Daemon
  <2> QED
    BY Zenon, <2>1, <2>2
<1>3. First["setup"] # "init" /\ \A to \in Locking \cup {"ok"} : to # "init"
  BY SMTT(30) DEF First, Locking
<1> QED
  BY Zenon, <1>1, <1>2, <1>3

\* An answer of a process that is about the lock.
LEMMA AnswerApart ==
    ASSUME NEW A, LockInv, NEW p \in Pids, Memory(proc[p], A), limits' = limits, Rest(A)',
           proc[p].alive, proc[p].at \in Locking, NEW answer \in {"ok", "err"},
           NEW failed \in BOOLEAN, Answers(p, answer, failed, disk)
    PROVE  Apart(p, A)
<1>1. DOMAIN disk = Paths
  BY Zenon, Shapes
<1>2. PICK r : Left(r, p, answer, failed, disk, A)
  BY Zenon, <1>1, AnswerLeaves
<1>3. /\ proc' = [proc EXCEPT ![p] = r] /\ Memory(r, A) /\ r.failed = (proc[p].failed \/ failed)
      /\ Aside(disk')
      /\ r.at \in {"ok", "err", "setup_run"}
  BY Zenon, <1>2 DEF Left, Aside
<1>4. r.at \notin Making /\ r.at \notin Daemon /\ r.at # "new" /\ r.at # "init_create"
      /\ r.at # "init"
  BY Zenon, <1>3, LockingSteps
<1>5. proc[p].failed => r.failed
  BY Zenon, <1>3
<1> QED
  BY Zenon, <1>3, <1>4, <1>5 DEF Apart, Begins

\* A process that is about the lock goes to another step around the lock.
LEMMA StepApart ==
    ASSUME NEW A, LockInv, NEW p \in Pids, Memory(proc[p], A), limits' = limits, Rest(A)',
           proc[p].alive, proc[p].at \in Locking, Aside(disk'),
           NEW to \in Locking \cup {"ok"}, NEW x \in Owner, NEW out \in BOOLEAN,
           \/ Becomes(p, [proc[p] EXCEPT !.at = to])
           \/ Becomes(p, [proc[p] EXCEPT !.at = to, !.read = x])
           \/ Becomes(p, [proc[p] EXCEPT !.at = to, !.out = out])
    PROVE  Apart(p, A)
<1>1. PICK r : /\ proc' = [proc EXCEPT ![p] = r]
               /\ \/ r = [proc[p] EXCEPT !.at = to]
                  \/ r = [proc[p] EXCEPT !.at = to, !.read = x]
                  \/ r = [proc[p] EXCEPT !.at = to, !.out = out]
  BY Zenon DEF Becomes
<1>2. DOMAIN proc[p] = Fields /\ proc[p].read \in Owner /\ proc[p].out \in BOOLEAN
      /\ proc[p].servable \in BOOLEAN
  BY Zenon, Shapes DEF Memory
<1>3. /\ r.at = to /\ r.secret = proc[p].secret /\ r.servable = proc[p].servable
      /\ r.failed = proc[p].failed /\ r.image = proc[p].image
      /\ r.read \in {proc[p].read, x} /\ (r.out = proc[p].out \/ r.out = out)
  <2>1. CASE r = [proc[p] EXCEPT !.at = to]
    <3>1. /\ r.at = to /\ r.secret = proc[p].secret /\ r.servable = proc[p].servable
          /\ r.failed = proc[p].failed /\ r.image = proc[p].image
          /\ r.read = proc[p].read /\ r.out = proc[p].out
      BY SMTT(30), <1>2, <2>1 DEF Fields, Fresh
    <3> QED
      BY Zenon, <3>1
  <2>2. CASE r = [proc[p] EXCEPT !.at = to, !.read = x]
    <3>1. /\ r.at = to /\ r.secret = proc[p].secret /\ r.servable = proc[p].servable
          /\ r.failed = proc[p].failed /\ r.image = proc[p].image
          /\ r.read = x /\ r.out = proc[p].out
      BY SMTT(30), <1>2, <2>2 DEF Fields, Fresh
    <3> QED
      BY Zenon, <3>1
  <2>3. CASE r = [proc[p] EXCEPT !.at = to, !.out = out]
    <3>1. /\ r.at = to /\ r.secret = proc[p].secret /\ r.servable = proc[p].servable
          /\ r.failed = proc[p].failed /\ r.image = proc[p].image
          /\ r.read = proc[p].read /\ r.out = out
      BY SMTT(30), <1>2, <2>3 DEF Fields, Fresh
    <3> QED
      BY Zenon, <3>1
  <2> QED
    BY Zenon, <1>1, <2>1, <2>2, <2>3
<1>4. to \in Steps /\ to \notin Loaded /\ to \notin Replacing /\ to \notin Making
      /\ to \notin Daemon /\ to # "new" /\ to # "init_create" /\ to # "init"
  BY Zenon, LockingSteps
<1>5. r.read \in Owner /\ r.out \in BOOLEAN /\ r.servable \in BOOLEAN
  BY Zenon, <1>2, <1>3
<1>6. Memory(r, A)
  BY Zenon, <1>3, <1>4, <1>5, LikeMemory
<1> QED
  BY Zenon, <1>1, <1>3, <1>4, <1>6 DEF Apart, Begins

\* A process starts.
LEMMA StartApart ==
    ASSUME NEW A, A \subseteq Owner, NEW F, ProfileIdFile \in F, LockInv, TypeInv(F, A),
           NEW p \in Pids, Start(p)
    PROVE  Apart(p, A)
<1>1. limits.run[p] \in Commands
  BY Zenon, ProfileAssumption DEF LockInv, Layout, Start
<1>2. PICK c : c = limits.run[p]
  BY Zenon
<1>3. PICK s \in CASE c = "link" -> {p}
                   [] c \in {"serve", "revoke", "enroll", "rotate", "wipe"} -> Offered
                   [] OTHER -> {0} :
      \E out \in IF c \in {"init", "rotate"} THEN BOOLEAN ELSE {FALSE} :
         Becomes(p, [Fresh EXCEPT !.at = First[c], !.secret = s, !.out = out])
  BY Zenon, <1>2 DEF Start
<1>4. PICK out \in BOOLEAN :
         Becomes(p, [Fresh EXCEPT !.at = First[c], !.secret = s, !.out = out])
  BY Zenon, <1>3
<1>5. PICK r : r = [Fresh EXCEPT !.at = First[c], !.secret = s, !.out = out]
  BY Zenon
<1>6. Offered \subseteq Owner
  <2>1. known \subseteq Owner /\ keychain \in [Owner -> Owner \cup {NoFile}]
    BY Zenon DEF TypeInv, Rest
  <2>2. Exists(disk, ProfileIdFile) => disk[ProfileIdFile] \in Owner
    BY Zenon DEF TypeInv, Fits, Exists
  <2> QED
    BY SMTT(30), <2>1, <2>2 DEF Offered
<1>7. s \in Owner
  BY SMTT(30), <1>3, <1>6 DEF Owner
<1>8. /\ r.at = First[c] /\ r.secret = s /\ r.out = out /\ r.read = 0 /\ r.image = NoFile
      /\ r.servable \in BOOLEAN /\ r.failed \in BOOLEAN
  BY SMTT(30), <1>5 DEF Fresh
<1>9. First[c] \in Steps /\ First[c] \notin Loaded /\ First[c] \notin Replacing
      /\ First[c] \notin Making /\ First[c] \notin Daemon /\ First[c] # "new"
      /\ First[c] # "init_create" /\ (IsSetup(p) => First[c] # "init")
  BY Zenon, <1>1, <1>2, LockingSteps DEF IsSetup
<1>10. 0 \in Owner /\ p \in Owner
  BY Zenon DEF Owner
<1>11. Memory(r, A)
  BY Zenon, <1>7, <1>8, <1>9, <1>10 DEF Memory
<1>12. Rest(A)' /\ limits' = limits /\ disk' = disk /\ proc[p].at = "new"
  <2>1. known' = known \cup {p} \/ known' = known
    BY Zenon DEF Start
  <2>2. known' \subseteq Owner
    BY Zenon, <1>10, <2>1 DEF TypeInv, Rest
  <2> QED
    BY Zenon, <2>2 DEF Start, TypeInv, Rest
<1>13. Aside(disk')
  BY Zenon, <1>12, LockAside
<1> QED
  BY Zenon, <1>4, <1>5, <1>8, <1>9, <1>11, <1>12, <1>13 DEF Apart, Begins, Becomes

\* A process dies.
LEMMA CrashApart ==
    ASSUME NEW A, NEW F, LockInv, TypeInv(F, A), NEW p \in Pids, Crash(p)
    PROVE  Apart(p, A)
<1>1. PICK r : r = [proc[p] EXCEPT !.alive = FALSE, !.holds = FALSE, !.image = NoFile]
  BY Zenon
<1>2. DOMAIN proc[p] = Fields /\ Memory(proc[p], A)
  BY Zenon, Shapes DEF TypeInv
<1>3. /\ r.alive = FALSE /\ r.at = proc[p].at /\ r.secret = proc[p].secret
      /\ r.out = proc[p].out /\ r.read = proc[p].read /\ r.image = NoFile
      /\ r.servable = proc[p].servable /\ r.failed = proc[p].failed
  BY SMTT(30), <1>1, <1>2 DEF Fields, Fresh
<1>4. Memory(r, A)
  BY Zenon, <1>2, <1>3 DEF Memory
<1>5. proc' = [proc EXCEPT ![p] = r] /\ disk' = disk /\ UNCHANGED others
  BY Zenon, <1>1 DEF Crash, Becomes
<1>6. Rest(A)' /\ limits' = limits /\ Aside(disk')
  BY Zenon, <1>5, LockAside DEF TypeInv, Rest, others
<1>7. r.at # "new"
  BY Zenon, <1>3 DEF Crash, Runs, Ended
<1> QED
  BY Zenon, <1>3, <1>4, <1>5, <1>6, <1>7 DEF Apart, Begins

\* The process that made the lock has it.
LEMMA WritePidApart ==
    ASSUME NEW A, LockInv, NEW p \in Pids, Memory(proc[p], A), limits' = limits, Rest(A)',
           At(p, "write_pid"), disk' = PidWritten(disk, p), Becomes(p, Locked(p))
    PROVE  Apart(p, A)
<1>1. PICK b \in BOOLEAN : b = Servable(disk, proc[p].secret)
  BY Zenon DEF Servable
<1>2. PICK to \in {"setup_run", "recover"} : to = IF IsSetup(p) THEN "setup_run" ELSE "recover"
  BY Zenon
<1>3. PICK r : r = [proc[p] EXCEPT !.holds = TRUE, !.servable = b, !.at = to]
  BY Zenon
<1>4. proc' = [proc EXCEPT ![p] = r] /\ DOMAIN proc[p] = Fields /\ proc[p].alive
      /\ proc[p].at \in Locking
  BY Zenon, <1>1, <1>2, <1>3, LockingSteps, Shapes
     DEF Becomes, Locked, At
<1>5. /\ r.at = to /\ r.secret = proc[p].secret /\ r.out = proc[p].out /\ r.read = proc[p].read
      /\ r.servable = b /\ r.failed = proc[p].failed /\ r.image = proc[p].image
  BY SMTT(30), <1>3, <1>4 DEF Fields, Fresh
<1>6. to \in Steps /\ to \notin Loaded /\ to \notin Replacing /\ to \notin Making
      /\ (to \in Daemon => to = "recover") /\ to # "new" /\ to # "init_create" /\ to # "init"
  BY Zenon, <1>2, LockingSteps
<1>7. Memory(r, A)
  BY Zenon, <1>5, <1>6 DEF Memory
<1> QED
  BY Zenon, <1>1, <1>4, <1>5, <1>6, <1>7, LockAside DEF Apart, Begins

\* Starting, and whatever concerns the lock, touches no other file.
LEMMA StartingApart ==
    ASSUME NEW A, A \subseteq Owner, NEW F, ProfileIdFile \in F, LockInv, TypeInv(F, A),
           NEW p \in Pids, Starting(p) \/ Setup(p) \/ SetupProfile(p) \/ SetupEnds(p)
    PROVE  Apart(p, A)
<1> USE LockingSteps
<1>h. Memory(proc[p], A) /\ 0 \in Owner /\ FALSE \in BOOLEAN /\ lock_pid(disk) \in Owner
  <2>1. lock_pid(disk) \in Owner
    BY Zenon, Shapes, LockOwner DEF lock_pid, Exists, Owner
  <2> QED
    BY Zenon, <2>1 DEF TypeInv, Owner
<1>r. UNCHANGED <<keychain, known, backups, promised, limits>> => Rest(A)' /\ limits' = limits
  BY Zenon DEF TypeInv, Rest
<1>o. UNCHANGED others => Rest(A)' /\ limits' = limits
  BY Zenon, <1>r DEF others
<1>1. ASSUME Acquire(p) \/ AcquireAgain(p) PROVE Apart(p, A)
  <2>1. PICK from \in {"acquire", "acquire_again"} : At(p, from) /\ UNCHANGED others
    BY ZenonT(60), <1>1 DEF Acquire, AcquireAgain, Step, At
  <2>2. proc[p].alive /\ proc[p].at \in Locking /\ Rest(A)' /\ limits' = limits
    BY Zenon, <1>o, <2>1 DEF At
  <2>3. CASE \E failed \in BOOLEAN : Answers(p, "err", failed, disk)
    BY Zenon, <1>h, <2>2, <2>3, AnswerApart
  <2>4. CASE disk' = Write(disk, LockFile, NewLock(p)) /\ Goto(p, "write_pid")
    BY Zenon, <1>h, <2>2, <2>4, LockAside, StepApart DEF Goto
  <2>5. CASE /\ UNCHANGED disk
             /\ Becomes(p, [proc[p] EXCEPT !.at = "break", !.read = lock_pid(disk)])
    <3>1. Aside(disk')
      BY Zenon, <2>5, LockAside
    <3> QED
      BY Zenon, <1>h, <2>2, <2>5, <3>1, StepApart
  <2> QED
    BY Zenon, <1>1, <2>3, <2>4, <2>5 DEF Acquire, AcquireAgain, Step, FileOp, Refuses, Goto
<1>2. ASSUME NEW from \in {"break", "stop_break"}, NEW to \in {"acquire_again", "ok"},
             Breaks(p, from, to)
      PROVE  Apart(p, A)
  <2>1. proc[p].alive /\ proc[p].at \in Locking /\ Rest(A)' /\ limits' = limits
    BY Zenon, <1>2, <1>r DEF Breaks, Step, At
  <2>2. CASE \E failed \in BOOLEAN : Answers(p, "err", failed, disk)
    BY Zenon, <1>h, <2>1, <2>2, AnswerApart
  <2>3. CASE disk' = Remove(disk, {LockFile}) /\ Becomes(p, [proc[p] EXCEPT !.at = to])
    BY Zenon, <1>h, <2>1, <2>3, LockAside, StepApart
  <2> QED
    BY Zenon, <1>2, <2>2, <2>3 DEF Breaks, Step, FileOp
<1>3. ASSUME WritePid(p) PROVE Apart(p, A)
  <2>1. proc[p].alive /\ proc[p].at \in Locking /\ Rest(A)' /\ limits' = limits
        /\ At(p, "write_pid")
    BY Zenon, <1>3, <1>o DEF WritePid, At
  <2>2. CASE \E failed \in BOOLEAN : Answers(p, "err", failed, disk)
    BY Zenon, <1>h, <2>1, <2>2, AnswerApart
  <2>3. CASE disk' = PidWritten(disk, p) /\ Becomes(p, Locked(p))
    BY Zenon, <1>h, <2>1, <2>3, WritePidApart
  <2> QED
    BY Zenon, <1>3, <2>2, <2>3 DEF WritePid, FileOp
<1>4. ASSUME Stop(p) PROVE Apart(p, A)
  <2>1. proc[p].alive /\ proc[p].at \in Locking /\ Rest(A)' /\ limits' = limits
    BY Zenon, <1>4, <1>o DEF Stop, At
  <2>2. CASE Succeeds(p, disk)
    BY Zenon, <1>h, <2>1, <2>2, AnswerApart DEF Succeeds
  <2>3. CASE /\ UNCHANGED disk
             /\ Becomes(p, [proc[p] EXCEPT !.at = "stop_break", !.read = lock_pid(disk)])
    <3>1. Aside(disk')
      BY Zenon, <2>3, LockAside
    <3> QED
      BY Zenon, <1>h, <2>1, <2>3, <3>1, StepApart
  <2> QED
    BY Zenon, <1>4, <2>2, <2>3 DEF Stop
<1>5. ASSUME Setup(p) PROVE Apart(p, A)
  <2>1. proc[p].alive /\ proc[p].at \in Locking /\ Rest(A)' /\ limits' = limits
    BY Zenon, <1>5, <1>o DEF Setup, At
  <2>2. CASE Refuses(p)
    BY Zenon, <1>h, <2>1, <2>2, AnswerApart DEF Refuses
  <2>3. CASE ~Refuses(p)
    <3>1. PICK out \in BOOLEAN :
             /\ out = (\E f \in {StoreFile, RevisionFile, ProfileIdFile, KeychainFile} :
                          Exists(disk, f))
             /\ Becomes(p, [proc[p] EXCEPT !.at = "acquire", !.out = out]) /\ UNCHANGED disk
      BY Zenon, <1>5, <2>3 DEF Setup
    <3>2. Aside(disk')
      BY Zenon, <3>1, LockAside
    <3> QED
      BY Zenon, <1>h, <2>1, <3>1, <3>2, StepApart
  <2> QED
    BY Zenon, <2>2, <2>3
<1>6. ASSUME SetupProfile(p) PROVE Apart(p, A)
  <2>1. proc[p].alive /\ proc[p].at \in Locking /\ Rest(A)' /\ limits' = limits
        /\ disk' = disk /\ Becomes(p, [proc[p] EXCEPT !.at = "init"]) /\ ~proc[p].out
    BY Zenon, <1>6, <1>o DEF SetupProfile, At, Goto
  <2>2. PICK r : r = [proc[p] EXCEPT !.at = "init"]
    BY Zenon
  <2>3. DOMAIN proc[p] = Fields /\ proc[p].read \in Owner /\ proc[p].out \in BOOLEAN
        /\ proc[p].servable \in BOOLEAN
    BY Zenon, <1>h, Shapes DEF Memory
  <2>4. /\ r.at = "init" /\ r.secret = proc[p].secret /\ r.servable = proc[p].servable
        /\ r.failed = proc[p].failed /\ r.image = proc[p].image
        /\ r.read = proc[p].read /\ r.out = proc[p].out
    BY SMTT(30), <2>2, <2>3 DEF Fields, Fresh
  <2>5. Memory(r, A)
    BY Zenon, <1>h, <2>3, <2>4, LikeMemory
  <2> QED
    BY Zenon, <2>1, <2>2, <2>4, <2>5, LockAside DEF Apart, Begins, Becomes
<1>7. ASSUME SetupEnds(p) PROVE Apart(p, A)
  <2>1. proc[p].alive /\ proc[p].at \in Locking /\ Rest(A)' /\ limits' = limits
        /\ disk' = Remove(disk, {LockFile}) /\ Becomes(p, [Fresh EXCEPT !.at = "ok"])
    BY Zenon, <1>7, <1>o DEF SetupEnds, At
  <2>2. PICK r : r = [Fresh EXCEPT !.at = "ok"]
    BY Zenon
  <2>3. /\ r.at = "ok" /\ r.secret = 0 /\ r.image = NoFile /\ r.read = 0
        /\ r.out \in BOOLEAN /\ r.servable \in BOOLEAN /\ r.failed \in BOOLEAN
    BY SMTT(30), <2>2 DEF Fresh
  <2>4. Memory(r, A)
    BY Zenon, <2>3, BlankMemory DEF Blank
  <2> QED
    BY Zenon, <2>1, <2>2, <2>3, <2>4, LockAside DEF Apart, Begins, Becomes
<1> QED
  BY Zenon, <1>1, <1>2, <1>3, <1>4, <1>5, <1>6, <1>7, StartApart, CrashApart
     DEF Starting, BreakLock, StopBreaks

\* A step beside the other files keeps what they hold.
LEMMA ApartTyped ==
    ASSUME NEW A, NEW F, F \subseteq Paths, LockInv, TypeInv(F, A), NEW p \in Pids, Apart(p, A)
    PROVE  TypeInv(F, A)'
<1>1. \A f \in F : Fits(f, disk'[f], A)
  BY Zenon, Fitting DEF Apart, Aside, TypeInv
<1> QED
  BY Zenon, <1>1, OneTyped DEF Apart

-----------------------------------------------------------------------------
\* Every step

\* A step that moves no process and leaves the lock.
LEMMA SameLock ==
    ASSUME UNCHANGED <<proc, raced, limits>>, DOMAIN disk' = DOMAIN disk,
           disk'[LockFile] = disk[LockFile]
    PROVE  LockInv' <=> LockInv
<1>0. proc' = proc /\ raced' = raced /\ limits' = limits
  BY Zenon
<1>1. Layout' <=> Layout
  BY SMTT(30), <1>0 DEF Layout
<1>2. Named' <=> Named
  BY Zenon, <1>0 DEF Named, Exists
<1>3. Held' <=> Held
  <2>1. ASSUME NEW p \in Pids
        PROVE  /\ Owns(p)' <=> Owns(p)
               /\ raced' = raced /\ proc'[p].alive = proc[p].alive
               /\ proc'[p].holds = proc[p].holds /\ proc'[p].at = proc[p].at
    BY Zenon, <1>0 DEF Owns, Exists
  <2> QED
    BY SMTT(30), <2>1 DEF Held
<1>4. \A p : Stands(proc[p], p)' <=> Stands(proc[p], p)
  BY Zenon, <1>0 DEF Stands, Holding, IsSetup
<1>5. \A p : Finds(p)' <=> Finds(p)
  BY Zenon, <1>0 DEF Finds, ReadGone, Runs
<1> QED
  BY Zenon, <1>1, <1>2, <1>3, <1>4, <1>5 DEF LockInv

\* Only serve, once it is done, and a request to stage touch the staged
\* artifact.
LEMMA StagingStep ==
    ASSUME NEW A, Sound(A), NEW p \in Pids, RecoverEnds(p) \/ DaemonStages(p)
    PROVE  LockInv' /\ TypeInv(Paths, A)'
<1> USE ServingMoves
<1>h. /\ LockInv /\ TypeInv(Paths, A) /\ DOMAIN disk = Paths /\ DOMAIN proc[p] = Fields
      /\ Memory(proc[p], A) /\ Good(disk, A) /\ Kept(A) /\ limits' = limits /\ raced' = raced
      /\ Rest(A)'
  <2>1. Kept(A)
    BY Zenon, OthersKept DEF RecoverEnds, DaemonStages
  <2> QED
    BY Zenon, <2>1, Here, Shapes DEF Sound, TypeInv, Kept
<1>1. ASSUME NEW r, Quiet(p, r, A), proc' = [proc EXCEPT ![p] = r], Runs(p),
             DOMAIN disk' = Paths, NEW c, c \in Arts(A) \cup {NoFile}, disk'[PendingFile] = c,
             \A f \in Paths \ {PendingFile} : disk'[f] = disk[f]
      PROVE  LockInv' /\ TypeInv(Paths, A)'
  <2>1. disk'[LockFile] = disk[LockFile]
    BY Zenon, <1>1, Files, Kinds
  <2>2. LockInv'
    BY Zenon, <1>1, <1>h, <2>1, QuietStep
  <2>3. \A f \in Paths : Fits(f, disk'[f], A)
    <3>1. Fits(PendingFile, c, A)
      BY Zenon, <1>1, Fitting
    <3> QED
      BY Zenon, <1>1, <1>h, <3>1 DEF Good
  <2> QED
    BY Zenon, <1>1, <1>h, <2>2, <2>3, OneTyped DEF Quiet
<1>2. CASE DaemonStages(p)
  <2>1. PICK a \in backups : disk' = Write(disk, PendingFile, a)
    BY Zenon, <1>2 DEF DaemonStages
  <2>2. At(p, "run") /\ proc' = proc
    BY Zenon, <1>2 DEF DaemonStages
  <2>3. a \in Arts(A)
    BY Zenon, <1>h, <2>1 DEF TypeInv, Rest
  <2>4. /\ DOMAIN disk' = Paths /\ disk'[PendingFile] = a
        /\ \A f \in Paths \ {PendingFile} : disk'[f] = disk[f]
    BY SMTT(30), <1>h, <2>1, Files DEF Write
  <2>5. LockInv'
    <3>1. disk'[LockFile] = disk[LockFile]
      BY Zenon, <2>4, Files, Kinds
    <3> QED
      BY Zenon, <1>h, <2>2, <2>4, <3>1, SameLock
  <2>6. \A f \in Paths : Fits(f, disk'[f], A)
    <3>1. Fits(PendingFile, a, A)
      BY Zenon, <2>3, Fitting
    <3> QED
      BY Zenon, <1>h, <2>4, <3>1 DEF Good
  <2>7. TypeInv(Paths, A)'
    BY Zenon, <1>h, <2>2, <2>6 DEF TypeInv, Memory, Fits
  <2> QED
    BY Zenon, <2>5, <2>7
<1>3. CASE RecoverEnds(p)
  <2>1. PICK d : d = Remove(disk, {PendingFile})
    BY Zenon
  <2>2. PICK r : r = [proc[p] EXCEPT !.at = "open"]
    BY Zenon
  <2>3. At(p, "drop_pending") /\ FileOp(p, Exists(disk, PendingFile), d, r, disk)
    BY Zenon, <1>3, <2>1, <2>2 DEF RecoverEnds, Step
  <2>4. CASE disk' = d /\ Becomes(p, r)
    <3>1. /\ DOMAIN disk' = Paths /\ disk'[PendingFile] = NoFile
          /\ \A f \in Paths \ {PendingFile} : disk'[f] = disk[f]
      BY SMTT(30), <1>h, <2>1, <2>4, Files DEF Remove
    <3>2. Quiet(p, r, A) /\ Runs(p)
      BY Zenon, <2>2, <2>3, NextQuiet, RunsAt DEF Carries, Moves
    <3> QED
      BY Zenon, <1>1, <2>4, <3>1, <3>2 DEF Becomes
  <2>5. CASE \E failed \in BOOLEAN : Answers(p, "err", failed, disk)
    BY Zenon, <1>h, <2>3, <2>5, AnswersHarmless, HarmlessStep DEF Carries, Moves
  <2> QED
    BY Zenon, <2>3, <2>4, <2>5 DEF FileOp
<1> QED
  BY Zenon, <1>2, <1>3

\* Every step keeps who holds the lock.
LEMMA LockInvStep ==
    ASSUME Sound(Owner), NEW p \in Pids,
           Starting(p) \/ Serving(p) \/ Initializing(p) \/ Changing(p) \/ Recovering(p)
    PROVE  LockInv'
<1>0. LockInv /\ p \in Owner
  BY Zenon DEF Sound, Owner
<1>1. CASE Starting(p)
  BY Zenon, <1>0, <1>1, StartStep, CrashStep, AcquireStep, BreaksStep, WritePidStep, StopStep
     DEF Starting, BreakLock, StopBreaks
<1>2. CASE Serving(p)
  BY Zenon, <1>2, ServingHarmless, HarmlessStep, StagingStep
<1>3. CASE Initializing(p)
  BY Zenon, <1>0, <1>3, SetupEndsStep, InitializingHarmless, HarmlessStep
<1>4. CASE Changing(p) \/ Recovering(p)
  BY Zenon, <1>4, ChangingHarmless, RecoveringHarmless, HarmlessStep
<1> QED
  BY Zenon, <1>1, <1>2, <1>3, <1>4

\* Steps of a command, and of init for an account in A, make no store of an
\* account outside A.
LEMMA TypedStep ==
    ASSUME NEW A, Sound(A), NEW p \in Pids,
           Starting(p) \/ Serving(p) \/ Initializing(p) \/ Changing(p) \/ Recovering(p),
           \/ p \in A \/ ~Initializing(p) \/ Setup(p) \/ SetupProfile(p) \/ SetupEnds(p)
    PROVE  TypeInv(Paths, A)'
<1>0. LockInv /\ A \subseteq Owner /\ TypeInv(Paths, A) /\ ProfileIdFile \in Paths
  BY Zenon, Files DEF Sound, Elsewhere
<1>1. CASE Starting(p) \/ Setup(p) \/ SetupProfile(p) \/ SetupEnds(p)
  BY Zenon, <1>0, <1>1, StartingApart, ApartTyped
<1>2. CASE Serving(p)
  BY Zenon, <1>2, ServingHarmless, HarmlessStep, StagingStep
<1>3. CASE Initializing(p) /\ p \in A /\ ~SetupEnds(p)
  BY Zenon, <1>3, InitializingHarmless, HarmlessStep
<1>4. CASE Changing(p) \/ Recovering(p)
  BY Zenon, <1>4, ChangingHarmless, RecoveringHarmless, HarmlessStep
<1> QED
  BY Zenon, <1>1, <1>2, <1>3, <1>4

\* A step that changes nothing.
LEMMA Stutters ==
    ASSUME UNCHANGED vars, NEW F, NEW A
    PROVE  /\ LockInv' <=> LockInv
           /\ TypeInv(F, A)' <=> TypeInv(F, A)
<1>1. UNCHANGED <<disk, keychain, proc, known, backups, promised, overlapped, raced, limits>>
  BY Zenon DEF vars
<1>2. LockInv' <=> LockInv
  BY Zenon, <1>1, SameLock
<1>3. TypeInv(F, A)' <=> TypeInv(F, A)
  BY Zenon, <1>1 DEF TypeInv, Rest, Memory, Fits
<1> QED
  BY Zenon, <1>2, <1>3

\* What holds in every state is kept.
LEMMA SoundStep ==
    ASSUME Sound(Owner), [Next]_vars
    PROVE  Sound(Owner)'
<1>1. CASE UNCHANGED vars
  BY Zenon, <1>1, Stutters DEF Sound
<1>2. CASE Next
  <2>1. PICK p \in Pids :
           Starting(p) \/ Serving(p) \/ Initializing(p) \/ Changing(p) \/ Recovering(p)
    BY Zenon, <1>2 DEF Next
  <2>2. p \in Owner
    BY Zenon DEF Owner
  <2>3. LockInv' /\ TypeInv(Paths, Owner)'
    BY Zenon, <2>1, <2>2, LockInvStep, TypedStep
  <2> QED
    BY Zenon, <2>3 DEF Sound
<1> QED
  BY Zenon, <1>1, <1>2

\* A behaviour begins with nothing, or with the profile of account 0.
LEMMA InitSound ==
    ASSUME Init, NEW A, A \subseteq Owner, 0 \in A
    PROVE  Sound(A)
<1>1. PICK e : e = [f \in Paths |-> NoFile]
  BY Zenon
<1>2. PICK d : d = Committed(e, Begun)
  BY Zenon
<1>3. PICK t : t = TRUE
  BY Zenon
<1>4. disk = IF limits.begun THEN [d EXCEPT ![ProfileIdFile] = 0, ![KeychainFile] = t] ELSE e
  BY Zenon, <1>1, <1>2, <1>3 DEF Init
<1>5. PICK v : v = Begun.revision
  BY Zenon
<1>6. Begun \in Imgs(A) /\ v \in 0..MaxRevision
  <2>1. Begun \in Imgs(A)
    BY Zenon, NewForms DEF Begun
  <2> QED
    BY SMTT(30), <1>5, <2>1 DEF Imgs, Image
<1>7. DOMAIN disk = Paths /\ disk[LockFile] = NoFile /\ \A f \in Paths : Fits(f, disk[f], A)
  <2>1. CASE disk = e
    BY Zenon, <1>1, <2>1, Files, Fitting
  <2>2. CASE disk = [d EXCEPT ![ProfileIdFile] = 0, ![KeychainFile] = t]
    <3>1. /\ DOMAIN disk = Paths /\ disk[KeychainFile] = t /\ disk[ProfileIdFile] = 0
          /\ disk[RevisionFile] = v /\ disk[StoreFile] = Begun
          /\ \A f \in Paths \ {KeychainFile, ProfileIdFile, RevisionFile, StoreFile} :
                disk[f] = NoFile
      <4>1. KeychainFile # ProfileIdFile /\ RevisionFile # ProfileIdFile
            /\ StoreFile # ProfileIdFile /\ KeychainFile # RevisionFile
            /\ KeychainFile # StoreFile /\ RevisionFile # StoreFile
        BY SMTT(30) DEF KeychainFile, ProfileIdFile, RevisionFile, StoreFile
      <4>2. {KeychainFile, ProfileIdFile, RevisionFile, StoreFile} \subseteq Paths
        BY SMTT(30), Files DEF Elsewhere
      <4>3. PICK b : b = Begun
        BY Zenon
      <4>4. d = [[e EXCEPT ![StoreFile] = b] EXCEPT ![RevisionFile] = v]
        BY Zenon, <1>2, <1>5, <4>3 DEF Committed, Write
      <4>5. /\ DOMAIN disk = Paths /\ disk[KeychainFile] = t /\ disk[ProfileIdFile] = 0
            /\ disk[RevisionFile] = v /\ disk[StoreFile] = b
            /\ \A f \in Paths \ {KeychainFile, ProfileIdFile, RevisionFile, StoreFile} :
                  disk[f] = NoFile
        BY SMTT(30), <1>1, <2>2, <4>1, <4>2, <4>4
      <4> QED
        BY Zenon, <4>3, <4>5
    <3>2. /\ Fits(KeychainFile, t, A) /\ Fits(ProfileIdFile, 0, A) /\ Fits(RevisionFile, v, A)
          /\ Fits(StoreFile, Begun, A) /\ \A f : Fits(f, NoFile, A)
      BY Zenon, <1>6, Kinds, Fitting DEF Owner
    <3>3. \A f \in Paths : Fits(f, disk[f], A)
      BY Zenon, <3>1, <3>2
    <3>4. LockFile \in Paths \ {KeychainFile, ProfileIdFile, RevisionFile, StoreFile}
      BY Zenon, Files DEF Elsewhere
    <3> QED
      BY Zenon, <3>1, <3>3, <3>4
  <2> QED
    BY Zenon, <1>4, <2>1, <2>2
<1>8. /\ DOMAIN proc = Pids
      /\ \A p \in Pids : proc[p] = Fresh
  BY SMTT(30) DEF Init
<1>9. Memory(Fresh, A)
  <2>1. /\ Fresh.at = "new" /\ Fresh.secret = 0 /\ Fresh.image = NoFile /\ Fresh.read = 0
        /\ Fresh.out \in BOOLEAN /\ Fresh.servable \in BOOLEAN /\ Fresh.failed \in BOOLEAN
    BY SMTT(30) DEF Fresh
  <2>2. "new" \in Steps /\ "new" \notin Loaded /\ "new" \notin Replacing
    BY SMTT(30) DEF Steps, Ended, Loaded, Replacing
  <2> QED
    BY Zenon, <2>1, <2>2 DEF Memory, Owner
<1>10. LockInv
  <2>1. /\ DOMAIN Fresh = Fields /\ Fresh.alive \in BOOLEAN /\ Fresh.holds \in BOOLEAN
        /\ ~Fresh.holds /\ Fresh.at = "new"
    BY Zenon DEF Fields, Fresh
  <2>2. Layout
    BY Zenon, <1>7, <1>8 DEF Init, Layout
  <2>3. ~Exists(disk, LockFile)
    BY Zenon, <1>7 DEF Exists
  <2>4. \A p \in Pids : Stands(proc[p], p)
    BY Zenon, <1>8, <2>1 DEF Stands, SetupSteps, Unmade
  <2>5. \A p \in Pids : Finds(p)
    BY Zenon, <1>8, <2>1 DEF Finds
  <2> QED
    BY Zenon, <1>8, <2>1, <2>2, <2>3, <2>4, <2>5 DEF LockInv, Named, Held
<1>11. Rest(A)
  <2>1. keychain \in [Owner -> Owner \cup {NoFile}]
    BY SMTT(30) DEF Init, Owner
  <2>2. known \subseteq Owner /\ backups \subseteq Arts(A)
    BY SMTT(30) DEF Init, Owner
  <2>3. promised \in [account : Owner \cup {NoFile}, writes : SUBSET Pids]
    BY SMTT(30) DEF Init, Owner, NoPromise
  <2> QED
    BY Zenon, <2>1, <2>2, <2>3 DEF Rest
<1> QED
  BY Zenon, <1>7, <1>8, <1>9, <1>10, <1>11 DEF Sound, TypeInv

\* What the files, the artifacts and the memory of the processes hold, and who
\* holds the lock, in every reachable state.
LEMMA AlwaysSound == Spec => []Sound(Owner)
<1>1. Init => Sound(Owner)
  BY Zenon, InitSound DEF Owner
<1>2. Sound(Owner) /\ [Next]_vars => Sound(Owner)'
  BY Zenon, SoundStep
<1> QED
  BY <1>1, <1>2, PTL DEF Spec
=============================================================================
