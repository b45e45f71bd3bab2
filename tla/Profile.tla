------------------------------ MODULE Profile ------------------------------
(***************************************************************************)
(* The processes that share one profile directory: the daemon (serve), the *)
(* first-run setup, and the commands init, device link-complete, device    *)
(* revoke, keychain enroll, recovery export, import and rotate, wipe and   *)
(* stop.  Only serve and setup take the instance lock, so any two others   *)
(* may run side by side.                                                   *)
(*                                                                         *)
(* A step is one file operation; a process may die before any of them and  *)
(* leave its files behind, and an operation may fail, in which case the    *)
(* process undoes what it did and answers Err in the same step.  A commit  *)
(* is two steps, the store and the marker; what happens inside the commit  *)
(* of one process is the business of Store.  Process ids are not reused.   *)
(***************************************************************************)
EXTENDS ProfileFiles

CONSTANT Profiles   \* bounds: the commands of a behaviour and its mishaps

Commands == {"serve", "setup", "init", "link", "revoke", "enroll", "export", "import",
             "rotate", "wipe", "stop"}

ASSUME ProfileAssumption ==
    \A l \in Profiles : /\ DOMAIN l.run \subseteq Pids
                        /\ \A p \in DOMAIN l.run : l.run[p] \in Commands
                        /\ {l.faults, l.crashes, l.commits, l.refusals} \subseteq Nat

VARIABLES
    disk,       \* the profile directory
    keychain,   \* the OS keychain: the passphrase under an account (external)
    proc,       \* where every process is and what it has in memory
    known,      \* passphrases the user was told or chose
    backups,    \* recovery artifacts the user has
    promised,   \* account and writes the last answers promised to keep
    overlapped, \* two processes have worked on the directory at once
    raced,      \* a lock was removed that was not the lock found stale
    limits, spent

vars == <<disk, keychain, proc, known, backups, promised, overlapped, raced,
          limits, spent>>
others == <<keychain, known, backups, promised, raced, limits>>

Fresh == [at |-> "new", alive |-> TRUE, secret |-> 0, out |-> FALSE, image |-> NoFile,
          read |-> 0, holds |-> FALSE, servable |-> FALSE, failed |-> FALSE]

\* The steps of the commands: before the first and after the last, around the
\* instance lock, and the operations on the profile's files.
Ended == {"new", "ok", "err"}
Locking == {"acquire", "break", "acquire_again", "write_pid", "stop",
            "stop_break", "setup", "setup_run"}
Operations ==
    {"init", "init_create", "init_identity", "init_registry", "init_id", "init_keychain",
     "init_mark", "init_out", "setup_undo", "link", "link_batch",
     "revoke", "revoke_put", "revoke_marker",
     "enroll", "enroll_id", "enroll_save", "enroll_mark",
     "wipe", "wipe_keychain", "wipe_store", "wipe_revision", "wipe_rest",
     "export", "export_revision", "import", "import_store", "import_revision",
     "rotate", "rotate_rekey", "rotate_store", "rotate_revision", "rotate_install",
     "rotate_install_revision", "rotate_drop", "rotate_drop_revision", "rotate_keychain",
     "recover", "recover_store", "recover_revision", "install_store", "install_revision",
     "drop_old", "drop_pending", "open", "run", "commit_marker", "locked",
     "wipe_marker", "wipe_failed"}
Steps == Ended \cup Locking \cup Operations

Process == [at : Steps, alive : BOOLEAN, secret : Owner, out : BOOLEAN,
            image : Image \cup Artifact \cup {NoFile}, read : Owner, holds : BOOLEAN,
            servable : BOOLEAN, failed : BOOLEAN]

NoPromise == [account |-> NoFile, writes |-> {}]

TypeOK ==
    /\ DOMAIN disk = Paths
    /\ \A f \in Images : disk[f] \in Image \cup {NoFile}
    /\ disk[PendingFile] \in Artifact \cup {NoFile}
    /\ disk[LockFile] \in Lock \cup {NoFile}
    /\ keychain \in [Owner -> Owner \cup {NoFile}]
    /\ proc \in [Pids -> Process]
    /\ known \subseteq Owner /\ backups \subseteq Artifact
    /\ promised \in [account : Owner \cup {NoFile}, writes : SUBSET Pids]
    /\ overlapped \in BOOLEAN /\ raced \in BOOLEAN

\* The profile some behaviours begin with, as init leaves it.
Begun == Registered(0)

Init ==
    /\ limits \in Profiles
    /\ disk = LET empty == [f \in Paths |-> NoFile] IN
              IF limits.begun
              THEN [Committed(empty, Begun) EXCEPT ![ProfileIdFile] = 0,
                                                   ![KeychainFile] = TRUE]
              ELSE empty
    /\ keychain = [a \in Owner |-> IF limits.begun /\ a = 0 THEN 0 ELSE NoFile]
    /\ proc = [p \in Pids |-> Fresh]
    /\ known = IF limits.begun THEN {0} ELSE {}
    /\ backups = {}
    /\ promised = IF limits.begun THEN [account |-> 0, writes |-> {}] ELSE NoPromise
    /\ overlapped = FALSE /\ raced = FALSE
    /\ spent = [faults |-> 0, crashes |-> 0, commits |-> 0, refusals |-> 0]

-----------------------------------------------------------------------------
\* Processes

Spend(what) == /\ spent[what] < limits[what]
               /\ spent' = [spent EXCEPT ![what] = @ + 1]

Runs(p) == proc[p].alive /\ proc[p].at \notin Ended
At(p, step) == proc[p].alive /\ proc[p].at = step

\* The processes that read or write the profile's files.
Working(ps) == {p \in Pids : ps[p].alive /\ ps[p].at \notin Ended \cup Locking}

IsSetup(p) == p \in DOMAIN limits.run /\ limits.run[p] = "setup"

Becomes(p, r) == proc' = [proc EXCEPT ![p] = r]
Goto(p, step) == Becomes(p, [proc[p] EXCEPT !.at = step])

\* The command answers and leaves the directory d.  The setup daemon answers
\* the request and goes on; any other process ends, and one that holds the
\* instance lock removes the lock file.
Answers(p, answer, failed, d) ==
    IF IsSetup(p) /\ proc[p].holds /\ answer = "err"
    THEN /\ Becomes(p, [Fresh EXCEPT !.at = "setup_run", !.holds = TRUE,
                                     !.failed = proc[p].failed \/ failed])
         /\ disk' = d
    ELSE /\ Becomes(p, [Fresh EXCEPT !.at = answer, !.servable = proc[p].servable,
                                     !.failed = proc[p].failed \/ failed])
         /\ disk' = IF proc[p].holds THEN Remove(d, {LockFile}) ELSE d

Succeeds(p, d) == Answers(p, "ok", FALSE, d) /\ UNCHANGED spent
Refuses(p) == Answers(p, "err", FALSE, disk) /\ UNCHANGED spent

\* A file operation of p, possible when can holds: it leaves the directory
\* after and p as r; or it fails, p leaves undone and answers Err.
FileOp(p, can, after, r, undone) ==
    \/ can /\ disk' = after /\ Becomes(p, r) /\ UNCHANGED spent
    \/ ~can /\ Answers(p, "err", FALSE, undone) /\ UNCHANGED spent
    \/ can /\ Spend("faults") /\ Answers(p, "err", TRUE, undone)

Step(p, from, can, after, to, undone) ==
    At(p, from) /\ FileOp(p, can, after, [proc[p] EXCEPT !.at = to], undone)

\* An operation whose failure the code ignores.
Tries(p, from, after, to) ==
    /\ At(p, from) /\ Goto(p, to)
    /\ \/ disk' = after /\ UNCHANGED spent
       \/ Spend("faults") /\ UNCHANGED disk

\* The passphrases the user can give: known ones, and with --keychain the one
\* stored under the account of profile.id.
Offered ==
    known \cup (IF Exists(disk, ProfileIdFile)
                THEN {keychain[disk[ProfileIdFile]]} \ {NoFile} ELSE {})

\* The live store could be served with passphrase s.
Servable(d, s) == CanOpen(d, s) /\ Serves(d[StoreFile])

First == [serve |-> "acquire", setup |-> "setup", init |-> "init", link |-> "link",
          revoke |-> "revoke", enroll |-> "enroll", export |-> "export",
          import |-> "import", rotate |-> "rotate", wipe |-> "wipe", stop |-> "stop"]

\* A process starts, with the passphrase it was given; link-complete sets the
\* passphrase of a new profile.
Start(p) ==
    LET c == limits.run[p] IN
    /\ p \in DOMAIN limits.run /\ proc[p].at = "new" /\ \A q \in Pids : q < p => proc[q].at # "new"
    /\ \E s \in CASE c = "link" -> {p}
                  [] c \in {"serve", "revoke", "enroll", "rotate", "wipe"} -> Offered
                  [] OTHER -> {0} :
       \E out \in IF c \in {"init", "rotate"} THEN BOOLEAN ELSE {FALSE} :
           /\ Becomes(p, [Fresh EXCEPT !.at = First[c], !.secret = s, !.out = out])
           /\ known' = IF c = "link" THEN known \cup {p} ELSE known
    /\ UNCHANGED <<disk, keychain, backups, promised, raced, limits, spent>>

\* A process dies; its files and its lock stay.
Crash(p) ==
    /\ Runs(p) /\ Spend("crashes")
    /\ Becomes(p, [proc[p] EXCEPT !.alive = FALSE, !.holds = FALSE, !.image = NoFile])
    /\ UNCHANGED <<disk, others>>

-----------------------------------------------------------------------------
\* InstanceLock::acquire, its Drop (in Answers), and stop

Alive(pid) == pid # 0 /\ Runs(pid)

\* What follows the acquisition.
Locked(p) == [proc[p] EXCEPT !.holds = TRUE, !.servable = Servable(disk, proc[p].secret),
                             !.at = IF IsSetup(p) THEN "setup_run" ELSE "recover"]

\* Slip: a lock of any other process is broken.
AcquireBreaksAny(p) ==
    /\ \/ /\ ~Exists(disk, LockFile)
          /\ Step(p, "acquire", TRUE, Write(disk, LockFile, NewLock(p)), "write_pid", disk)
       \/ /\ At(p, "acquire") /\ Exists(disk, LockFile)
          /\ LET pid == lock_pid(disk) IN
             IF pid = 0 THEN Refuses(p)
             ELSE /\ Becomes(p, [proc[p] EXCEPT !.at = "break", !.read = pid])
                  /\ UNCHANGED <<disk, spent>>
    /\ UNCHANGED others

\* create_new.  A lock of a process that is gone is broken once; one without a
\* process id, or of a process that lives, is not.
Acquire(p) ==
    /\ \/ /\ ~Exists(disk, LockFile)
          /\ Step(p, "acquire", TRUE, Write(disk, LockFile, NewLock(p)), "write_pid", disk)
       \/ /\ At(p, "acquire") /\ Exists(disk, LockFile)
          /\ LET pid == lock_pid(disk) IN
             IF pid = 0 \/ Alive(pid) THEN Refuses(p)
             ELSE /\ Becomes(p, [proc[p] EXCEPT !.at = "break", !.read = pid])
                  /\ UNCHANGED <<disk, spent>>
    /\ UNCHANGED others

\* remove_file takes the lock that is there now.
Breaks(p, from, to) ==
    /\ Step(p, from, Exists(disk, LockFile), Remove(disk, {LockFile}), to, disk)
    /\ raced' = (raced \/ /\ Exists(disk, LockFile) /\ ~Exists(disk', LockFile)
                          /\ disk[LockFile].owner # proc[p].read)
    /\ UNCHANGED <<keychain, known, backups, promised, limits>>

BreakLock(p) == Breaks(p, "break", "acquire_again")

AcquireAgain(p) ==
    /\ Step(p, "acquire_again", ~Exists(disk, LockFile),
            Write(disk, LockFile, NewLock(p)), "write_pid", disk)
    /\ UNCHANGED others

WritePid(p) ==
    /\ At(p, "write_pid")
    /\ FileOp(p, TRUE, PidWritten(disk, p), Locked(p), disk)
    /\ UNCHANGED others

\* stop: a lock of a dead process is removed; a living daemon is sent TERM, which
\* is one of the ways it ends.
Stop(p) ==
    /\ At(p, "stop")
    /\ LET pid == lock_pid(disk) IN
       IF pid # 0 /\ ~Alive(pid)
       THEN /\ Becomes(p, [proc[p] EXCEPT !.at = "stop_break", !.read = pid])
            /\ UNCHANGED <<disk, spent>>
       ELSE Succeeds(p, disk)
    /\ UNCHANGED others

StopBreaks(p) == Breaks(p, "stop_break", "ok")

-----------------------------------------------------------------------------
\* init, and the setup daemon that runs it for the browser

\* setup looks at the directory before it takes the lock.  It refuses a whole
\* profile; on the remains of one it only shows that there are some.
Setup(p) ==
    /\ At(p, "setup")
    /\ IF \A f \in {StoreFile, RevisionFile, ProfileIdFile} : Exists(disk, f)
       THEN Refuses(p)
       ELSE /\ Becomes(p, [proc[p] EXCEPT !.at = "acquire",
                  !.out = \E f \in {StoreFile, RevisionFile, ProfileIdFile, KeychainFile} :
                             Exists(disk, f)])
            /\ UNCHANGED <<disk, spent>>
    /\ UNCHANGED others

\* POST setup/profile; out is the status setup computed when it started.
SetupProfile(p) ==
    /\ At(p, "setup_run") /\ ~proc[p].out
    /\ Goto(p, "init")
    /\ UNCHANGED <<disk, others, spent>>

SetupEnds(p) ==
    /\ At(p, "setup_run")
    /\ Becomes(p, [Fresh EXCEPT !.at = "ok"]) /\ disk' = Remove(disk, {LockFile})
    /\ UNCHANGED <<others, spent>>

InitBegins(p) ==
    /\ Step(p, "init", ~Exists(disk, StoreFile), disk, "init_create", disk)
    /\ UNCHANGED others

\* EncryptedStore::initialize; a failure removes both files.
InitCreates(p) ==
    /\ Step(p, "init_create", ~Exists(disk, StoreFile),
            Committed(disk, New(p, p)), "init_identity",
            IF Exists(disk, StoreFile) THEN disk ELSE Remove(disk, {StoreFile, RevisionFile}))
    /\ UNCHANGED others

\* The two puts of identity and registry.
InitPutsIdentity(p) ==
    /\ Step(p, "init_identity", Exists(disk, StoreFile),
            Committed(disk, Identified(p)), "init_registry", disk)
    /\ UNCHANGED others

InitPutsRegistry(p) ==
    /\ Step(p, "init_registry", Exists(disk, StoreFile),
            Committed(disk, Registered(p)), "init_id", disk)
    /\ UNCHANGED others

InitWritesId(p) ==
    /\ Step(p, "init_id", TRUE, Write(disk, ProfileIdFile, p), "init_keychain", disk)
    /\ UNCHANGED others

\* The keychain may refuse; then init goes on without it.
InitEnrolls(p) ==
    /\ At(p, "init_keychain")
    /\ \/ /\ keychain' = [keychain EXCEPT ![p] = p] /\ Goto(p, "init_mark")
          /\ UNCHANGED spent
       \/ /\ Spend("refusals") /\ UNCHANGED keychain
          /\ Goto(p, IF IsSetup(p) THEN "setup_undo" ELSE "init_out")
    /\ UNCHANGED <<disk, known, backups, promised, raced, limits>>

InitMarks(p) ==
    /\ Step(p, "init_mark", TRUE, Write(disk, KeychainFile, TRUE), "init_out", disk)
    /\ UNCHANGED others

\* The passphrase goes to a file or to the screen; the setup daemon tells nobody.
\* When the file cannot be written everything is taken away again.
InitEnds(p) ==
    /\ At(p, "init_out")
    /\ \/ /\ Succeeds(p, disk)
          /\ known' = IF IsSetup(p) THEN known ELSE known \cup {p}
          /\ promised' = [account |-> p, writes |-> {}]
          /\ UNCHANGED keychain
       \/ /\ proc[p].out /\ Spend("faults")
          /\ Answers(p, "err", TRUE,
                     Remove(disk, {StoreFile, RevisionFile, ProfileIdFile, KeychainFile}))
          /\ keychain' = [keychain EXCEPT ![p] = NoFile]
          /\ UNCHANGED <<known, promised>>
    /\ UNCHANGED <<backups, raced, limits>>

\* Slip: an account the keychain refused is kept.
SetupKeeps(p) ==
    /\ At(p, "setup_undo") /\ Answers(p, "err", FALSE, disk)
    /\ UNCHANGED <<others, spent>>

\* init_from_setup without a keychain wipes the profile; what wipe answers, also
\* when it fails before or after the store is gone, is ignored.
SetupUndoes(p) ==
    /\ At(p, "setup_undo")
    /\ \/ /\ Answers(p, "err", FALSE,
                     Remove(disk, {StoreFile, RevisionFile, ProfileIdFile, KeychainFile}))
          /\ UNCHANGED spent
       \/ /\ Spend("faults")
          /\ \E d \in {disk, Remove(disk, {StoreFile})} : Answers(p, "err", TRUE, d)
    /\ UNCHANGED others

-----------------------------------------------------------------------------
\* Commands that open the store

\* open_store, and what the command goes on with.
OpensStore(p, from, needsProfile, to) ==
    /\ At(p, from)
    /\ LET can == CanOpen(disk, proc[p].secret) /\ (needsProfile => disk[StoreFile].ready) IN
       FileOp(p, can, IF can THEN Opened(disk) ELSE disk,
              [proc[p] EXCEPT !.at = to, !.image = disk[StoreFile]], disk)
    /\ UNCHANGED others

Revoke(p) == OpensStore(p, "revoke", TRUE, "revoke_put")
Enroll(p) == OpensStore(p, "enroll", TRUE, "enroll_id")
Rotate(p) == OpensStore(p, "rotate", FALSE, "rotate_rekey")
Wipe(p) == OpensStore(p, "wipe", FALSE, "wipe_keychain")

\* A commit of what p has in memory: the store file, which must be there, and
\* then the marker.  A commit that fails leaves both as they were (Store).
WritesStore(p, from, image, to) ==
    /\ At(p, from) /\ image.revision <= MaxRevision
    /\ FileOp(p, Exists(disk, StoreFile), Write(disk, StoreFile, image),
              [proc[p] EXCEPT !.at = to, !.image = image], disk)
    /\ UNCHANGED others

WithMarker(p) == Write(disk, RevisionFile, proc[p].image.revision)

\* The write of p is acknowledged.
Promises(p) ==
    promised' = IF promised.account = NoFile THEN promised
                ELSE [promised EXCEPT !.writes = @ \cup {p}]

\* device revoke, on the account root device, of another device or of this one.
RevokePuts(p) ==
    \E active \in BOOLEAN :
        WritesStore(p, "revoke_put",
                    [Written(proc[p].image, p) EXCEPT !.active = @ /\ active],
                    "revoke_marker")

RevokeEnds(p) ==
    /\ At(p, "revoke_marker") /\ Succeeds(p, WithMarker(p)) /\ Promises(p)
    /\ UNCHANGED <<keychain, known, backups, raced, limits>>

\* keychain enroll: profile.id, the keychain, and the mark.
EnrollWritesId(p) ==
    /\ Step(p, "enroll_id", TRUE, Write(disk, ProfileIdFile, proc[p].image.account),
            "enroll_save", disk)
    /\ UNCHANGED others

EnrollSaves(p) ==
    /\ At(p, "enroll_save")
    /\ \/ /\ keychain' = [keychain EXCEPT ![proc[p].image.account] = proc[p].secret]
          /\ Goto(p, "enroll_mark") /\ UNCHANGED <<disk, spent>>
       \/ /\ Spend("refusals") /\ Answers(p, "err", FALSE, disk) /\ UNCHANGED keychain
    /\ UNCHANGED <<known, backups, promised, raced, limits>>

EnrollMarks(p) ==
    /\ Step(p, "enroll_mark", TRUE, Write(disk, KeychainFile, TRUE), "ok", disk)
    /\ UNCHANGED others

\* device link-complete: a new store with the user's passphrase, and one batch.
Link(p) ==
    /\ Step(p, "link", ~Exists(disk, StoreFile), Committed(disk, New(p, p)), "link_batch",
            IF Exists(disk, StoreFile) THEN disk ELSE Remove(disk, {StoreFile, RevisionFile}))
    /\ UNCHANGED others

LinkEnds(p) ==
    /\ Step(p, "link_batch", Exists(disk, StoreFile),
            Committed(disk, [Identified(p) EXCEPT !.ready = TRUE]), "ok", disk)
    /\ promised' = IF proc'[p].at = "ok" THEN [account |-> p, writes |-> {}] ELSE promised
    /\ UNCHANGED <<keychain, known, backups, raced, limits>>

\* wipe: the keychain entry of an enrolled profile, the two files, the rest.
WipeKeychain(p) ==
    LET enrolled == Exists(disk, ProfileIdFile) /\ Exists(disk, KeychainFile)
        account == disk[ProfileIdFile] IN
    /\ At(p, "wipe_keychain")
    /\ IF ~enrolled THEN Goto(p, "wipe_store") /\ UNCHANGED <<disk, keychain, spent>>
       ELSE \/ /\ keychain[account] # NoFile /\ Goto(p, "wipe_store")
               /\ keychain' = [keychain EXCEPT ![account] = NoFile]
               /\ UNCHANGED <<disk, spent>>
            \/ /\ keychain[account] = NoFile /\ Refuses(p) /\ UNCHANGED keychain
            \/ /\ Spend("refusals") /\ Answers(p, "err", FALSE, disk)
               /\ UNCHANGED keychain
    /\ UNCHANGED <<known, backups, promised, raced, limits>>

WipeStore(p) ==
    /\ Step(p, "wipe_store", Exists(disk, StoreFile) /\ Exists(disk, RevisionFile),
            Remove(disk, {StoreFile}), "wipe_revision", disk)
    /\ promised' = NoPromise
    /\ UNCHANGED <<keychain, known, backups, raced, limits>>

WipeRevision(p) ==
    /\ Step(p, "wipe_revision", Exists(disk, RevisionFile), Remove(disk, {RevisionFile}),
            "wipe_rest", disk)
    /\ UNCHANGED others

WipeEnds(p) ==
    /\ At(p, "wipe_rest")
    /\ Succeeds(p, Remove(disk, {ProfileIdFile, KeychainFile}))
    /\ UNCHANGED others

-----------------------------------------------------------------------------
\* recovery export, import and rotate

\* export reads the two files one after the other.
Export(p) ==
    /\ At(p, "export")
    /\ FileOp(p, Exists(disk, StoreFile) /\ Exists(disk, RevisionFile), disk,
              [proc[p] EXCEPT !.at = "export_revision", !.image = disk[StoreFile]], disk)
    /\ UNCHANGED others

ExportEnds(p) ==
    /\ At(p, "export_revision")
    /\ IF Exists(disk, RevisionFile)
       THEN /\ Succeeds(p, disk)
            /\ backups' = backups \cup {[store |-> proc[p].image,
                                         revision |-> disk[RevisionFile]]}
       ELSE Refuses(p) /\ UNCHANGED backups
    /\ UNCHANGED <<keychain, known, promised, raced, limits>>

\* import refuses when either live file is there.  It checks the hashes of an
\* artifact, and not that its two parts belong together.
Import(p) ==
    /\ At(p, "import")
    /\ IF Exists(disk, StoreFile) \/ Exists(disk, RevisionFile) \/ backups = {}
       THEN Refuses(p)
       ELSE \E a \in backups :
              FileOp(p, TRUE, Write(Write(disk, Temporary(p), a.store),
                                    TemporaryRevision(p), a.revision),
                     [proc[p] EXCEPT !.at = "import_store"], disk)
    /\ UNCHANGED others

ImportStore(p) ==
    /\ Step(p, "import_store", TRUE, Rename(disk, Temporary(p), StoreFile),
            "import_revision", Remove(disk, {Temporary(p), TemporaryRevision(p)}))
    /\ UNCHANGED others

ImportRevision(p) ==
    /\ Step(p, "import_revision", TRUE, Rename(disk, TemporaryRevision(p), RevisionFile),
            "ok", Remove(disk, {StoreFile, TemporaryRevision(p)}))
    /\ promised' = IF proc'[p].at = "ok" /\ Exists(disk, StoreFile)
                   THEN [account |-> disk[StoreFile].account,
                         writes |-> disk[StoreFile].writes] ELSE promised
    /\ UNCHANGED <<keychain, known, backups, raced, limits>>

\* rotate writes the passphrase to a file first when it was given one, and
\* takes the file away again when it fails, except in RotateInstalls.
Tells(p) ==
    known' = IF proc[p].out /\ proc'[p].at = "rotate_store" THEN known \cup {p} ELSE known

Forgets(p) ==
    known' = IF proc'[p].at = "err" THEN known \ {p} ELSE known

RotateRekeys(p) ==
    /\ Step(p, "rotate_rekey", TRUE,
            Write(Write(disk, Temporary(p), Rekeyed(proc[p].image, p)),
                  TemporaryRevision(p), 1), "rotate_store", disk)
    /\ Tells(p)
    /\ UNCHANGED <<keychain, backups, promised, raced, limits>>

Unrotated(d, p) == Remove(d, {Temporary(p), TemporaryRevision(p)})

\* The active store is renamed away, and its marker after it.
RotateSetsAside(p) ==
    /\ \/ Step(p, "rotate_store", Exists(disk, StoreFile),
               Rename(disk, StoreFile, Old(p)), "rotate_revision", Unrotated(disk, p))
       \/ Step(p, "rotate_revision", Exists(disk, RevisionFile),
               Rename(disk, RevisionFile, OldRevision(p)), "rotate_install",
               Unrotated(Rename(disk, Old(p), StoreFile), p))
    /\ Forgets(p)
    /\ UNCHANGED <<keychain, backups, promised, raced, limits>>

PutBack(d, p) == Rename(Rename(d, Old(p), StoreFile), OldRevision(p), RevisionFile)

RotateInstalls(p) ==
    /\ Step(p, "rotate_install", TRUE, Rename(disk, Temporary(p), StoreFile),
            "rotate_install_revision", Remove(PutBack(disk, p), {TemporaryRevision(p)}))
    /\ UNCHANGED others

\* Slip: the store that replaced the old one is not removed, so the old one
\* overwrites nothing and its marker comes back alone.
RotateInstallsRevisionHalfUndone(p) ==
    /\ Step(p, "rotate_install_revision", TRUE,
            Rename(disk, TemporaryRevision(p), RevisionFile), "rotate_drop",
            Rename(disk, OldRevision(p), RevisionFile))
    /\ Forgets(p)
    /\ UNCHANGED <<keychain, backups, promised, raced, limits>>

RotateInstallsRevision(p) ==
    /\ Step(p, "rotate_install_revision", TRUE,
            Rename(disk, TemporaryRevision(p), RevisionFile), "rotate_drop",
            PutBack(Remove(disk, {StoreFile}), p))
    /\ Forgets(p)
    /\ UNCHANGED <<keychain, backups, promised, raced, limits>>

RotateDrops(p) ==
    /\ \/ Tries(p, "rotate_drop", Remove(disk, {Old(p)}), "rotate_drop_revision")
       \/ Tries(p, "rotate_drop_revision", Remove(disk, {OldRevision(p)}), "rotate_keychain")
    /\ UNCHANGED others

\* The keychain follows if it will, and then the mark; without a file the
\* passphrase is told only now.
RotateEnds(p) ==
    /\ At(p, "rotate_keychain")
    /\ IF Exists(disk, ProfileIdFile)
       THEN \/ /\ keychain' = [keychain EXCEPT ![disk[ProfileIdFile]] = p]
               /\ Succeeds(p, Write(disk, KeychainFile, TRUE))
            \/ /\ Spend("refusals") /\ Answers(p, "ok", FALSE, disk) /\ UNCHANGED keychain
       ELSE Succeeds(p, disk) /\ UNCHANGED keychain
    /\ known' = known \cup {p}
    /\ UNCHANGED <<backups, promised, raced, limits>>

-----------------------------------------------------------------------------
\* serve: apply_pending_recovery, then the daemon

\* Slip: the artifact is taken away as soon as it is read.
RecoverTakesPending(p) ==
    /\ At(p, "recover")
    /\ IF ~Exists(disk, PendingFile)
       THEN Goto(p, "open") /\ UNCHANGED <<disk, spent>>
       ELSE FileOp(p, Applies(disk[PendingFile], proc[p].secret),
                   Remove(disk, {PendingFile}),
                   [proc[p] EXCEPT !.at = "recover_store", !.image = disk[PendingFile]], disk)
    /\ UNCHANGED others

\* The staged artifact is parsed, and opened and validated in files of its own.
Recover(p) ==
    /\ At(p, "recover")
    /\ IF ~Exists(disk, PendingFile)
       THEN Goto(p, "open") /\ UNCHANGED <<disk, spent>>
       ELSE FileOp(p, Applies(disk[PendingFile], proc[p].secret), disk,
                   [proc[p] EXCEPT !.at = "recover_store", !.image = disk[PendingFile]], disk)
    /\ UNCHANGED others

\* The live files that are there are renamed away.
RecoverSetsAside(p) ==
    /\ \/ Step(p, "recover_store", TRUE, Rename(disk, StoreFile, Old(p)),
               "recover_revision", disk)
       \/ Step(p, "recover_revision", TRUE, Rename(disk, RevisionFile, OldRevision(p)),
               "install_store", Rename(disk, Old(p), StoreFile))
    /\ UNCHANGED others

\* Slip: the marker never goes back, not even to the artifact's revision.
RecoverInstallsHigherMarker(p) ==
    /\ \/ Step(p, "install_store", TRUE, Write(disk, StoreFile, proc[p].image.store),
               "install_revision", Reinstated(disk, p))
       \/ Step(p, "install_revision", TRUE,
               Write(disk, RevisionFile,
                     IF Exists(disk, OldRevision(p)) THEN disk[OldRevision(p)]
                     ELSE proc[p].image.revision), "drop_old",
               Reinstated(disk, p))
    /\ UNCHANGED others

\* The artifact's files are written in their place.
RecoverInstalls(p) ==
    /\ \/ Step(p, "install_store", TRUE, Write(disk, StoreFile, proc[p].image.store),
               "install_revision", Reinstated(disk, p))
       \/ Step(p, "install_revision", TRUE,
               Write(disk, RevisionFile, proc[p].image.revision), "drop_old",
               Reinstated(disk, p))
    /\ UNCHANGED others

\* From here on the profile is the one of the artifact.
RecoverDropsOld(p) ==
    /\ Tries(p, "drop_old", Remove(disk, {Old(p), OldRevision(p)}), "drop_pending")
    /\ promised' = [account |-> proc[p].image.store.account,
                    writes |-> proc[p].image.store.writes]
    /\ UNCHANGED <<keychain, known, backups, raced, limits>>

RecoverEnds(p) ==
    /\ Step(p, "drop_pending", Exists(disk, PendingFile), Remove(disk, {PendingFile}),
            "open", disk)
    /\ UNCHANGED others

\* The store is opened, and serve ends unless it can go on with what is in it.
Serve(p) ==
    /\ At(p, "open")
    /\ FileOp(p, Servable(disk, proc[p].secret),
              IF CanOpen(disk, proc[p].secret) THEN Opened(disk) ELSE disk,
              [proc[p] EXCEPT !.at = "run", !.image = disk[StoreFile]],
              IF CanOpen(disk, proc[p].secret) THEN Opened(disk) ELSE disk)
    /\ UNCHANGED others

\* A request commits; when it fails the daemon goes on with what it had.  The
\* record it writes may be one that serve will not restore, as an exhausted
\* delivery (Outbox) and a replaced invite (Pairing) are, or replace such a one.
DaemonCommits(p) ==
    /\ At(p, "run") /\ Exists(disk, StoreFile) /\ Spend("commits")
    /\ \E restorable \in IF limits.spoils THEN BOOLEAN ELSE {TRUE} :
         LET image == [Written(proc[p].image, p) EXCEPT !.restorable = restorable] IN
         /\ image.revision <= MaxRevision
         /\ disk' = Write(disk, StoreFile, image)
         /\ Becomes(p, [proc[p] EXCEPT !.at = "commit_marker", !.image = image])
    /\ UNCHANGED others

DaemonCommitted(p) ==
    /\ At(p, "commit_marker") /\ Goto(p, "run")
    /\ disk' = WithMarker(p) /\ Promises(p)
    /\ UNCHANGED <<keychain, known, backups, raced, limits, spent>>

\* recovery/export reads both files and then commits a note of the export.
DaemonExports(p) ==
    LET image == Advanced(proc[p].image) IN
    /\ At(p, "run") /\ Exists(disk, StoreFile) /\ Exists(disk, RevisionFile)
    /\ image.revision <= MaxRevision /\ Spend("commits")
    /\ backups' = backups \cup {[store |-> disk[StoreFile], revision |-> disk[RevisionFile]]}
    /\ disk' = Committed(disk, image)
    /\ Becomes(p, [proc[p] EXCEPT !.image = image])
    /\ UNCHANGED <<keychain, known, promised, raced, limits>>

\* recovery/stage of an artifact that parses.
DaemonStages(p) ==
    /\ At(p, "run")
    /\ \E a \in backups :
          Parses(a) /\ disk[PendingFile] # a /\ disk' = Write(disk, PendingFile, a)
    /\ UNCHANGED <<proc, others, spent>>

\* session/lock: the store is closed for good in this process.
DaemonLocks(p) ==
    /\ At(p, "run") /\ Becomes(p, [proc[p] EXCEPT !.at = "locked", !.image = NoFile])
    /\ UNCHANGED <<disk, others, spent>>

\* session/wipe: the store is locked and the two files go, each if it is there.
\* A failure is answered wipe_incomplete and leaves the session open, so that
\* wipe may be asked for again.
DaemonWipes(p) ==
    /\ limits.wipes /\ \E from \in {"run", "wipe_failed"} : At(p, from)
    /\ \/ disk' = Remove(disk, {StoreFile}) /\ UNCHANGED spent
          /\ Becomes(p, [proc[p] EXCEPT !.at = "wipe_marker", !.image = NoFile])
       \/ /\ Spend("faults") /\ UNCHANGED disk
          /\ Becomes(p, [proc[p] EXCEPT !.at = "wipe_failed", !.image = NoFile])
    /\ promised' = NoPromise
    /\ UNCHANGED <<keychain, known, backups, raced, limits>>

DaemonWiped(p) ==
    /\ At(p, "wipe_marker")
    /\ \/ disk' = Remove(disk, {RevisionFile}) /\ Goto(p, "locked") /\ UNCHANGED spent
       \/ Spend("faults") /\ UNCHANGED disk /\ Goto(p, "wipe_failed")
    /\ UNCHANGED others

\* Ctrl-C or TERM.
DaemonEnds(p) ==
    /\ proc[p].alive /\ proc[p].at \in {"run", "locked", "wipe_failed"}
    /\ Succeeds(p, disk)
    /\ UNCHANGED others

-----------------------------------------------------------------------------
Serving(p) ==
    \/ Recover(p) \/ RecoverSetsAside(p) \/ RecoverInstalls(p) \/ RecoverDropsOld(p)
    \/ RecoverEnds(p) \/ Serve(p) \/ DaemonCommits(p) \/ DaemonCommitted(p)
    \/ DaemonExports(p) \/ DaemonStages(p) \/ DaemonLocks(p) \/ DaemonWipes(p)
    \/ DaemonWiped(p) \/ DaemonEnds(p)

Initializing(p) ==
    \/ Setup(p) \/ SetupProfile(p) \/ SetupEnds(p) \/ SetupUndoes(p)
    \/ InitBegins(p) \/ InitCreates(p) \/ InitPutsIdentity(p) \/ InitPutsRegistry(p)
    \/ InitWritesId(p) \/ InitEnrolls(p) \/ InitMarks(p) \/ InitEnds(p)
    \/ Link(p) \/ LinkEnds(p)

Changing(p) ==
    \/ Revoke(p) \/ RevokePuts(p) \/ RevokeEnds(p)
    \/ Enroll(p) \/ EnrollWritesId(p) \/ EnrollSaves(p) \/ EnrollMarks(p)
    \/ Wipe(p) \/ WipeKeychain(p) \/ WipeStore(p) \/ WipeRevision(p) \/ WipeEnds(p)

Recovering(p) ==
    \/ Export(p) \/ ExportEnds(p) \/ Import(p) \/ ImportStore(p) \/ ImportRevision(p)
    \/ Rotate(p) \/ RotateRekeys(p) \/ RotateSetsAside(p) \/ RotateInstalls(p)
    \/ RotateInstallsRevision(p) \/ RotateDrops(p) \/ RotateEnds(p)

Starting(p) ==
    \/ Start(p) \/ Acquire(p) \/ BreakLock(p) \/ AcquireAgain(p) \/ WritePid(p)
    \/ Stop(p) \/ StopBreaks(p) \/ Crash(p)

Next ==
    /\ \E p \in Pids : \/ Starting(p) \/ Serving(p) \/ Initializing(p)
                       \/ Changing(p) \/ Recovering(p)
    /\ overlapped' = (overlapped \/ Cardinality(Working(proc')) > 1)

Spec == Init /\ [][Next]_vars

-----------------------------------------------------------------------------
\* Properties

\* A copy of the promised profile: it opens with a passphrase the user has and
\* holds every acknowledged write.
Keeps(image, revision) ==
    /\ \E s \in Offered : Opens(image, revision, s)
    /\ image.ready /\ image.account = promised.account
    /\ promised.writes \subseteq image.writes

RotateRenames == {"rotate_revision", "rotate_install", "rotate_install_revision",
                  "rotate_drop"}
RecoveryRenames == {"recover_revision", "install_store", "install_revision", "drop_old"}

\* The profile outlives every command (rotate, apply_pending_recovery, import
\* and commit): unless two processes worked on it at once, the live store opens
\* and holds what was acknowledged, whatever failed and wherever a process
\* died.  Only a process in the middle of its renames, dead or alive, keeps it
\* aside instead: a recovery while the artifact that completes it is still
\* staged, and a rotation, which nothing completes.  And a rotation that was
\* given no file has its only copy under a passphrase it has not told from the
\* removal of the old store to its answer; one that dies there takes the
\* passphrase with it.
ProfileOutlivesCommands ==
    promised.account # NoFile /\ ~overlapped =>
        \/ Keeps(disk[StoreFile], disk[RevisionFile])
        \/ \E p \in Pids :
              /\ Keeps(disk[Old(p)], NoFile)
              /\ \/ proc[p].at \in RotateRenames
                 \/ proc[p].at \in RecoveryRenames /\ Exists(disk, PendingFile)
        \/ \E p \in Pids :
              ~proc[p].out /\ proc[p].at \in {"rotate_drop_revision", "rotate_keychain"}

\* apply_pending_recovery: a staged artifact is dropped only when it is the live
\* profile, so a recovery that fails or is cut is taken up by the next serve.
PendingOutlivesFailure ==
    [][Exists(disk, PendingFile) /\ ~Exists(disk', PendingFile) /\ ~overlapped
       => /\ disk'[StoreFile] = disk[PendingFile].store
          /\ disk'[RevisionFile] = disk[PendingFile].revision]_vars

\* p has made the artifact it validated the live profile, and cannot restore it.
InstalledUnservable(p) ==
    /\ proc[p].at = "open" /\ proc[p].image # NoFile
    /\ disk[StoreFile] = proc[p].image.store /\ ~disk[StoreFile].restorable

\* serve: a profile that could be served when serve had its lock, and that
\* nobody else touched since, is served unless a file operation fails; whatever
\* recovery is staged or was cut before.  A staged artifact is the one other
\* cause of a refusal: one that apply_pending_recovery refuses, which nothing
\* takes away, or one that it accepted for its identity and registry and put in
\* the place of the profile, and whose other records serve refuses.
OnlyStagedBackupRefusesServe ==
    [][\A p \in Pids :
         /\ proc[p].holds /\ ~IsSetup(p) /\ proc'[p].at = "err"
         /\ proc[p].servable /\ ~proc'[p].failed /\ ~overlapped'
         => \/ proc[p].at = "recover" /\ ~Applies(disk[PendingFile], proc[p].secret)
            \/ InstalledUnservable(p)]_vars

Holders == {p \in Pids : proc[p].alive /\ proc[p].holds}

\* InstanceLock: two processes hold the lock of one directory only after a
\* starter, or stop, has removed a lock other than the stale one it had read.
OneHolder == Cardinality(Holders) > 1 => raced

\* The steps of a setup whose failed file operation leaves a store under a
\* passphrase that nobody is told: init has no undo for them, and what the wipe
\* answers is ignored.
Stranding == {"init_identity", "init_registry", "init_id", "setup_undo"}

\* init_from_setup: when the browser's setup answers an error, a store that is
\* there can be unlocked, from the keychain or with a passphrase the user has.
\* A refusing keychain and a failure to make the store or to mark the enrolment
\* leave no other; the failure of one of the four stranding steps does, and a
\* later request is then refused for the store that is there.
SetupLeavesUnlockable ==
    [][\A p \in Pids :
         /\ IsSetup(p) /\ proc[p].at \in Operations /\ proc'[p].at = "setup_run"
         /\ ~overlapped' /\ Exists(disk', StoreFile)
         => \/ disk'[StoreFile].secret \in Offered'
            \/ proc[p].at = "init"
            \/ proc[p].at \in Stranding /\ proc'[p].failed]_vars

\* recovery export: an artifact that was exported opens once it is imported.
BackupOpens ==
    \A a \in backups : Opens(a.store, a.revision, a.store.secret)
=============================================================================
