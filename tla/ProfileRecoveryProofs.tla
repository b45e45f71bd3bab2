----------------------- MODULE ProfileRecoveryProofs -----------------------
(***************************************************************************)
(* The theorems about module Profile, from the invariant of ProfileProofs: *)
(* one process holds the instance lock; what a recovery has done at each   *)
(* of its steps while nobody else works on the directory; and which step   *)
(* of a setup can leave a store that nobody can unlock.                    *)
(***************************************************************************)
EXTENDS ProfileProofs

-----------------------------------------------------------------------------
\* The recovery of a process that nobody disturbs

\* The live store is the artifact's, and serve cannot restore it.
Unrestored(r, d) ==
    r.image # NoFile /\ d[StoreFile] = r.image.store /\ ~d[StoreFile].restorable

\* What serve has done at each step of apply_pending_recovery: the artifact it
\* validated is still staged, the files it wrote are there, and before the first
\* and after the last of these steps the live store can be served if it could
\* when serve began, unless it is now the artifact's and that cannot be restored.
Served(r, d) ==
    /\ r.at \in Replacing =>
          d[PendingFile] = r.image /\ Exists(d, PendingFile) /\ Applies(r.image, r.secret)
    /\ r.at \in {"install_revision", "drop_old", "drop_pending"} => d[StoreFile] = r.image.store
    /\ r.at \in {"drop_old", "drop_pending"} => d[RevisionFile] = r.image.revision
    /\ r.at = "recover" /\ r.servable => Servable(d, r.secret)
    /\ r.at = "open" /\ r.servable => Servable(d, r.secret) \/ Unrestored(r, d)

\* What serve may refuse a profile for that could be served.
Pardoned(p) ==
    \/ proc[p].at = "recover" /\ ~Applies(disk[PendingFile], proc[p].secret)
    \/ InstalledUnservable(p)

\* A step of serve leaves that, drops the artifact only when it is the live
\* profile, and refuses a profile that could be served only for the artifact.
Tended(p) ==
    /\ Served(proc'[p], disk')
    /\ Exists(disk, PendingFile) /\ ~Exists(disk', PendingFile) =>
          /\ disk'[StoreFile] = disk[PendingFile].store
          /\ disk'[RevisionFile] = disk[PendingFile].revision
    /\ proc'[p].at = "err" /\ proc[p].servable /\ ~proc'[p].failed => Pardoned(p)

\* Only the steps of a recovery are asked for anything.
LEMMA Unserved ==
    /\ \A r, d : r.at \notin Replacing /\ r.at \notin {"recover", "open"} => Served(r, d)
    /\ \A s \in {"ok", "err", "setup_run", "run", "commit_marker", "locked", "wipe_marker",
                 "wipe_failed"} : s \notin Replacing /\ s \notin {"recover", "open"}
    /\ Replacing \subseteq Daemon /\ {"recover", "open"} \subseteq Daemon
    /\ \A s \in {"ok", "err", "setup_run"} : s \notin Daemon
<1>1. {"install_revision", "drop_old", "drop_pending"} \subseteq Replacing
  BY SMTT(30) DEF Replacing
<1>2. \A r, d : r.at \notin Replacing /\ r.at \notin {"recover", "open"} => Served(r, d)
  BY Zenon, <1>1 DEF Served
<1>3. /\ \A s \in {"ok", "err", "setup_run", "run", "commit_marker", "locked", "wipe_marker",
                   "wipe_failed"} : s \notin Replacing /\ s \notin {"recover", "open"}
      /\ Replacing \subseteq Daemon /\ {"recover", "open"} \subseteq Daemon
      /\ \A s \in {"ok", "err", "setup_run"} : s \notin Daemon
  BY SMTT(30) DEF Replacing, Daemon
<1> QED
  BY Zenon, <1>2, <1>3

\* An operation of serve that fails is undone, and nothing is refused without a
\* failure but what the operation itself refuses.
LEMMA ErrTended ==
    ASSUME NEW A, Sound(A), NEW p \in Pids, NEW failed \in BOOLEAN, NEW d, DOMAIN d = Paths,
           d[PendingFile] = disk[PendingFile], Answers(p, "err", failed, d),
           \/ failed
           \/ proc[p].servable => Pardoned(p)
    PROVE  Tended(p)
<1>1. LockInv /\ Memory(proc[p], A) /\ "err" \in {"ok", "err"}
  BY Zenon DEF Sound, TypeInv
<1>2. PICK r : Left(r, p, "err", failed, d, A)
  BY Zenon, <1>1, AnswerLeaves
<1>3. /\ proc' = [proc EXCEPT ![p] = r] /\ r.failed = (proc[p].failed \/ failed)
      /\ \A f \in Paths \ {LockFile} : disk'[f] = d[f]
      /\ r.at \in {"err", "setup_run"}
  BY Zenon, <1>2 DEF Left
<1>4. proc'[p] = r
  BY Zenon, <1>1, <1>3, Moved
<1>5. disk'[PendingFile] = disk[PendingFile]
  BY Zenon, <1>3, Files, Kinds
<1>6. Served(r, disk')
  BY Zenon, <1>3, Unserved
<1> QED
  BY Zenon, <1>3, <1>4, <1>5, <1>6 DEF Tended, Exists

\* An operation of serve, done or undone.
LEMMA OpTended ==
    ASSUME NEW A, Sound(A), NEW p \in Pids, NEW can \in BOOLEAN, NEW after, NEW r, NEW undone,
           FileOp(p, can, after, r, undone),
           DOMAIN undone = Paths, undone[PendingFile] = disk[PendingFile],
           \/ can
           \/ proc[p].servable => Pardoned(p),
           can => /\ r.at # "err" /\ Served(r, after)
                  /\ Exists(disk, PendingFile) /\ ~Exists(after, PendingFile) =>
                        /\ after[StoreFile] = disk[PendingFile].store
                        /\ after[RevisionFile] = disk[PendingFile].revision
    PROVE  Tended(p)
<1>1. LockInv
  BY Zenon DEF Sound
<1>2. CASE can /\ disk' = after /\ Becomes(p, r)
  <2>1. proc'[p] = r
    BY Zenon, <1>1, <1>2, Moved DEF Becomes
  <2> QED
    BY Zenon, <1>2, <2>1 DEF Tended
<1>3. CASE ~can /\ Answers(p, "err", FALSE, undone)
  BY Zenon, <1>3, ErrTended
<1>4. CASE Answers(p, "err", TRUE, undone)
  BY Zenon, <1>4, ErrTended
<1> QED
  BY Zenon, <1>2, <1>3, <1>4 DEF FileOp

\* A step of serve that is sure to be possible.
LEMMA SureTended ==
    ASSUME NEW A, Sound(A), NEW p \in Pids, NEW from, NEW to, NEW after, NEW undone,
           Step(p, from, TRUE, after, to, undone), Good(undone, A), Good(after, A),
           to # "err", NEW r, r = [proc[p] EXCEPT !.at = to], r.at = to, Served(r, after)
    PROVE  Tended(p)
<1>1. FileOp(p, TRUE, after, r, undone)
  BY Zenon DEF Step
<1>2. DOMAIN undone = Paths /\ undone[PendingFile] = disk[PendingFile]
      /\ after[PendingFile] = disk[PendingFile]
  BY Zenon DEF Good
<1> QED
  BY Zenon, <1>1, <1>2, OpTended DEF Exists

\* Steps that do not concern the staged artifact leave it.
LEMMA HarmlessPending ==
    ASSUME NEW A, Sound(A), NEW p \in Pids, Harmless(p, A)
    PROVE  disk'[PendingFile] = disk[PendingFile]
<1>1. LockInv /\ Memory(proc[p], A)
  BY Zenon DEF Sound, TypeInv
<1>2. PICK d : /\ Good(d, A)
               /\ \/ \E r : Quiet(p, r, A) /\ proc' = [proc EXCEPT ![p] = r] /\ disk' = d
                  \/ \E answer \in {"ok", "err"} : \E failed \in BOOLEAN :
                         Answers(p, answer, failed, d)
  BY Zenon DEF Harmless
<1>3. CASE disk' = d
  BY Zenon, <1>2, <1>3 DEF Good
<1>4. ASSUME NEW answer \in {"ok", "err"}, NEW failed \in BOOLEAN, Answers(p, answer, failed, d)
      PROVE  disk'[PendingFile] = disk[PendingFile]
  <2>1. \E r : Left(r, p, answer, failed, d, A)
    BY Zenon, <1>1, <1>2, <1>4, AnswerLeaves DEF Good
  <2> QED
    BY Zenon, <1>2, <2>1, Files, Kinds DEF Left, Good
<1> QED
  BY Zenon, <1>2, <1>3, <1>4

\* A step of the daemon itself, which does not answer an error.
LEMMA DaemonTended ==
    ASSUME NEW A, Sound(A), NEW p \in Pids, Harmless(p, A), NEW r,
           proc' = [proc EXCEPT ![p] = r],
           r.at \in {"ok", "run", "commit_marker", "locked", "wipe_marker", "wipe_failed"}
    PROVE  Tended(p)
<1>1. proc'[p] = r
  BY Zenon, Moved DEF Sound
<1>2. disk'[PendingFile] = disk[PendingFile]
  BY Zenon, HarmlessPending
<1>3. Served(r, disk') /\ r.at # "err"
  BY Zenon, Unserved
<1> QED
  BY Zenon, <1>1, <1>2, <1>3 DEF Tended, Exists

\* A recovery goes on with the artifact it validated.
LEMMA StillStaged ==
    ASSUME NEW p \in Pids, Served(proc[p], disk), proc[p].at \in Replacing,
           NEW d, d[PendingFile] = disk[PendingFile], NEW r, r.image = proc[p].image,
           r.secret = proc[p].secret, r.at \notin {"recover", "open"},
           r.at \in {"install_revision", "drop_old", "drop_pending"} =>
               d[StoreFile] = r.image.store,
           r.at \in {"drop_old", "drop_pending"} => d[RevisionFile] = r.image.revision
    PROVE  Served(r, d)
  BY Zenon DEF Served, Exists

\* serve reads the staged artifact.
LEMMA RecoverTended ==
    ASSUME Sound(Owner), NEW p \in Pids, Recover(p), Served(proc[p], disk)
    PROVE  Tended(p)
<1>h. LockInv /\ Good(disk, Owner) /\ DOMAIN disk = Paths /\ DOMAIN proc[p] = Fields
  BY Zenon, Here, Shapes DEF Sound
<1>1. At(p, "recover") /\ Harmless(p, Owner)
  <2>1. At(p, "recover")
    BY Zenon DEF Recover
  <2>2. "recover" # "run" /\ "recover" # "drop_pending"
    BY SMTT(30)
  <2>3. ~DaemonStages(p) /\ ~RecoverEnds(p)
    BY Zenon, <2>1, <2>2 DEF At, DaemonStages, RecoverEnds, Step
  <2> QED
    BY Zenon, <2>1, <2>3, ServingHarmless DEF Serving
<1>2. CASE ~Exists(disk, PendingFile)
  <2>1. PICK r : r = [proc[p] EXCEPT !.at = "open"]
    BY Zenon
  <2>2. proc' = [proc EXCEPT ![p] = r] /\ disk' = disk
    BY Zenon, <1>2, <2>1 DEF Recover, Goto, Becomes
  <2>3. /\ r.at = "open" /\ r.secret = proc[p].secret /\ r.servable = proc[p].servable
        /\ proc'[p] = r
    <3>1. r.at = "open" /\ r.secret = proc[p].secret /\ r.servable = proc[p].servable
      BY SMTT(30), <1>h, <2>1 DEF Fields, Fresh
    <3> QED
      BY Zenon, <1>h, <2>2, <3>1, Moved
  <2>4. r.servable => Servable(disk, r.secret)
    BY Zenon, <1>1, <2>3 DEF Served, At
  <2>a. r.at # "recover"
    BY Zenon, <2>3
  <2>5. Served(r, disk)
    <3>1. "open" \notin Replacing
          /\ "open" \notin {"install_revision", "drop_old", "drop_pending"}
          /\ "open" \notin {"drop_old", "drop_pending"}
      BY SMTT(30) DEF Replacing
    <3> QED
      BY Zenon, <2>3, <2>4, <2>a, <3>1 DEF Served
  <2> QED
    BY Zenon, <1>2, <2>2, <2>3, <2>5 DEF Tended
<1>3. CASE Exists(disk, PendingFile)
  <2>1. PICK can \in BOOLEAN : can = Applies(disk[PendingFile], proc[p].secret)
    BY Zenon DEF Applies
  <2>2. PICK r : r = [proc[p] EXCEPT !.at = "recover_store", !.image = disk[PendingFile]]
    BY Zenon
  <2>3. FileOp(p, can, disk, r, disk)
    BY Zenon, <1>3, <2>1, <2>2 DEF Recover
  <2>4. r.at = "recover_store" /\ r.image = disk[PendingFile] /\ r.secret = proc[p].secret
    BY SMTT(30), <1>h, <2>2 DEF Fields, Fresh
  <2>5. can => Served(r, disk) /\ r.at # "err"
    BY Zenon, <1>3, <2>1, <2>4 DEF Served
  <2> QED
    BY Zenon, <1>1, <1>h, <2>1, <2>3, <2>5, OpTended DEF At, Pardoned
<1> QED
  BY Zenon, <1>2, <1>3

\* serve moves the live files away, writes those of the artifact and drops the
\* old ones.
LEMMA ReplacingTended ==
    ASSUME Sound(Owner), NEW p \in Pids, Served(proc[p], disk),
           RecoverSetsAside(p) \/ RecoverInstalls(p) \/ RecoverDropsOld(p)
    PROVE  Tended(p)
<1>h. LockInv /\ Good(disk, Owner) /\ DOMAIN disk = Paths /\ DOMAIN proc[p] = Fields
  BY Zenon, Here, Shapes DEF Sound
<1>s. /\ {"recover_store", "recover_revision", "install_store", "install_revision",
          "drop_old"} \subseteq Replacing
      /\ \A to \in {"recover_revision", "install_store", "install_revision", "drop_old",
                    "drop_pending"} : to # "err" /\ to \notin {"recover", "open"}
  BY SMTT(30) DEF Replacing
<1>f. RevisionFile # StoreFile /\ StoreFile \in Paths /\ RevisionFile \in Paths
      /\ StoreFile \notin {Old(p), OldRevision(p)} /\ RevisionFile \notin {Old(p), OldRevision(p)}
  BY SMTT(30), Files DEF Elsewhere, StoreFile, RevisionFile, Old, OldRevision
<1>1. ASSUME RecoverSetsAside(p) PROVE Tended(p)
  <2>1. PICK d : d = Rename(disk, StoreFile, Old(p))
    BY Zenon
  <2>2. PICK e : e = Rename(disk, RevisionFile, OldRevision(p))
    BY Zenon
  <2>3. PICK u : u = Rename(disk, Old(p), StoreFile)
    BY Zenon
  <2>4. Good(d, Owner) /\ Good(e, Owner) /\ Good(u, Owner)
    BY Zenon, <1>h, <2>1, <2>2, <2>3, Kinds, GoodRename
  <2>p. d[PendingFile] = disk[PendingFile] /\ e[PendingFile] = disk[PendingFile]
    BY Zenon, <2>4 DEF Good
  <2>5. CASE Step(p, "recover_store", TRUE, d, "recover_revision", disk)
    <3>1. PICK r : r = [proc[p] EXCEPT !.at = "recover_revision"]
      BY Zenon
    <3>2. /\ r.at = "recover_revision" /\ r.image = proc[p].image /\ r.secret = proc[p].secret
          /\ proc[p].at \in Replacing
      <4>1. r.at = "recover_revision" /\ r.image = proc[p].image /\ r.secret = proc[p].secret
        BY SMTT(30), <1>h, <3>1 DEF Fields, Fresh
      <4> QED
        BY Zenon, <1>s, <2>5, <4>1 DEF Step, At
    <3>3. r.at \notin {"install_revision", "drop_old", "drop_pending"}
          /\ r.at \notin {"drop_old", "drop_pending"} /\ r.at \notin {"recover", "open"}
      BY Zenon, <3>2
    <3>4. Served(r, d)
      BY Zenon, <2>p, <3>2, <3>3, StillStaged
    <3> QED
      BY Zenon, <1>h, <1>s, <2>4, <2>5, <3>1, <3>2, <3>4, SureTended
  <2>6. CASE Step(p, "recover_revision", TRUE, e, "install_store", u)
    <3>1. PICK r : r = [proc[p] EXCEPT !.at = "install_store"]
      BY Zenon
    <3>2. /\ r.at = "install_store" /\ r.image = proc[p].image /\ r.secret = proc[p].secret
          /\ proc[p].at \in Replacing
      <4>1. r.at = "install_store" /\ r.image = proc[p].image /\ r.secret = proc[p].secret
        BY SMTT(30), <1>h, <3>1 DEF Fields, Fresh
      <4> QED
        BY Zenon, <1>s, <2>6, <4>1 DEF Step, At
    <3>3. r.at \notin {"install_revision", "drop_old", "drop_pending"}
          /\ r.at \notin {"drop_old", "drop_pending"} /\ r.at \notin {"recover", "open"}
      BY Zenon, <3>2
    <3>4. Served(r, e)
      BY Zenon, <2>p, <3>2, <3>3, StillStaged
    <3> QED
      BY Zenon, <1>h, <1>s, <2>4, <2>6, <3>1, <3>2, <3>4, SureTended
  <2> QED
    BY Zenon, <1>1, <2>1, <2>2, <2>3, <2>5, <2>6 DEF RecoverSetsAside
<1>2. ASSUME RecoverInstalls(p) PROVE Tended(p)
  <2>1. PICK u : u = Reinstated(disk, p)
    BY Zenon
  <2>2. Good(u, Owner)
    BY Zenon, <2>1, ReinstatedGood
  <2>3. PICK d : d = Write(disk, StoreFile, proc[p].image.store)
    BY Zenon
  <2>4. PICK e : e = Write(disk, RevisionFile, proc[p].image.revision)
    BY Zenon
  <2>5. \/ Step(p, "install_store", TRUE, d, "install_revision", u)
        \/ Step(p, "install_revision", TRUE, e, "drop_old", u)
    BY Zenon, <1>2, <2>1, <2>3, <2>4 DEF RecoverInstalls
  <2>6. proc[p].image \in Arts(Owner)
    BY Zenon, <2>5, InMemory, LoadedSteps DEF Step
  <2>7. Good(d, Owner) /\ Good(e, Owner)
    <3>1. proc[p].image.store \in Imgs(Owner) /\ proc[p].image.revision \in 0..MaxRevision
      BY Zenon, <2>6, ImageForms
    <3> QED
      BY Zenon, <1>h, <2>3, <2>4, <3>1, Files, Kinds, Fitting, GoodWrite
  <2>p. d[PendingFile] = disk[PendingFile] /\ e[PendingFile] = disk[PendingFile]
    BY Zenon, <2>7 DEF Good
  <2>8. /\ d[StoreFile] = proc[p].image.store
        /\ e[RevisionFile] = proc[p].image.revision /\ e[StoreFile] = disk[StoreFile]
    BY SMTT(30), <1>h, <1>f, <2>3, <2>4 DEF Write
  <2>9. CASE Step(p, "install_store", TRUE, d, "install_revision", u)
    <3>1. PICK r : r = [proc[p] EXCEPT !.at = "install_revision"]
      BY Zenon
    <3>2. /\ r.at = "install_revision" /\ r.image = proc[p].image /\ r.secret = proc[p].secret
          /\ proc[p].at \in Replacing
      <4>1. r.at = "install_revision" /\ r.image = proc[p].image /\ r.secret = proc[p].secret
        BY SMTT(30), <1>h, <3>1 DEF Fields, Fresh
      <4> QED
        BY Zenon, <1>s, <2>9, <4>1 DEF Step, At
    <3>3. r.at \notin {"drop_old", "drop_pending"} /\ r.at \notin {"recover", "open"}
      BY Zenon, <3>2
    <3>4. Served(r, d)
      BY Zenon, <2>p, <2>8, <3>2, <3>3, StillStaged
    <3> QED
      BY Zenon, <1>s, <2>2, <2>7, <2>9, <3>1, <3>2, <3>4, SureTended
  <2>10. CASE Step(p, "install_revision", TRUE, e, "drop_old", u)
    <3>1. PICK r : r = [proc[p] EXCEPT !.at = "drop_old"]
      BY Zenon
    <3>2. /\ r.at = "drop_old" /\ r.image = proc[p].image /\ r.secret = proc[p].secret
          /\ proc[p].at \in Replacing /\ proc[p].at = "install_revision"
      <4>1. r.at = "drop_old" /\ r.image = proc[p].image /\ r.secret = proc[p].secret
        BY SMTT(30), <1>h, <3>1 DEF Fields, Fresh
      <4> QED
        BY Zenon, <1>s, <2>10, <4>1 DEF Step, At
    <3>3. e[StoreFile] = r.image.store /\ r.at \notin {"recover", "open"}
      BY Zenon, <2>8, <3>2 DEF Served
    <3>4. Served(r, e)
      BY Zenon, <2>p, <2>8, <3>2, <3>3, StillStaged
    <3> QED
      BY Zenon, <1>s, <2>2, <2>7, <2>10, <3>1, <3>2, <3>4, SureTended
  <2> QED
    BY Zenon, <2>5, <2>9, <2>10
<1>3. ASSUME RecoverDropsOld(p) PROVE Tended(p)
  <2>1. PICK d : d = Remove(disk, {Old(p), OldRevision(p)})
    BY Zenon
  <2>2. Good(d, Owner) /\ d[StoreFile] = disk[StoreFile] /\ d[RevisionFile] = disk[RevisionFile]
    <3>1. Good(d, Owner)
      BY Zenon, <1>h, <2>1, Files, GoodRemove
    <3> QED
      BY SMTT(30), <1>h, <1>f, <2>1, <3>1 DEF Remove
  <2>3. PICK r : r = [proc[p] EXCEPT !.at = "drop_pending"]
    BY Zenon
  <2>4. At(p, "drop_old") /\ proc' = [proc EXCEPT ![p] = r] /\ (disk' = d \/ disk' = disk)
    BY Zenon, <1>3, <2>1, <2>3 DEF RecoverDropsOld, Tries, Goto, Becomes
  <2>5. /\ r.at = "drop_pending" /\ r.image = proc[p].image /\ r.secret = proc[p].secret
        /\ proc[p].at \in Replacing /\ proc[p].at = "drop_old" /\ proc'[p] = r
    <3>1. r.at = "drop_pending" /\ r.image = proc[p].image /\ r.secret = proc[p].secret
      BY SMTT(30), <1>h, <2>3 DEF Fields, Fresh
    <3> QED
      BY Zenon, <1>h, <1>s, <2>4, <3>1, Moved DEF At
  <2>6. /\ disk'[PendingFile] = disk[PendingFile]
        /\ disk'[StoreFile] = r.image.store /\ disk'[RevisionFile] = r.image.revision
    BY Zenon, <2>2, <2>4, <2>5 DEF Good, Served
  <2>7. Served(r, disk') /\ r.at # "err"
    BY Zenon, <2>5, <2>6, StillStaged
  <2> QED
    BY Zenon, <2>5, <2>6, <2>7 DEF Tended, Exists
<1> QED
  BY Zenon, <1>1, <1>2, <1>3

\* serve drops the artifact, which is the live profile by now.
LEMMA RecoverEndsTended ==
    ASSUME Sound(Owner), NEW p \in Pids, RecoverEnds(p), Served(proc[p], disk)
    PROVE  Tended(p)
<1>h. LockInv /\ Good(disk, Owner) /\ DOMAIN disk = Paths /\ DOMAIN proc[p] = Fields
  BY Zenon, Here, Shapes DEF Sound
<1>1. PICK d : d = Remove(disk, {PendingFile})
  BY Zenon
<1>2. PICK r : r = [proc[p] EXCEPT !.at = "open"]
  BY Zenon
<1>3. PICK can \in BOOLEAN : can = Exists(disk, PendingFile)
  BY Zenon DEF Exists
<1>4. At(p, "drop_pending") /\ FileOp(p, can, d, r, disk)
  BY Zenon, <1>1, <1>2, <1>3 DEF RecoverEnds, Step
<1>5. /\ disk[PendingFile] = proc[p].image /\ Applies(proc[p].image, proc[p].secret)
      /\ disk[StoreFile] = proc[p].image.store /\ disk[RevisionFile] = proc[p].image.revision
      /\ can
  <2>1. "drop_pending" \in Replacing
    BY SMTT(30) DEF Replacing
  <2> QED
    BY Zenon, <1>3, <1>4, <2>1 DEF Served, At
<1>6. d[StoreFile] = disk[StoreFile] /\ d[RevisionFile] = disk[RevisionFile]
  BY SMTT(30), <1>h, <1>1, Files DEF Remove, Elsewhere
<1>7. r.at = "open" /\ r.secret = proc[p].secret /\ r.image = proc[p].image
  BY SMTT(30), <1>h, <1>2 DEF Fields, Fresh
<1>8. Servable(d, r.secret) \/ Unrestored(r, d)
  <2>1. CanOpen(d, r.secret) /\ Authorizes(d[StoreFile])
    BY Zenon, <1>5, <1>6, <1>7 DEF CanOpen, Applies
  <2>2. r.image # NoFile /\ d[StoreFile] = r.image.store
    BY Zenon, <1>3, <1>5, <1>6, <1>7 DEF Exists
  <2> QED
    BY Zenon, <2>1, <2>2 DEF Servable, Serves, Unrestored
<1>9. Served(r, d) /\ r.at # "err"
  <2>1. "open" \notin Replacing
        /\ "open" \notin {"install_revision", "drop_old", "drop_pending"}
        /\ "open" \notin {"drop_old", "drop_pending"}
    BY SMTT(30) DEF Replacing
  <2> QED
    BY Zenon, <1>7, <1>8, <2>1 DEF Served
<1>10. d[StoreFile] = disk[PendingFile].store /\ d[RevisionFile] = disk[PendingFile].revision
  BY Zenon, <1>5, <1>6
<1> QED
  BY Zenon, <1>h, <1>4, <1>5, <1>9, <1>10, OpTended

\* serve opens the store.
LEMMA ServeTended ==
    ASSUME Sound(Owner), NEW p \in Pids, Serve(p), Served(proc[p], disk)
    PROVE  Tended(p)
<1>h. LockInv /\ Good(disk, Owner) /\ DOMAIN disk = Paths /\ DOMAIN proc[p] = Fields
  BY Zenon, Here, Shapes DEF Sound
<1>1. PICK can \in BOOLEAN : can = Servable(disk, proc[p].secret)
  BY Zenon DEF Servable
<1>2. PICK d : d = IF CanOpen(disk, proc[p].secret) THEN Opened(disk) ELSE disk
  BY Zenon
<1>3. PICK r : r = [proc[p] EXCEPT !.at = "run", !.image = disk[StoreFile]]
  BY Zenon
<1>4. At(p, "open") /\ FileOp(p, can, d, r, d)
  BY Zenon, <1>1, <1>2, <1>3 DEF Serve
<1>5. Good(d, Owner)
  <2>1. CanOpen(disk, proc[p].secret) => disk[StoreFile] \in Imgs(Owner)
    BY Zenon, Here DEF CanOpen, Opens, Exists
  <2> QED
    BY Zenon, <1>h, <1>2, <2>1, GoodCommitted
<1>6. r.at = "run"
  BY SMTT(30), <1>h, <1>3 DEF Fields, Fresh
<1>7. Served(r, d) /\ r.at # "err"
  BY Zenon, <1>6, Unserved
<1>8. DOMAIN d = Paths /\ d[PendingFile] = disk[PendingFile]
  BY Zenon, <1>5 DEF Good
<1>9. proc[p].servable => can \/ Pardoned(p)
  <2>1. proc[p].at = "open"
    BY Zenon, <1>4 DEF At
  <2> QED
    BY Zenon, <1>1, <2>1 DEF Served, Pardoned, InstalledUnservable, Unrestored
<1> QED
  BY Zenon, <1>4, <1>7, <1>8, <1>9, OpTended DEF Exists

\* Every step of serve.
LEMMA ServingTended ==
    ASSUME Sound(Owner), NEW p \in Pids, Serving(p), Served(proc[p], disk)
    PROVE  Tended(p)
<1>h. LockInv /\ DOMAIN disk = Paths /\ DOMAIN proc = Pids /\ DOMAIN proc[p] = Fields
  BY Zenon DEF Sound, LockInv, Layout, Stands
<1>1. CASE DaemonStages(p)
  <2>1. PICK a \in backups : disk' = Write(disk, PendingFile, a)
    BY Zenon, <1>1 DEF DaemonStages
  <2>2. At(p, "run") /\ proc' = proc
    BY Zenon, <1>1 DEF DaemonStages
  <2>3. a # NoFile
    BY SMTT(30), <2>1, NoFileAssumption DEF Sound, TypeInv, Rest, Arts
  <2>4. disk'[PendingFile] = a
    BY SMTT(30), <1>h, <2>1, Files DEF Write
  <2>5. Served(proc'[p], disk') /\ proc'[p].at # "err"
    BY Zenon, <2>2, Unserved DEF At
  <2> QED
    BY Zenon, <2>3, <2>4, <2>5 DEF Tended, Exists
<1>2. ASSUME NEW to \in {"ok", "run", "commit_marker", "locked", "wipe_marker", "wipe_failed"},
             NEW r, Becomes(p, r), r.at = to, ~DaemonStages(p), ~RecoverEnds(p)
      PROVE  Tended(p)
  BY Zenon, <1>2, ServingHarmless, DaemonTended DEF Becomes
<1>3. CASE ~DaemonStages(p) /\ ~RecoverEnds(p)
           /\ (DaemonCommits(p) \/ DaemonCommitted(p) \/ DaemonExports(p) \/ DaemonLocks(p)
               \/ DaemonWipes(p) \/ DaemonWiped(p))
  <2>1. ASSUME NEW to \in {"commit_marker", "locked", "wipe_marker", "wipe_failed"}, NEW image,
               \/ Becomes(p, [proc[p] EXCEPT !.at = to, !.image = image])
               \/ Becomes(p, [proc[p] EXCEPT !.image = image]) /\ proc[p].at = "run"
        PROVE  Tended(p)
    <3>1. PICK r : /\ Becomes(p, r)
                   /\ \/ r = [proc[p] EXCEPT !.at = to, !.image = image]
                      \/ r = [proc[p] EXCEPT !.image = image] /\ proc[p].at = "run"
      BY Zenon, <2>1
    <3>2. r.at \in {to, "run"}
      <4>1. CASE r = [proc[p] EXCEPT !.at = to, !.image = image]
        <5>1. r.at = to
          BY SMTT(30), <1>h, <4>1 DEF Fields, Fresh
        <5> QED
          BY Zenon, <5>1
      <4>2. CASE r = [proc[p] EXCEPT !.image = image] /\ proc[p].at = "run"
        <5>1. r.at = proc[p].at
          BY SMTT(30), <1>h, <4>2 DEF Fields, Fresh
        <5> QED
          BY Zenon, <4>2, <5>1
      <4> QED
        BY Zenon, <3>1, <4>1, <4>2
    <3>3. r.at \in {"ok", "run", "commit_marker", "locked", "wipe_marker", "wipe_failed"}
      BY Zenon, <2>1, <3>2
    <3> QED
      BY Zenon, <1>2, <1>3, <3>1, <3>3
  <2>2. /\ [proc[p] EXCEPT !.at = "run"].at = "run"
        /\ [proc[p] EXCEPT !.at = "locked"].at = "locked"
        /\ [proc[p] EXCEPT !.at = "wipe_failed"].at = "wipe_failed"
    BY SMTT(30), <1>h DEF Fields, Fresh
  <2>3. CASE DaemonCommits(p)
    BY Zenon, <2>1, <2>3 DEF DaemonCommits
  <2>4. CASE DaemonCommitted(p)
    BY Zenon, <1>2, <1>3, <2>2, <2>4 DEF DaemonCommitted, Goto
  <2>5. CASE DaemonExports(p)
    BY Zenon, <2>1, <2>5 DEF DaemonExports, At
  <2>6. CASE DaemonLocks(p)
    BY Zenon, <2>1, <2>6 DEF DaemonLocks
  <2>7. CASE DaemonWipes(p)
    BY Zenon, <2>1, <2>7 DEF DaemonWipes
  <2>8. CASE DaemonWiped(p)
    BY Zenon, <1>2, <1>3, <2>2, <2>8 DEF DaemonWiped, Goto
  <2> QED
    BY Zenon, <1>3, <2>3, <2>4, <2>5, <2>6, <2>7, <2>8
<1>4. CASE DaemonEnds(p) /\ ~DaemonStages(p) /\ ~RecoverEnds(p)
  <2>1. Memory(proc[p], Owner) /\ Answers(p, "ok", FALSE, disk)
    BY Zenon, <1>4 DEF DaemonEnds, Succeeds, Sound, TypeInv
  <2>2. PICK r : Left(r, p, "ok", FALSE, disk, Owner)
    BY Zenon, <1>h, <2>1, AnswerLeaves
  <2>3. proc' = [proc EXCEPT ![p] = r] /\ r.at = "ok"
    BY Zenon, <2>2 DEF Left
  <2> QED
    BY Zenon, <1>2, <1>4, <2>3 DEF Becomes
<1> QED
  BY Zenon, <1>1, <1>3, <1>4, RecoverTended, ReplacingTended, RecoverEndsTended, ServeTended
     DEF Serving

\* The steps of the commands other than serve, init and stop.
Outside == {"link", "link_batch", "revoke", "revoke_put", "revoke_marker",
            "enroll", "enroll_id", "enroll_save", "enroll_mark",
            "wipe", "wipe_keychain", "wipe_store", "wipe_revision", "wipe_rest",
            "export", "export_revision", "import", "import_store", "import_revision",
            "rotate", "rotate_rekey", "rotate_store", "rotate_revision", "rotate_install",
            "rotate_install_revision", "rotate_drop", "rotate_drop_revision",
            "rotate_keychain"}

\* Where a process is that takes a step of each group.
LEMMA Acts ==
    ASSUME NEW p \in Pids
    PROVE  /\ Serving(p) => \E from \in Daemon : At(p, from)
           /\ Changing(p) \/ Recovering(p) \/ Link(p) \/ LinkEnds(p) =>
                  \E from \in Outside : At(p, from)
           /\ Initializing(p) =>
                  \/ Setup(p) \/ SetupProfile(p) \/ SetupEnds(p) \/ Link(p) \/ LinkEnds(p)
                  \/ \E from \in Making \cup {"init", "init_create"} : At(p, from)
<1>1. ASSUME Serving(p) PROVE \E from \in Daemon : At(p, from)
  <2>1. {"recover", "recover_store", "recover_revision", "install_store",
         "install_revision", "drop_old", "drop_pending", "open", "run",
         "commit_marker", "locked", "wipe_marker", "wipe_failed"} \subseteq Daemon
    BY Zenon DEF Daemon
  <2>2. CASE Recover(p) \/ Serve(p) \/ DaemonCommits(p) \/ DaemonCommitted(p) \/ DaemonExports(p)
             \/ DaemonStages(p) \/ DaemonLocks(p) \/ DaemonWiped(p)
    BY Zenon, <2>1, <2>2 DEF Recover, Serve, DaemonCommits, DaemonCommitted, DaemonExports,
       DaemonStages, DaemonLocks, DaemonWiped
  <2>3. CASE RecoverSetsAside(p) \/ RecoverInstalls(p) \/ RecoverDropsOld(p) \/ RecoverEnds(p)
    BY Zenon, <2>1, <2>3 DEF RecoverSetsAside, RecoverInstalls, RecoverDropsOld, RecoverEnds,
       Step, Tries
  <2>4. CASE DaemonWipes(p) \/ DaemonEnds(p)
    BY Zenon, <2>1, <2>4 DEF DaemonWipes, DaemonEnds, At
  <2> QED
    BY Zenon, <1>1, <2>2, <2>3, <2>4 DEF Serving
<1>2. ASSUME Changing(p) \/ Recovering(p) \/ Link(p) \/ LinkEnds(p)
      PROVE  \E from \in Outside : At(p, from)
  <2>1. {"link", "link_batch", "revoke", "revoke_put", "revoke_marker",
         "enroll", "enroll_id", "enroll_save", "enroll_mark",
         "wipe", "wipe_keychain", "wipe_store", "wipe_revision", "wipe_rest",
         "export", "export_revision", "import", "import_store", "import_revision",
         "rotate", "rotate_rekey", "rotate_store", "rotate_revision", "rotate_install",
         "rotate_install_revision", "rotate_drop", "rotate_drop_revision",
         "rotate_keychain"} \subseteq Outside
    BY Zenon DEF Outside
  <2>2. CASE Revoke(p) \/ Enroll(p) \/ Rotate(p) \/ Wipe(p)
    BY Zenon, <2>1, <2>2 DEF Revoke, Enroll, Rotate, Wipe, OpensStore
  <2>3. CASE RevokePuts(p) \/ RevokeEnds(p) \/ EnrollSaves(p) \/ WipeKeychain(p) \/ WipeEnds(p)
             \/ Export(p) \/ ExportEnds(p) \/ Import(p) \/ RotateEnds(p)
    BY Zenon, <2>1, <2>3 DEF RevokePuts, WritesStore, RevokeEnds, EnrollSaves, WipeKeychain,
       WipeEnds, Export, ExportEnds, Import, RotateEnds
  <2>4. CASE EnrollWritesId(p) \/ EnrollMarks(p) \/ WipeStore(p) \/ WipeRevision(p)
             \/ ImportStore(p) \/ ImportRevision(p) \/ Link(p) \/ LinkEnds(p)
    BY Zenon, <2>1, <2>4 DEF EnrollWritesId, EnrollMarks, WipeStore, WipeRevision, ImportStore,
       ImportRevision, Link, LinkEnds, Step
  <2>5. CASE RotateRekeys(p) \/ RotateSetsAside(p) \/ RotateInstalls(p)
             \/ RotateInstallsRevision(p) \/ RotateDrops(p)
    BY Zenon, <2>1, <2>5 DEF RotateRekeys, RotateSetsAside, RotateInstalls,
       RotateInstallsRevision, RotateDrops, Step, Tries
  <2> QED
    BY Zenon, <1>2, <2>2, <2>3, <2>4, <2>5 DEF Changing, Recovering
<1>3. ASSUME InitBegins(p) \/ InitCreates(p) \/ InitPutsIdentity(p) \/ InitPutsRegistry(p)
             \/ InitWritesId(p) \/ InitEnrolls(p) \/ InitMarks(p) \/ InitEnds(p)
             \/ SetupUndoes(p)
      PROVE  \E from \in Making \cup {"init", "init_create"} : At(p, from)
  <2>1. {"init", "init_create", "init_identity", "init_registry", "init_id", "init_keychain",
         "init_mark", "init_out", "setup_undo"} \subseteq Making \cup {"init", "init_create"}
    BY Zenon DEF Making
  <2> QED
    BY Zenon, <1>3, <2>1 DEF InitBegins, InitCreates, InitPutsIdentity, InitPutsRegistry,
       InitWritesId, InitEnrolls, InitMarks, InitEnds, SetupUndoes, Step
<1> QED
  BY Zenon, <1>1, <1>2, <1>3 DEF Initializing

\* All but the steps around the lock are those of a process that works on the
\* profile's files; only those of serve are the daemon's.
LEMMA WorkingSteps ==
    /\ \A s \in Daemon \cup Outside \cup Making \cup {"init", "init_create"} :
           s \notin Ended /\ s \notin Locking
    /\ \A s \in Outside : s \notin Daemon /\ s \notin SetupSteps
    /\ \A s \in Making \cup {"init", "init_create"} : s \notin Daemon
    /\ \A s \in Locking \cup Ended : s \notin Daemon /\ s \notin Making
    /\ \A s \in Daemon : s # "err"
  BY SMTT(30) DEF Daemon, Outside, Making, Ended, Locking, SetupSteps, Unmade

\* One process moves, and only serve goes to a step of the daemon.
LEMMA HarmlessMover ==
    ASSUME NEW A, Sound(A), NEW p \in Pids, Harmless(p, A)
    PROVE  \E r : /\ proc' = [proc EXCEPT ![p] = r] /\ r.at # "new"
                  /\ proc[p].at \notin Daemon => r.at \notin Daemon
<1>1. LockInv /\ Memory(proc[p], A)
  BY Zenon DEF Sound, TypeInv
<1>2. PICK d : /\ Good(d, A)
               /\ \/ \E r : Quiet(p, r, A) /\ proc' = [proc EXCEPT ![p] = r] /\ disk' = d
                  \/ \E answer \in {"ok", "err"} : \E failed \in BOOLEAN :
                         Answers(p, answer, failed, d)
  BY Zenon DEF Harmless
<1>3. CASE \E r : Quiet(p, r, A) /\ proc' = [proc EXCEPT ![p] = r]
  BY Zenon, <1>3 DEF Quiet, Moves, Special
<1>4. ASSUME NEW answer \in {"ok", "err"}, NEW failed \in BOOLEAN, Answers(p, answer, failed, d)
      PROVE  \E r : /\ proc' = [proc EXCEPT ![p] = r] /\ r.at # "new"
                    /\ proc[p].at \notin Daemon => r.at \notin Daemon
  <2>1. PICK r : Left(r, p, answer, failed, d, A)
    BY Zenon, <1>1, <1>2, <1>4, AnswerLeaves DEF Good
  <2>2. proc' = [proc EXCEPT ![p] = r] /\ r.at \in {"ok", "err", "setup_run"}
    BY Zenon, <2>1 DEF Left
  <2> QED
    BY Zenon, <2>2, Unserved
<1> QED
  BY Zenon, <1>2, <1>3, <1>4

\* Unless two have worked at once, one process works on the profile's files.
Alone == overlapped \in BOOLEAN /\ (~overlapped => \A p, q \in Working(proc) : p = q)

\* And then every recovery is where its process left it.
ServeInv == ~overlapped => \A p \in Pids : proc[p].alive => Served(proc[p], disk)

\* What a step leaves of that.
Calm ==
    /\ \A q \in Pids : proc'[q].alive => Served(proc'[q], disk')
    /\ Exists(disk, PendingFile) /\ ~Exists(disk', PendingFile) =>
          /\ disk'[StoreFile] = disk[PendingFile].store
          /\ disk'[RevisionFile] = disk[PendingFile].revision
    /\ \A q \in Pids :
          /\ proc[q].holds /\ ~IsSetup(q) /\ proc'[q].at = "err"
          /\ proc[q].servable /\ ~proc'[q].failed
          => Pardoned(q)

\* Where the other files stay, so does what a recovery has done.
LEMMA ServedAside ==
    ASSUME NEW d, Aside(d), NEW r, Served(r, disk)
    PROVE  Served(r, d)
<1>1. \A f \in {PendingFile, StoreFile, RevisionFile} : d[f] = disk[f]
  BY Zenon, Files, Kinds DEF Aside, Elsewhere
<1> QED
  BY Zenon, <1>1 DEF Served, Servable, CanOpen, Exists, Unrestored

\* A process that starts, ends or is about the lock disturbs nobody.
LEMMA ApartCalm ==
    ASSUME Sound(Owner), NEW p \in Pids, Apart(p, Owner),
           \A q \in Pids : proc[q].alive => Served(proc[q], disk)
    PROVE  Calm
<1>0. LockInv
  BY Zenon DEF Sound
<1>1. PICK r : proc' = [proc EXCEPT ![p] = r] /\ Begins(p, r)
  BY Zenon DEF Apart
<1>2. proc'[p] = r /\ \A q \in Pids \ {p} : proc'[q] = proc[q]
  BY Zenon, <1>0, <1>1, Moved
<1>3. Aside(disk') /\ disk'[PendingFile] = disk[PendingFile]
  BY Zenon, Files, Kinds DEF Apart, Aside, Elsewhere
<1>4. r.alive => Served(r, disk')
  <2>1. SUFFICES ASSUME r.alive PROVE Served(r, disk')
    BY Zenon
  <2>2. r.at \in Daemon => r.at = "recover" /\ (r.servable => Servable(disk, r.secret))
    BY Zenon, <1>1, <2>1 DEF Begins
  <2>3. Served(r, disk)
    <3>1. CASE r.at \notin Daemon
      BY Zenon, <3>1, Unserved
    <3>2. CASE r.at \in Daemon
      <4>1. "recover" \notin Replacing
            /\ "recover" \notin {"install_revision", "drop_old", "drop_pending"}
            /\ "recover" \notin {"drop_old", "drop_pending"}
        BY SMTT(30) DEF Replacing
      <4> QED
        BY Zenon, <2>2, <3>2, <4>1 DEF Served
    <3> QED
      BY Zenon, <3>1, <3>2
  <2> QED
    BY Zenon, <1>3, <2>3, ServedAside
<1>5. ASSUME NEW q \in Pids, proc[q].holds, ~IsSetup(q) PROVE proc'[q].at # "err"
  <2>1. proc[q].at \in Daemon
    BY Zenon, <1>0, <1>5 DEF LockInv, Stands, Holding
  <2>2. CASE q # p
    BY Zenon, <1>2, <2>1, <2>2, WorkingSteps
  <2>3. CASE q = p
    BY Zenon, <1>1, <1>2, <2>1, <2>3, WorkingSteps DEF Begins, Ended
  <2> QED
    BY Zenon, <2>2, <2>3
<1>6. ASSUME NEW q \in Pids, proc'[q].alive PROVE Served(proc'[q], disk')
  <2>1. CASE q = p
    BY Zenon, <1>2, <1>4, <1>6, <2>1
  <2>2. CASE q # p
    BY Zenon, <1>2, <1>3, <1>6, <2>2, ServedAside
  <2> QED
    BY Zenon, <2>1, <2>2
<1> QED
  BY Zenon, <1>3, <1>5, <1>6 DEF Calm, Exists

\* A process that works on the files is the only one, so every recovery but
\* its own is over or has not begun.
LEMMA WorkCalm ==
    ASSUME Sound(Owner), Alone, ~overlapped, NEW p \in Pids, p \in Working(proc),
           \A q \in Pids \ {p} : proc'[q] = proc[q],
           \/ Tended(p)
           \/ /\ proc[p].at \notin Daemon /\ proc'[p].at \notin Daemon
              /\ disk'[PendingFile] = disk[PendingFile]
    PROVE  Calm
<1>0. LockInv
  BY Zenon DEF Sound
<1>1. \A q \in Pids \ {p} : proc'[q] = proc[q]
  OBVIOUS
<1>2. ASSUME NEW q \in Pids \ {p}, proc'[q].alive PROVE Served(proc'[q], disk')
  <2>1. proc[q].at \notin Daemon
    BY Zenon, <1>1, <1>2, WorkingSteps DEF Alone, Working
  <2> QED
    BY Zenon, <1>1, <2>1, Unserved
<1>3. ASSUME NEW q \in Pids, proc[q].holds, ~IsSetup(q)
      PROVE  proc[q].at \in Daemon /\ (q # p => proc'[q].at # "err")
  <2>1. proc[q].at \in Daemon
    BY Zenon, <1>0, <1>3 DEF LockInv, Stands, Holding
  <2> QED
    BY Zenon, <1>1, <2>1, WorkingSteps
<1>4. CASE Tended(p)
  <2>1. \A q \in Pids : proc'[q].alive => Served(proc'[q], disk')
    BY Zenon, <1>2, <1>4 DEF Tended
  <2>2. \A q \in Pids :
          /\ proc[q].holds /\ ~IsSetup(q) /\ proc'[q].at = "err"
          /\ proc[q].servable /\ ~proc'[q].failed
          => Pardoned(q)
    BY Zenon, <1>3, <1>4 DEF Tended
  <2> QED
    BY Zenon, <1>4, <2>1, <2>2 DEF Calm, Tended
<1>5. CASE /\ proc[p].at \notin Daemon /\ proc'[p].at \notin Daemon
           /\ disk'[PendingFile] = disk[PendingFile]
  <2>1. Served(proc'[p], disk')
    BY Zenon, <1>5, Unserved
  <2>2. \A q \in Pids : proc'[q].alive => Served(proc'[q], disk')
    BY Zenon, <1>2, <2>1
  <2> QED
    BY Zenon, <1>3, <1>5, <2>2 DEF Calm, Exists
<1> QED
  BY Zenon, <1>4, <1>5

\* Every step, while nobody has overlapped.
LEMMA ServeStep ==
    ASSUME Sound(Owner), Alone, ServeInv, ~overlapped, NEW p \in Pids,
           Starting(p) \/ Serving(p) \/ Initializing(p) \/ Changing(p) \/ Recovering(p)
    PROVE  Calm
<1>0. /\ LockInv /\ Owner \subseteq Owner /\ TypeInv(Paths, Owner) /\ ProfileIdFile \in Paths
      /\ p \in Owner /\ \A q \in Pids : proc[q].alive => Served(proc[q], disk)
  BY Zenon, Files DEF Sound, Elsewhere, ServeInv, Owner
<1>1. CASE Starting(p) \/ Setup(p) \/ SetupProfile(p) \/ SetupEnds(p)
  <2>1. Apart(p, Owner)
    BY Zenon, <1>0, <1>1, StartingApart
  <2> QED
    BY Zenon, <1>0, <2>1, ApartCalm
<1>2. CASE Serving(p)
  <2>1. PICK from \in Daemon : At(p, from)
    BY Zenon, <1>2, Acts
  <2>2. p \in Working(proc) /\ Served(proc[p], disk)
    BY Zenon, <1>0, <2>1, WorkingSteps DEF Working, At
  <2>3. Tended(p)
    BY Zenon, <1>2, <2>2, ServingTended
  <2>4. \A q \in Pids \ {p} : proc'[q] = proc[q]
    <3>1. CASE DaemonStages(p)
      BY Zenon, <3>1 DEF DaemonStages
    <3>2. CASE RecoverEnds(p)
      <4>1. FileOp(p, Exists(disk, PendingFile), Remove(disk, {PendingFile}),
                   [proc[p] EXCEPT !.at = "open"], disk)
        BY Zenon, <3>2 DEF RecoverEnds, Step
      <4>2. \E r : proc' = [proc EXCEPT ![p] = r]
        BY Zenon, <4>1 DEF FileOp, Becomes, Answers
      <4> QED
        BY Zenon, <1>0, <4>2, Moved
    <3>3. CASE ~DaemonStages(p) /\ ~RecoverEnds(p)
      BY Zenon, <1>0, <1>2, <3>3, ServingHarmless, HarmlessMover, Moved
    <3> QED
      BY Zenon, <3>1, <3>2, <3>3
  <2> QED
    BY Zenon, <2>2, <2>3, <2>4, WorkCalm
<1>3. CASE /\ Initializing(p) \/ Changing(p) \/ Recovering(p)
           /\ ~(Starting(p) \/ Setup(p) \/ SetupProfile(p) \/ SetupEnds(p))
  <2>1. PICK from \in Outside \cup Making \cup {"init", "init_create"} : At(p, from)
    BY Zenon, <1>3, Acts
  <2>2. p \in Working(proc) /\ proc[p].at \notin Daemon
    BY Zenon, <2>1, WorkingSteps DEF Working, At
  <2>3. Harmless(p, Owner)
    BY Zenon, <1>0, <1>3, ChangingHarmless, RecoveringHarmless, InitializingHarmless
  <2>4. PICK r : proc' = [proc EXCEPT ![p] = r] /\ r.at \notin Daemon
    BY Zenon, <2>2, <2>3, HarmlessMover
  <2>5. disk'[PendingFile] = disk[PendingFile]
    BY Zenon, <2>3, HarmlessPending
  <2>6. proc'[p].at \notin Daemon /\ \A q \in Pids \ {p} : proc'[q] = proc[q]
    BY Zenon, <1>0, <2>4, Moved
  <2> QED
    BY Zenon, <2>2, <2>5, <2>6, WorkCalm
<1> QED
  BY Zenon, <1>1, <1>2, <1>3

\* The other processes stay as they are, and the one that moves has started.
LEMMA Mover ==
    ASSUME Sound(Owner), NEW p \in Pids,
           Starting(p) \/ Serving(p) \/ Initializing(p) \/ Changing(p) \/ Recovering(p)
    PROVE  limits' = limits /\ proc'[p].at # "new" /\ \A q \in Pids \ {p} : proc'[q] = proc[q]
<1>0. /\ LockInv /\ Owner \subseteq Owner /\ TypeInv(Paths, Owner) /\ ProfileIdFile \in Paths
      /\ p \in Owner
  BY Zenon, Files DEF Sound, Elsewhere, Owner
<1>1. CASE Starting(p) \/ Setup(p) \/ SetupProfile(p) \/ SetupEnds(p)
  <2>1. Apart(p, Owner)
    BY Zenon, <1>0, <1>1, StartingApart
  <2> QED
    <3>1. limits' = limits /\ \E r : proc' = [proc EXCEPT ![p] = r] /\ r.at # "new"
      BY Zenon, <2>1 DEF Apart, Begins
    <3> QED
      BY Zenon, <1>0, <3>1, Moved
<1>2. CASE DaemonStages(p)
  BY Zenon, <1>2 DEF DaemonStages, others, At
<1>3. CASE RecoverEnds(p)
  <2>1. /\ FileOp(p, Exists(disk, PendingFile), Remove(disk, {PendingFile}),
                  [proc[p] EXCEPT !.at = "open"], disk)
        /\ limits' = limits
    BY Zenon, <1>3 DEF RecoverEnds, Step, others
  <2>2. DOMAIN proc[p] = Fields /\ DOMAIN disk = Paths /\ Memory(proc[p], Owner)
    BY Zenon, <1>0, Shapes DEF TypeInv
  <2>3. \E r : proc' = [proc EXCEPT ![p] = r] /\ r.at # "new"
    <3>1. CASE Becomes(p, [proc[p] EXCEPT !.at = "open"])
      <4>1. [proc[p] EXCEPT !.at = "open"].at = "open"
        BY SMTT(30), <2>2 DEF Fields, Fresh
      <4> QED
        BY Zenon, <3>1, <4>1 DEF Becomes
    <3>2. ASSUME NEW failed \in BOOLEAN, Answers(p, "err", failed, disk)
          PROVE  \E r : proc' = [proc EXCEPT ![p] = r] /\ r.at # "new"
      <4>1. PICK r : Left(r, p, "err", failed, disk, Owner)
        BY Zenon, <2>2, <3>2, AnswerLeaves
      <4>2. proc' = [proc EXCEPT ![p] = r] /\ r.at \in {"setup_run", "err"}
        BY Zenon, <4>1 DEF Left
      <4> QED
        BY Zenon, <4>2
    <3> QED
      BY Zenon, <2>1, <3>1, <3>2 DEF FileOp
  <2> QED
    BY Zenon, <1>0, <2>1, <2>3, Moved
<1>4. CASE /\ Serving(p) \/ Initializing(p) \/ Changing(p) \/ Recovering(p)
           /\ ~DaemonStages(p) /\ ~RecoverEnds(p) /\ ~SetupEnds(p)
  <2>1. Harmless(p, Owner)
    BY Zenon, <1>0, <1>4, ChangingHarmless, RecoveringHarmless, InitializingHarmless,
       ServingHarmless
  <2> QED
    <3>1. PICK r : proc' = [proc EXCEPT ![p] = r] /\ r.at # "new"
      BY Zenon, <2>1, HarmlessMover
    <3>2. limits' = limits
      BY Zenon, <2>1 DEF Harmless, Kept
    <3> QED
      BY Zenon, <1>0, <3>1, <3>2, Moved
<1> QED
  BY Zenon, <1>1, <1>2, <1>3, <1>4

-----------------------------------------------------------------------------
\* What a setup that nobody disturbs leaves of an account

\* What init has done at each step for the setup of p: the store is the one it
\* made, the profile id names its account, and the keychain has its passphrase.
\* A setup asks for no passphrase file.
Made(p, r, d, k) ==
    /\ r.at \in Making \cup {"init", "init_create"} => ~r.out
    /\ r.at = "init_create" => ~Exists(d, StoreFile)
    /\ r.at \in Making /\ Exists(d, StoreFile) => d[StoreFile].secret = p
    /\ r.at \in {"init_keychain", "init_mark"} => d[ProfileIdFile] = p
    /\ r.at = "init_mark" => k[p] = p

\* Unless two have worked at once, every setup is where its process left it.
SetupInv ==
    ~overlapped =>
        \A p \in Pids : IsSetup(p) /\ proc[p].alive => Made(p, proc[p], disk, keychain)

\* A setup that answers an error leaves a store only that can be unlocked, but
\* for the steps that strand one.
Unlocks(p) ==
    proc[p].at \in Operations /\ proc'[p].at = "setup_run" /\ Exists(disk', StoreFile) =>
        \/ disk'[StoreFile].secret \in Offered'
        \/ proc[p].at = "init"
        \/ proc[p].at \in Stranding /\ proc'[p].failed

Advances(p) == Made(p, proc'[p], disk', keychain') /\ Unlocks(p)

\* Only the steps of init are asked for anything.
LEMMA NothingMade ==
    /\ \A p, r, d, k : r.at \notin Making \cup {"init", "init_create"} => Made(p, r, d, k)
    /\ \A s \in {"ok", "err", "setup_run"} : s \notin Making \cup {"init", "init_create"}
    /\ \A s \in Making \cup {"init", "init_create"} : s # "setup_run"
    /\ "setup_run" \notin Operations
<1>1. {"init_keychain", "init_mark"} \subseteq Making
  BY SMTT(30) DEF Making
<1>2. \A p, r, d, k : r.at \notin Making \cup {"init", "init_create"} => Made(p, r, d, k)
  BY Zenon, <1>1 DEF Made
<1>3. /\ \A s \in {"ok", "err", "setup_run"} : s \notin Making \cup {"init", "init_create"}
      /\ \A s \in Making \cup {"init", "init_create"} : s # "setup_run"
      /\ "setup_run" \notin Operations
  BY SMTT(30) DEF Making, Operations
<1> QED
  BY Zenon, <1>2, <1>3

\* A setup answers an error: there is no store, or it strands one, or the
\* keychain unlocks the one that is there.
LEMMA ErrMade ==
    ASSUME Sound(Owner), NEW p \in Pids, NEW failed \in BOOLEAN, NEW d, DOMAIN d = Paths,
           Answers(p, "err", failed, d),
           \/ ~Exists(d, StoreFile)
           \/ proc[p].at = "init"
           \/ proc[p].at \in Stranding /\ failed
           \/ d[StoreFile].secret = p /\ d[ProfileIdFile] = p /\ keychain'[p] = p
    PROVE  Advances(p)
<1>1. LockInv /\ Memory(proc[p], Owner) /\ "err" \in {"ok", "err"} /\ p \in Owner
  BY Zenon DEF Sound, TypeInv, Owner
<1>2. PICK r : Left(r, p, "err", failed, d, Owner)
  BY Zenon, <1>1, AnswerLeaves
<1>3. /\ proc' = [proc EXCEPT ![p] = r] /\ r.failed = (proc[p].failed \/ failed)
      /\ \A f \in Paths \ {LockFile} : disk'[f] = d[f]
      /\ r.at \in {"err", "setup_run"}
  BY Zenon, <1>2 DEF Left
<1>4. proc'[p] = r
  BY Zenon, <1>1, <1>3, Moved
<1>5. disk'[StoreFile] = d[StoreFile] /\ disk'[ProfileIdFile] = d[ProfileIdFile]
  BY Zenon, <1>3, Files DEF Elsewhere
<1>6. Made(p, r, disk', keychain')
  BY Zenon, <1>3, NothingMade
<1>7. d[ProfileIdFile] = p /\ keychain'[p] = p => p \in Offered'
  <2>1. p # NoFile
    BY Zenon, <1>1, NoFileAssumption
  <2> QED
    BY SMTT(30), <1>5, <2>1 DEF Offered, Exists
<1>8. Unlocks(p)
  BY Zenon, <1>3, <1>4, <1>5, <1>7 DEF Unlocks, Exists
<1> QED
  BY Zenon, <1>4, <1>6, <1>8 DEF Advances

\* A file operation of init, done or undone.
LEMMA StepMade ==
    ASSUME Sound(Owner), NEW p \in Pids, NEW from, NEW can \in BOOLEAN, NEW after,
           NEW to \in Making \cup {"init_create"}, NEW undone,
           Step(p, from, can, after, to, undone), DOMAIN undone = Paths,
           can => \A r : r.at = to /\ r.out = proc[p].out => Made(p, r, after, keychain'),
           ~can => from = "init" \/ ~Exists(undone, StoreFile),
           \/ ~Exists(undone, StoreFile)
           \/ from = "init" \/ from \in Stranding
           \/ undone[StoreFile].secret = p /\ undone[ProfileIdFile] = p /\ keychain'[p] = p
    PROVE  Advances(p)
<1>1. LockInv /\ DOMAIN proc[p] = Fields /\ proc[p].at = from
  BY Zenon, Shapes DEF Sound, Step, At
<1>2. PICK r : r = [proc[p] EXCEPT !.at = to]
  BY Zenon
<1>3. r.at = to /\ r.out = proc[p].out
  BY SMTT(30), <1>1, <1>2 DEF Fields, Fresh
<1>4. FileOp(p, can, after, r, undone)
  BY Zenon, <1>2 DEF Step
<1>5. CASE can /\ disk' = after /\ Becomes(p, r)
  <2>1. proc'[p] = r
    BY Zenon, <1>1, <1>5, Moved DEF Becomes
  <2>2. Made(p, r, disk', keychain')
    BY Zenon, <1>3, <1>5
  <2>3. r.at # "setup_run"
    BY Zenon, <1>3, NothingMade
  <2> QED
    BY Zenon, <2>1, <2>2, <2>3 DEF Advances, Unlocks
<1>6. CASE ~can /\ Answers(p, "err", FALSE, undone)
  BY Zenon, <1>1, <1>6, ErrMade
<1>7. CASE Answers(p, "err", TRUE, undone)
  BY Zenon, <1>1, <1>7, ErrMade
<1> QED
  BY Zenon, <1>4, <1>5, <1>6, <1>7 DEF FileOp

\* The stores init makes have the passphrase it generated.
LEMMA OwnSecret ==
    ASSUME NEW p \in Pids
    PROVE  New(p, p).secret = p /\ Identified(p).secret = p /\ Registered(p).secret = p
<1>1. PICK n : n = New(p, p)
  BY Zenon
<1>2. n.secret = p
  BY SMTT(30), <1>1 DEF New
<1>3. PICK i : i = [n EXCEPT !.revision = @ + 1]
  BY Zenon
<1>4. i.secret = p /\ DOMAIN i = DOMAIN New(p, p)
  BY SMTT(30), <1>1, <1>2, <1>3 DEF New
<1>5. PICK j : j = [i EXCEPT !.revision = @ + 1]
  BY Zenon
<1>6. j.secret = p /\ DOMAIN j = DOMAIN New(p, p)
  BY SMTT(30), <1>4, <1>5 DEF New
<1>7. [j EXCEPT !.ready = TRUE].secret = p
  BY SMTT(30), <1>6 DEF New
<1> QED
  BY Zenon, <1>1, <1>2, <1>3, <1>4, <1>5, <1>7 DEF Identified, Registered, Advanced

\* What the operations of init leave in the files it is about.
LEMMA InitFiles ==
    ASSUME LockInv
    PROVE  /\ \A i : Committed(disk, i)[StoreFile] = i
           /\ \A c : /\ Write(disk, ProfileIdFile, c)[ProfileIdFile] = c
                     /\ Write(disk, ProfileIdFile, c)[StoreFile] = disk[StoreFile]
                     /\ Write(disk, KeychainFile, c)[StoreFile] = disk[StoreFile]
           /\ \A files : StoreFile \in files => Remove(disk, files)[StoreFile] = NoFile
           /\ \A files : DOMAIN Remove(disk, files) = Paths
<1>1. DOMAIN disk = Paths /\ StoreFile \in Paths /\ RevisionFile \in Paths
      /\ ProfileIdFile \in Paths
  BY Zenon, Shapes, Files DEF Elsewhere
<1>2. StoreFile # RevisionFile /\ StoreFile # ProfileIdFile /\ StoreFile # KeychainFile
  BY Zenon, Kinds
<1> QED
  BY SMTT(30), <1>1, <1>2 DEF Committed, Write, Remove

\* Every step of init for a setup.
LEMMA InitMade ==
    ASSUME Sound(Owner), NEW p \in Pids, IsSetup(p), Made(p, proc[p], disk, keychain),
           \/ InitBegins(p) \/ InitCreates(p) \/ InitPutsIdentity(p) \/ InitPutsRegistry(p)
           \/ InitWritesId(p) \/ InitEnrolls(p) \/ InitMarks(p) \/ InitEnds(p)
           \/ SetupUndoes(p)
    PROVE  Advances(p)
<1>h. LockInv /\ DOMAIN disk = Paths /\ DOMAIN proc[p] = Fields /\ Memory(proc[p], Owner)
  BY Zenon, Shapes DEF Sound, TypeInv
<1>k. UNCHANGED others => keychain' = keychain
  BY Zenon DEF others
<1>s. /\ {"init_identity", "init_registry", "init_id", "init_keychain", "init_mark", "init_out",
          "setup_undo"} \subseteq Making
      /\ "init_create" \notin Making
      /\ \A s \in {"init_identity", "init_registry", "init_id", "init_out", "setup_undo"} :
            s # "init_create" /\ s \notin {"init_keychain", "init_mark"} /\ s # "init_mark"
      /\ {"init_identity", "init_registry", "init_id", "setup_undo"} \subseteq Stranding
  BY SMTT(30) DEF Making, Stranding
<1>1. ASSUME InitBegins(p) PROVE Advances(p)
  <2>1. PICK can \in BOOLEAN : can = ~Exists(disk, StoreFile)
    BY Zenon DEF Exists
  <2>2. Step(p, "init", can, disk, "init_create", disk) /\ ~proc[p].out
    BY Zenon, <1>1, <2>1 DEF InitBegins, Step, At, Made
  <2>3. can => \A r : r.at = "init_create" /\ r.out = proc[p].out => Made(p, r, disk, keychain')
    BY Zenon, <1>s, <2>1, <2>2 DEF Made
  <2> QED
    BY Zenon, <1>h, <2>2, <2>3, StepMade
<1>2. ASSUME InitCreates(p) PROVE Advances(p)
  <2>1. /\ Step(p, "init_create", ~Exists(disk, StoreFile), Committed(disk, New(p, p)),
                "init_identity",
                IF Exists(disk, StoreFile) THEN disk ELSE Remove(disk, {StoreFile, RevisionFile}))
        /\ ~proc[p].out /\ ~Exists(disk, StoreFile)
    BY Zenon, <1>2 DEF InitCreates, Step, At, Made
  <2>2. PICK d : d = Committed(disk, New(p, p))
    BY Zenon
  <2>3. PICK u : u = Remove(disk, {StoreFile, RevisionFile})
    BY Zenon
  <2>4. Step(p, "init_create", TRUE, d, "init_identity", u)
    BY Zenon, <2>1, <2>2, <2>3
  <2>5. d[StoreFile].secret = p /\ ~Exists(u, StoreFile) /\ DOMAIN u = Paths
    BY Zenon, <1>h, <2>2, <2>3, InitFiles, OwnSecret DEF Exists
  <2>6. \A r : r.at = "init_identity" /\ r.out = proc[p].out => Made(p, r, d, keychain')
    BY Zenon, <1>s, <2>1, <2>5 DEF Made
  <2> QED
    BY Zenon, <1>s, <2>4, <2>5, <2>6, StepMade
<1>3. ASSUME NEW image, image.secret = p, NEW from \in {"init_identity", "init_registry"},
             NEW to \in {"init_registry", "init_id"},
             Step(p, from, Exists(disk, StoreFile), Committed(disk, image), to, disk)
      PROVE  Advances(p)
  <2>1. PICK can \in BOOLEAN : can = Exists(disk, StoreFile)
    BY Zenon DEF Exists
  <2>2. PICK d : d = Committed(disk, image)
    BY Zenon
  <2>3. Step(p, from, can, d, to, disk) /\ ~proc[p].out /\ from \in Stranding
    BY Zenon, <1>3, <1>s, <2>1, <2>2 DEF Step, At, Made
  <2>4. d[StoreFile].secret = p
    BY Zenon, <1>3, <1>h, <2>2, InitFiles
  <2>5. \A r : r.at = to /\ r.out = proc[p].out => Made(p, r, d, keychain')
    BY Zenon, <1>3, <1>s, <2>3, <2>4 DEF Made
  <2>6. to \in Making \cup {"init_create"}
    BY Zenon, <1>3, <1>s
  <2> QED
    BY Zenon, <1>h, <2>1, <2>3, <2>5, <2>6, StepMade
<1>4. ASSUME InitWritesId(p) PROVE Advances(p)
  <2>1. PICK d : d = Write(disk, ProfileIdFile, p)
    BY Zenon
  <2>2. Step(p, "init_id", TRUE, d, "init_keychain", disk) /\ proc[p].at = "init_id"
    BY Zenon, <1>4, <2>1 DEF InitWritesId, Step, At
  <2>3. ~proc[p].out /\ (Exists(disk, StoreFile) => disk[StoreFile].secret = p)
    BY Zenon, <1>s, <2>2 DEF Made
  <2>4. d[ProfileIdFile] = p /\ d[StoreFile] = disk[StoreFile]
    BY Zenon, <1>h, <2>1, InitFiles
  <2>5. \A r : r.at = "init_keychain" /\ r.out = proc[p].out => Made(p, r, d, keychain')
    BY Zenon, <2>3, <2>4 DEF Made, Exists
  <2> QED
    BY Zenon, <1>h, <1>s, <2>2, <2>5, StepMade
<1>5. ASSUME InitEnrolls(p) PROVE Advances(p)
  <2>1. PICK to \in {"init_mark", "setup_undo"} :
          /\ At(p, "init_keychain") /\ Goto(p, to) /\ disk' = disk
          /\ to = "init_mark" => keychain' = [keychain EXCEPT ![p] = p]
    BY Zenon, <1>5 DEF InitEnrolls
  <2>2. PICK r : r = [proc[p] EXCEPT !.at = to]
    BY Zenon
  <2>3. r.at = to /\ r.out = proc[p].out
    BY SMTT(30), <1>h, <2>2 DEF Fields, Fresh
  <2>4. proc'[p] = r
    BY Zenon, <1>h, <2>1, <2>2, Moved DEF Goto, Becomes
  <2>5. to = "init_mark" => keychain'[p] = p
    <3>1. DOMAIN keychain = Owner /\ p \in Owner
      BY Zenon DEF Sound, TypeInv, Rest, Owner
    <3> QED
      BY SMTT(30), <2>1, <3>1
  <2>6. /\ ~proc[p].out /\ (Exists(disk, StoreFile) => disk[StoreFile].secret = p)
        /\ disk[ProfileIdFile] = p
    BY Zenon, <1>s, <2>1 DEF Made, At
  <2>7. to \in Making /\ to # "init_create" /\ to # "setup_run"
    BY Zenon, <1>s, NothingMade
  <2>8. Made(p, r, disk', keychain')
    BY Zenon, <2>1, <2>3, <2>5, <2>6, <2>7 DEF Made
  <2> QED
    BY Zenon, <2>3, <2>4, <2>7, <2>8 DEF Advances, Unlocks
<1>6. ASSUME InitMarks(p) PROVE Advances(p)
  <2>1. PICK d : d = Write(disk, KeychainFile, TRUE)
    BY Zenon
  <2>2. /\ Step(p, "init_mark", TRUE, d, "init_out", disk) /\ proc[p].at = "init_mark"
        /\ keychain' = keychain
    BY Zenon, <1>6, <1>k, <2>1 DEF InitMarks, Step, At
  <2>3. /\ ~proc[p].out /\ (Exists(disk, StoreFile) => disk[StoreFile].secret = p)
        /\ disk[ProfileIdFile] = p /\ keychain'[p] = p
    BY Zenon, <1>s, <2>2 DEF Made
  <2>4. d[StoreFile] = disk[StoreFile]
    BY Zenon, <1>h, <2>1, InitFiles
  <2>5. \A r : r.at = "init_out" /\ r.out = proc[p].out => Made(p, r, d, keychain')
    BY Zenon, <1>s, <2>3, <2>4 DEF Made, Exists
  <2> QED
    BY Zenon, <1>h, <1>s, <2>2, <2>3, <2>5, StepMade
<1>7. ASSUME InitEnds(p) PROVE Advances(p)
  <2>1. ~proc[p].out
    BY Zenon, <1>7, <1>s DEF InitEnds, At, Made
  <2>2. Answers(p, "ok", FALSE, disk)
    BY Zenon, <1>7, <2>1 DEF InitEnds, Succeeds
  <2>3. PICK r : Left(r, p, "ok", FALSE, disk, Owner)
    BY Zenon, <1>h, <2>2, AnswerLeaves
  <2>4. proc' = [proc EXCEPT ![p] = r] /\ r.at = "ok"
    BY Zenon, <2>3 DEF Left
  <2>5. proc'[p] = r /\ Made(p, r, disk', keychain')
    BY Zenon, <1>h, <2>4, Moved, NothingMade
  <2> QED
    BY Zenon, <2>4, <2>5 DEF Advances, Unlocks
<1>8. ASSUME SetupUndoes(p) PROVE Advances(p)
  <2>1. PICK d : d = Remove(disk, {StoreFile, RevisionFile, ProfileIdFile, KeychainFile})
    BY Zenon
  <2>2. PICK c : c = Remove(disk, {StoreFile})
    BY Zenon
  <2>3. /\ proc[p].at = "setup_undo"
        /\ Answers(p, "err", FALSE, d) \/ Answers(p, "err", TRUE, disk)
           \/ Answers(p, "err", TRUE, c)
    BY Zenon, <1>8, <2>1, <2>2 DEF SetupUndoes, At
  <2>4. ~Exists(d, StoreFile) /\ DOMAIN d = Paths /\ DOMAIN c = Paths
    BY Zenon, <1>h, <2>1, <2>2, InitFiles DEF Exists
  <2> QED
    BY Zenon, <1>h, <1>s, <2>3, <2>4, ErrMade
<1>9. ASSUME InitPutsIdentity(p) \/ InitPutsRegistry(p) PROVE Advances(p)
  BY Zenon, <1>3, <1>9, OwnSecret DEF InitPutsIdentity, InitPutsRegistry
<1> QED
  BY Zenon, <1>1, <1>2, <1>4, <1>5, <1>6, <1>7, <1>8, <1>9

\* Starting, and whatever concerns the lock, leaves the keychain.
LEMMA KeychainLeft ==
    ASSUME NEW p \in Pids, Starting(p) \/ Setup(p) \/ SetupProfile(p) \/ SetupEnds(p)
    PROVE  keychain' = keychain
<1>1. CASE Acquire(p) \/ AcquireAgain(p) \/ WritePid(p) \/ Stop(p) \/ Crash(p) \/ Start(p)
  BY Zenon, <1>1 DEF Acquire, AcquireAgain, WritePid, Stop, Crash, Start, others
<1>2. CASE BreakLock(p) \/ StopBreaks(p)
  BY Zenon, <1>2 DEF BreakLock, StopBreaks, Breaks
<1>3. CASE Setup(p) \/ SetupProfile(p) \/ SetupEnds(p)
  BY Zenon, <1>3 DEF Setup, SetupProfile, SetupEnds, others
<1> QED
  BY Zenon, <1>1, <1>2, <1>3 DEF Starting

\* Every step, while nobody has overlapped.
LEMMA SetupStep ==
    ASSUME Sound(Owner), Alone, SetupInv, ~overlapped, NEW p \in Pids,
           Starting(p) \/ Serving(p) \/ Initializing(p) \/ Changing(p) \/ Recovering(p)
    PROVE  \A q \in Pids : IsSetup(q) =>
              /\ proc'[q].alive => Made(q, proc'[q], disk', keychain')
              /\ Unlocks(q)
<1>0. /\ LockInv /\ Owner \subseteq Owner /\ TypeInv(Paths, Owner) /\ ProfileIdFile \in Paths
      /\ \A q \in Pids : IsSetup(q) /\ proc[q].alive => Made(q, proc[q], disk, keychain)
  BY Zenon, Files DEF Sound, Elsewhere, SetupInv
<1>1. /\ \A q \in Pids \ {p} : proc'[q] = proc[q]
      /\ \A q \in Pids \ {p} : Unlocks(q)
  <2>1. \A q \in Pids \ {p} : proc'[q] = proc[q]
    BY Zenon, Mover
  <2> QED
    BY Zenon, <2>1, NothingMade DEF Unlocks
<1>2. CASE Starting(p) \/ Setup(p) \/ SetupProfile(p) \/ SetupEnds(p)
  <2>1. Apart(p, Owner) /\ keychain' = keychain
    BY Zenon, <1>0, <1>2, StartingApart, KeychainLeft
  <2>2. disk'[StoreFile] = disk[StoreFile] /\ disk'[ProfileIdFile] = disk[ProfileIdFile]
    BY Zenon, <2>1, Files DEF Apart, Aside, Elsewhere
  <2>3. PICK r : proc' = [proc EXCEPT ![p] = r] /\ Begins(p, r)
    BY Zenon, <2>1 DEF Apart
  <2>4. proc'[p] = r
    BY Zenon, <1>0, <2>3, Moved
  <2>5. ASSUME NEW q \in Pids \ {p}, IsSetup(q), proc'[q].alive
        PROVE  Made(q, proc'[q], disk', keychain')
    <3>1. Made(q, proc[q], disk, keychain)
      BY Zenon, <1>0, <1>1, <2>5
    <3> QED
      BY Zenon, <1>1, <2>1, <2>2, <3>1 DEF Made, Exists
  <2>6. IsSetup(p) /\ r.alive => Made(p, r, disk', keychain')
    <3>1. IsSetup(p) /\ r.alive =>
             r.at \notin Making /\ r.at # "init_create" /\ (r.at = "init" => ~r.out)
      BY Zenon, <2>3 DEF Begins
    <3>2. {"init_keychain", "init_mark"} \subseteq Making
      BY SMTT(30) DEF Making
    <3> QED
      BY Zenon, <3>1, <3>2 DEF Made
  <2>7. Unlocks(p)
    <3>1. \A s \in Locking \cup {"new", "setup_run"} : s \notin Operations
      BY SMTT(30) DEF Locking, Operations
    <3>2. proc[p].at \notin Operations \/ r.at # "setup_run"
      BY Zenon, <2>3, <3>1 DEF Begins
    <3> QED
      BY Zenon, <2>4, <3>2 DEF Unlocks
  <2> QED
    BY Zenon, <1>1, <2>4, <2>5, <2>6, <2>7
<1>3. CASE ~(Starting(p) \/ Setup(p) \/ SetupProfile(p) \/ SetupEnds(p))
  <2>1. PICK from \in Daemon \cup Outside \cup Making \cup {"init", "init_create"} : At(p, from)
    BY Zenon, <1>3, Acts
  <2>2. p \in Working(proc) /\ proc[p].alive /\ proc[p].at = from
    BY Zenon, <2>1, WorkingSteps DEF Working, At
  <2>3. ASSUME NEW q \in Pids \ {p}, proc'[q].alive PROVE Made(q, proc'[q], disk', keychain')
    <3>1. proc[q].at \notin Making \cup {"init", "init_create"}
      BY Zenon, <1>1, <2>2, <2>3, WorkingSteps DEF Alone, Working
    <3> QED
      BY Zenon, <1>1, <3>1, NothingMade
  <2>4. ASSUME IsSetup(p) PROVE Advances(p)
    <3>1. proc[p].at \in SetupSteps
      BY Zenon, <1>0, <2>4 DEF LockInv, Stands
    <3>2. from \notin Daemon \cup Outside
      <4>1. \A s \in Daemon : s \notin SetupSteps
        BY SMTT(30) DEF Daemon, SetupSteps, Unmade, Making
      <4> QED
        BY Zenon, <2>2, <3>1, <4>1, WorkingSteps
    <3>3. ~Serving(p) /\ ~Changing(p) /\ ~Recovering(p) /\ ~Link(p) /\ ~LinkEnds(p)
      BY Zenon, <2>2, <3>2, Acts DEF At
    <3> QED
      BY Zenon, <1>0, <1>3, <2>2, <2>4, <3>3, InitMade DEF Initializing
  <2> QED
    BY Zenon, <1>1, <2>3, <2>4 DEF Advances
<1> QED
  BY Zenon, <1>2, <1>3

-----------------------------------------------------------------------------
\* The theorems

\* All of it.
ProfileInv == Sound(Owner) /\ Alone /\ ServeInv /\ SetupInv

\* It holds when nobody has started.
LEMMA InitProfileInv ==
    ASSUME Init
    PROVE  ProfileInv
<1>1. overlapped = FALSE /\ \A p \in Pids : proc[p].at = "new"
  BY SMTT(30) DEF Init, Fresh
<1>2. Sound(Owner)
  BY Zenon, InitSound DEF Owner
<1>3. Alone
  <2>1. \A p \in Pids : p \notin Working(proc)
    BY Zenon, <1>1 DEF Working, Ended
  <2>2. \A p \in Working(proc) : p \in Pids
    BY Zenon DEF Working
  <2> QED
    BY Zenon, <1>1, <2>1, <2>2 DEF Alone
<1>4. ServeInv
  <2>1. "new" \notin Replacing /\ "new" \notin {"recover", "open"}
    BY SMTT(30) DEF Replacing
  <2> QED
    BY Zenon, <1>1, <2>1, Unserved DEF ServeInv
<1>5. SetupInv
  <2>1. "new" \notin Making \cup {"init", "init_create"}
    BY SMTT(30) DEF Making
  <2> QED
    BY Zenon, <1>1, <2>1, NothingMade DEF SetupInv
<1> QED
  BY Zenon, <1>2, <1>3, <1>4, <1>5 DEF ProfileInv

\* Finite sets are needed from here on.
INSTANCE FiniteSetTheorems

\* A set of processes with two members counts more than one.
LEMMA TwoOrMore ==
    ASSUME NEW S, S \subseteq Pids, ~(\A p, q \in S : p = q)
    PROVE  Cardinality(S) > 1
<1>1. IsFiniteSet(S)
  <2>1. IsFiniteSet(Pids)
    BY SMTT(30), ProfileFilesAssumption, FS_Interval DEF Pids
  <2> QED
    BY SMTT(30), <2>1, FS_Subset
<1>2. PICK p \in S, q \in S : p # q
  BY Zenon
<1>3. IsFiniteSet(S \ {p}) /\ Cardinality(S \ {p}) = Cardinality(S) - 1
  BY SMTT(30), <1>1, <1>2, FS_RemoveElement
<1>4. Cardinality(S \ {p}) # 0 /\ Cardinality(S \ {p}) \in Nat /\ Cardinality(S) \in Nat
  BY SMTT(30), <1>1, <1>2, <1>3, FS_EmptySet, FS_CardinalityType
<1> QED
  BY SMTT(30), <1>3, <1>4

\* And no more when all are one.
LEMMA OneOrNone ==
    ASSUME NEW S, \A p, q \in S : p = q
    PROVE  ~(Cardinality(S) > 1)
<1>1. CASE S = {}
  BY SMTT(30), <1>1, FS_EmptySet
<1>2. CASE S # {}
  <2>1. PICK p : S = {p}
    BY SMTT(30), <1>2
  <2>2. Cardinality({p}) = 1
    BY FS_Singleton
  <2> QED
    BY SMTT(30), <2>1, <2>2
<1> QED
  BY Zenon, <1>1, <1>2

\* Every step keeps it.
LEMMA ProfileInvStep ==
    ASSUME ProfileInv, [Next]_vars
    PROVE  ProfileInv'
<1>0. Sound(Owner) /\ Alone /\ ServeInv /\ SetupInv
  BY Zenon DEF ProfileInv
<1>1. Sound(Owner)'
  BY Zenon, <1>0, SoundStep
<1>2. CASE UNCHANGED vars
  <2>1. Alone' /\ ServeInv'
    BY Zenon, <1>0, <1>2 DEF Alone, ServeInv, vars
  <2>2. SetupInv'
    BY Zenon, <1>0, <1>2 DEF SetupInv, IsSetup, Made, Exists, vars
  <2> QED
    BY Zenon, <1>1, <2>1, <2>2 DEF ProfileInv
<1>3. CASE Next
  <2>1. PICK p \in Pids : \/ Starting(p) \/ Serving(p) \/ Initializing(p)
                          \/ Changing(p) \/ Recovering(p)
    BY Zenon, <1>3 DEF Next
  <2>2. overlapped' = (overlapped \/ Cardinality(Working(proc')) > 1)
    BY Zenon, <1>3 DEF Next
  <2>3. overlapped \in BOOLEAN /\ overlapped' \in BOOLEAN
    BY Zenon, <1>0, <2>2 DEF Alone
  <2>4. overlapped => overlapped'
    BY Zenon, <2>2
  <2>5. Alone'
    <3>1. SUFFICES ASSUME ~overlapped' PROVE \A x, y \in Working(proc') : x = y
      BY Zenon, <2>3 DEF Alone
    <3>2. ~(Cardinality(Working(proc')) > 1)
      BY Zenon, <2>2, <3>1
    <3>3. Working(proc') \subseteq Pids
      BY Zenon DEF Working
    <3> QED
      BY Zenon, <3>2, <3>3, TwoOrMore
  <2>6. ServeInv'
    <3>1. SUFFICES ASSUME ~overlapped'
                   PROVE  \A q \in Pids : proc'[q].alive => Served(proc[q], disk)'
      BY Zenon DEF ServeInv
    <3>2. Calm
      BY Zenon, <1>0, <2>1, <2>4, <3>1, ServeStep
    <3> QED
      BY Zenon, <3>2 DEF Calm, Served, Servable, CanOpen, Exists, Unrestored
  <2>7. SetupInv'
    <3>1. SUFFICES ASSUME ~overlapped', NEW q \in Pids, IsSetup(q)', proc'[q].alive
                   PROVE  Made(q, proc[q], disk, keychain)'
      BY Zenon DEF SetupInv
    <3>2. IsSetup(q)
      BY Zenon, <1>0, <2>1, <3>1, Mover DEF IsSetup
    <3>3. Made(q, proc'[q], disk', keychain')
      BY Zenon, <1>0, <2>1, <2>4, <3>1, <3>2, SetupStep
    <3> QED
      BY Zenon, <3>3 DEF Made, Exists
  <2> QED
    BY Zenon, <1>1, <2>5, <2>6, <2>7 DEF ProfileInv
<1> QED
  BY Zenon, <1>2, <1>3

\* So it always holds.
LEMMA AlwaysProfileInv == Spec => []ProfileInv
<1>1. Init => ProfileInv
  BY Zenon, InitProfileInv
<1>2. ProfileInv /\ [Next]_vars => ProfileInv'
  BY Zenon, ProfileInvStep
<1> QED
  BY <1>1, <1>2, PTL DEF Spec

\* InstanceLock: however many processes start, crash and stop, and in whatever
\* order, two of them hold the lock of one directory only after a lock was
\* removed that was not the stale one its remover had read.
THEOREM InstanceLockSafe == Spec => []OneHolder
<1>1. Sound(Owner) => OneHolder
  <2>1. SUFFICES ASSUME Sound(Owner), ~raced PROVE ~(Cardinality(Holders) > 1)
    BY Zenon DEF OneHolder
  <2>2. \A p, q \in Holders : p = q
    BY SMTT(30), <2>1 DEF Sound, LockInv, Held, Holders, Owns
  <2> QED
    BY Zenon, <2>2, OneOrNone
<1> QED
  BY <1>1, AlwaysSound, PTL

\* init_from_setup: whatever refuses or fails, a setup that nobody works beside
\* and that answers an error leaves a store only that can be unlocked, unless it
\* was there before or one of the four stranding steps failed.
THEOREM SetupStrands == Spec => SetupLeavesUnlockable
<1>1. ProfileInv /\ [Next]_vars =>
        [\A p \in Pids :
           /\ IsSetup(p) /\ proc[p].at \in Operations /\ proc'[p].at = "setup_run"
           /\ ~overlapped' /\ Exists(disk', StoreFile)
           => \/ disk'[StoreFile].secret \in Offered'
              \/ proc[p].at = "init"
              \/ proc[p].at \in Stranding /\ proc'[p].failed]_vars
  <2>1. SUFFICES ASSUME ProfileInv, Next, ~overlapped', NEW p \in Pids, IsSetup(p)
                 PROVE  Unlocks(p)
    BY Zenon DEF Unlocks
  <2>2. ~overlapped
    BY Zenon, <2>1 DEF Next
  <2> QED
    BY Zenon, <2>1, <2>2, SetupStep DEF ProfileInv, Next
<1> QED
  BY <1>1, AlwaysProfileInv, PTL DEF Spec, SetupLeavesUnlockable

\* Where each step of apply_pending_recovery is taken from, for the two results
\* on serve.
LEMMA NextCalm ==
    ASSUME ProfileInv, Next, ~overlapped
    PROVE  Calm
  BY Zenon, ServeStep DEF ProfileInv, Next

\* apply_pending_recovery: in every directory and wherever serve fails or dies, a
\* staged artifact goes only once it is the live profile.
THEOREM RecoveryCompletes == Spec => PendingOutlivesFailure
<1>1. ProfileInv /\ [Next]_vars =>
        [Exists(disk, PendingFile) /\ ~Exists(disk', PendingFile) /\ ~overlapped
         => /\ disk'[StoreFile] = disk[PendingFile].store
            /\ disk'[RevisionFile] = disk[PendingFile].revision]_vars
  BY Zenon, NextCalm DEF Calm
<1> QED
  BY <1>1, AlwaysProfileInv, PTL DEF Spec, PendingOutlivesFailure

\* serve: a profile that could be served is refused only for a failed file
\* operation or for a staged artifact: one that does not apply, or one that
\* applied and holds a record serve does not restore.
THEOREM ServeRefusal == Spec => OnlyStagedBackupRefusesServe
<1>1. ProfileInv /\ [Next]_vars =>
        [\A p \in Pids :
           /\ proc[p].holds /\ ~IsSetup(p) /\ proc'[p].at = "err"
           /\ proc[p].servable /\ ~proc'[p].failed /\ ~overlapped'
           => \/ proc[p].at = "recover" /\ ~Applies(disk[PendingFile], proc[p].secret)
              \/ InstalledUnservable(p)]_vars
  <2>1. SUFFICES ASSUME ProfileInv, Next, ~overlapped' PROVE Calm
    BY Zenon DEF Calm, Pardoned
  <2>2. ~overlapped
    BY Zenon, <2>1 DEF Next
  <2> QED
    BY Zenon, <2>1, <2>2, NextCalm
<1> QED
  BY <1>1, AlwaysProfileInv, PTL DEF Spec, OnlyStagedBackupRefusesServe
=============================================================================
