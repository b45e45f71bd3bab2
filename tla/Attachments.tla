---------------------------- MODULE Attachments ----------------------------
(***************************************************************************)
(* An attachment on its way: the daemon that encrypts and sends it         *)
(* (attachment_routes.rs and the staged attachment handlers of             *)
(* http_server.rs), the blobs of the relay, and the daemon that receives   *)
(* and downloads it (maintenance.rs, authority.rs).                        *)
(*                                                                         *)
(* The routes start, append, finish and cancel hold the mutexes: one       *)
(* action each.  upload-completed and send hold none while they talk to    *)
(* the relay: they are a task of one of the sender's blocking slots, which *)
(* uploads its copy of a package piece by piece.  A piece is a request the *)
(* relay works through in steps; the task may give up on it while the      *)
(* relay still works.  A package that is uploaded is announced: encrypted  *)
(* for the conversation and stored in the outbox, then posted.  What the   *)
(* outbox does afterwards is module Outbox; here the tick posts what is    *)
(* not posted yet.                                                         *)
(*                                                                         *)
(* Requests of the browser that are refused change nothing but for the     *)
(* purge of old attachments, which is part of every action of a routed     *)
(* request.                                                                *)
(***************************************************************************)
EXTENDS AttachmentState, BlobStore

CONSTANTS
    Slots,          \* blocking slots of the sender
    BrowserKey,     \* bytes the browser uploads itself
    Idle,           \* no task, no request
    Profiles        \* the bounds of a behaviour, of which it takes one:
                    \*   slots    the slots in use
                    \*   blobs    the identifiers in use
                    \*   sizes    sizes of the files the user sends
                    \*   starts   jobs that are started
                    \*   sends    announcements
                    \*   pieces   pieces the browser uploads itself
                    \*   waits    times the TTL passes
                    \*   locks    sessions that are locked
                    \*   crashes  restarts of the daemons and of the relay
                    \*   faults   failed commits and writes of the relay
                    \*   lost     relay calls the sender gives up on

ASSUME AttachmentsAssumption ==
    /\ BrowserKey \notin Keys /\ NoFile \notin Seq(Keys \cup {BrowserKey})
    /\ \A l \in Profiles : l.slots \subseteq Slots /\ l.blobs \subseteq Blobs /\ l.sizes \subseteq Nat

VARIABLES
    att,            \* sender: jobs and completed packages
    locked,         \* the daemons whose session is locked
    poisoned,       \* the daemons whose conversation is poisoned
    tasks,          \* sender, per slot: the upload or send it works on
    posts,          \* relay, per slot: the request it works on
    file,           \* relay: the blobs
    outbox,         \* sender: stored announcements
    inbox,          \* relay: announcements it accepted
    received,       \* receiver: received_attachments,
    stored,         \*   and their records in its store
    seen,           \* receiver: announcements it has committed
    used,           \* keys that were generated
    raced,          \* blobs with two different requests past the length check
    halfCancelled,  \* packages whose job was cancelled over them
    limits,         \* the profile of the behaviour
    spent           \* how much of its bounds is used

senderVars == <<att, tasks, outbox, used, halfCancelled>>
relayVars == <<posts, file, inbox, raced>>
receiverVars == <<received, stored, seen>>
budget == <<limits, spent>>
vars == <<senderVars, relayVars, receiverVars, locked, poisoned, budget>>

Daemons == {"sender", "receiver"}

Bounded == {"starts", "sends", "pieces", "waits", "locks", "crashes", "faults", "lost"}

Spend(what) ==
    /\ spent[what] < limits[what] /\ spent' = [spent EXCEPT ![what] = @ + 1]
    /\ UNCHANGED limits

Envelope == [number : Nat, package : Package]

Task == [op : {"send", "upload", "chunk"}, package : Package \cup [blob : Blobs, key : {BrowserKey}],
         offset : Nat, stage : {"upload", "posted", "announce", "post", "accepted"},
         envelope : Envelope \cup {Idle}]

Post == [request : [blob : Blobs, offset : Nat, length : Nat, total : Nat,
                    key : Keys \cup {BrowserKey}],
         step : {"read", "open", "write"}]

ASSUME IdleAssumption == Idle \notin Post

\* Jobs, packages, tasks, requests and announcements have the types of their
\* fields in the code, and at most one job runs.
TypeOK ==
    /\ att \in State /\ Cardinality(att.jobs) <= 1
    /\ Cardinality(att.completed) <= MaxCompleted
    /\ locked \subseteq Daemons /\ poisoned \subseteq Daemons
    /\ tasks \in [Slots -> Task \cup {Idle}] /\ posts \in [Slots -> Post \cup {Idle}]
    /\ file \in [Blobs -> Seq(Keys \cup {BrowserKey}) \cup {NoFile}]
    /\ outbox \subseteq Envelope /\ inbox \subseteq outbox
    /\ received \subseteq outbox /\ stored \subseteq outbox /\ seen \subseteq inbox
    /\ used \subseteq Keys /\ raced \subseteq Blobs /\ halfCancelled \subseteq Blobs
    /\ limits \in Profiles /\ \A x \in Bounded : spent[x] \in 0..limits[x]

Init ==
    /\ att = NoAttachments /\ locked = {} /\ poisoned = {}
    /\ tasks = [s \in Slots |-> Idle] /\ posts = [s \in Slots |-> Idle]
    /\ file = [b \in Blobs |-> NoFile]
    /\ outbox = {} /\ inbox = {} /\ received = {} /\ stored = {} /\ seen = {}
    /\ used = {} /\ raced = {} /\ halfCancelled = {}
    /\ limits \in Profiles /\ spent = [x \in Bounded |-> 0]

-----------------------------------------------------------------------------
\* The routes that hold the mutexes.  Each purges first.

Purged == PurgeAttachmentState(att)

Routed == "sender" \notin locked
          /\ UNCHANGED <<tasks, outbox, relayVars, receiverVars, locked, poisoned>>

AttachmentStart(b, total, k) ==
    /\ Routed /\ CanStart(Purged, b, total) /\ k \notin used
    /\ att' = Start(Purged, b, total, k) /\ used' = used \cup {k}
    /\ Spend("starts") /\ UNCHANGED halfCancelled

AttachmentAppend(b) ==
    /\ Routed /\ CanAppend(Purged, b)
    /\ att' = AppendChunk(Purged, b)
    /\ UNCHANGED <<used, halfCancelled, budget>>

AttachmentFinish(b) ==
    /\ Routed /\ CanFinish(Purged, b)
    /\ att' = Finish(Purged, b)
    /\ UNCHANGED <<used, halfCancelled, budget>>

AttachmentCancel(b) ==
    /\ Routed /\ \E x \in Purged.jobs \cup Purged.completed : x.blob = b
    /\ att' = CancelAttachment(Purged, b)
    /\ halfCancelled' = IF \E p \in att'.completed : p.blob = b
                        THEN halfCancelled \cup {b} ELSE halfCancelled
    /\ UNCHANGED <<used, budget>>

\* Any other routed request.
OtherRequest ==
    /\ Routed /\ att' = Purged
    /\ UNCHANGED <<used, halfCancelled, budget>>

\* COMPLETED_ATTACHMENT_TTL_SECONDS pass.
Aged(ages) == [b \in Blobs |-> IF ages[b] = "none" THEN "none" ELSE "old"]

TimePasses ==
    /\ att' = [att EXCEPT !.started = Aged(@), !.created = Aged(@)]
    /\ att' # att /\ Spend("waits")
    /\ UNCHANGED <<tasks, outbox, used, halfCancelled, relayVars, receiverVars,
                   locked, poisoned>>

-----------------------------------------------------------------------------
\* upload-completed, send and upload-chunk

Become(s, t) == tasks' = [tasks EXCEPT ![s] = t]

\* The handler copies the package under the mutex and gives it back.
Begin(s, op, p) ==
    /\ "sender" \notin locked /\ tasks[s] = Idle /\ posts[s] = Idle
    /\ p \in att.completed
    /\ Become(s, [op |-> op, package |-> p, offset |-> 0, stage |-> "upload",
                  envelope |-> Idle])
    /\ UNCHANGED <<att, outbox, used, halfCancelled, relayVars, receiverVars,
                   locked, poisoned, budget>>

\* upload-chunk passes one piece of the browser's on.
UploadChunk(s, b, offset) ==
    /\ "sender" \notin locked /\ tasks[s] = Idle /\ posts[s] = Idle
    /\ Spend("pieces")
    /\ Become(s, [op |-> "chunk", package |-> [blob |-> b, key |-> BrowserKey],
                  offset |-> offset, stage |-> "upload", envelope |-> Idle])
    /\ UNCHANGED <<att, outbox, used, halfCancelled, relayVars, receiverVars,
                   locked, poisoned>>

\* The piece at the task's offset: the blob in steps of CHUNK_SIZE.
Piece(t) ==
    IF t.op = "chunk"
    THEN Request(t.package.blob, t.offset, 1, MaxBlob, BrowserKey)
    ELSE LET size == BlobSize(t.package.total) IN
         Request(t.package.blob, t.offset, Least(Chunk, size - t.offset), size, t.package.key)

\* upload_blob_chunk_blocking refuses what is too large before it asks.
UploadPiece(s) ==
    /\ tasks[s] # Idle /\ tasks[s].stage = "upload" /\ posts[s] = Idle
    /\ IF InBounds(Piece(tasks[s]))
       THEN /\ posts' = [posts EXCEPT ![s] = [request |-> Piece(tasks[s]), step |-> "read"]]
            /\ Become(s, [tasks[s] EXCEPT !.stage = "posted"])
       ELSE Become(s, Idle) /\ UNCHANGED posts
    /\ UNCHANGED <<att, outbox, used, halfCancelled, file, inbox, raced, receiverVars,
                   locked, poisoned, budget>>

\* After a piece: the next one, or what follows the upload.
Advanced(t) ==
    IF t.op = "chunk" THEN Idle
    ELSE LET next == t.offset + Piece(t).length IN
         IF next < BlobSize(t.package.total)
         THEN [t EXCEPT !.offset = next, !.stage = "upload"]
         ELSE [t EXCEPT !.stage = "announce"]

\* The client takes an accepted answer only if the relay holds exactly the
\* bytes up to the end of this piece.
TakesReceived(t, n) == n = End(Piece(t))

\* The relay answers the request of a slot: accepted with the bytes it holds,
\* or refused.  A task that gave up does not hear it.
Answer(s, accepted, n) ==
    /\ posts' = [posts EXCEPT ![s] = Idle]
    /\ LET heard == tasks[s] # Idle /\ tasks[s].stage = "posted"
           taken == accepted /\ TakesReceived(tasks[s], n) IN
       tasks' = IF heard THEN [tasks EXCEPT ![s] = IF taken THEN Advanced(@) ELSE Idle]
                ELSE tasks

\* The client's timeout: the task ends, the relay goes on.
GiveUp(s) ==
    /\ tasks[s] # Idle /\ tasks[s].stage = "posted" /\ Spend("lost")
    /\ Become(s, Idle)
    /\ UNCHANGED <<att, outbox, used, halfCancelled, relayVars, receiverVars,
                   locked, poisoned>>

-----------------------------------------------------------------------------
\* The relay works on a request

Working(s, step) == posts[s] # Idle /\ posts[s].step = step

BlobRead(s) ==
    /\ Working(s, "read")
    /\ LET r == posts[s].request
           v == Verdict(file[r.blob], r) IN
       \/ /\ v = "append" /\ posts' = [posts EXCEPT ![s].step = "open"]
          /\ UNCHANGED tasks
       \/ v # "append" /\ Answer(s, v = "duplicate", Length(file[r.blob]))
    /\ UNCHANGED <<att, outbox, used, halfCancelled, file, inbox, raced, receiverVars,
                   locked, poisoned, budget>>

\* Others past their length check with different bytes for the same place.
Rivals(s, r) ==
    {x \in Slots \ {s} : /\ Working(x, "write")
                         /\ posts[x].request.blob = r.blob /\ posts[x].request.key # r.key}

\* Slip: a file that is longer than the offset passes.
BlobOpenPastLength(s) ==
    /\ Working(s, "open")
    /\ LET r == posts[s].request
           f == Opened(file[r.blob]) IN
       /\ file' = [file EXCEPT ![r.blob] = f]
       /\ IF Len(f) >= r.offset
          THEN /\ posts' = [posts EXCEPT ![s].step = "write"]
               /\ raced' = IF Rivals(s, r) = {} THEN raced ELSE raced \cup {r.blob}
               /\ UNCHANGED tasks
          ELSE Answer(s, FALSE, 0) /\ UNCHANGED raced
    /\ UNCHANGED <<att, outbox, used, halfCancelled, inbox, receiverVars,
                   locked, poisoned, budget>>

BlobOpen(s) ==
    /\ Working(s, "open")
    /\ LET r == posts[s].request
           f == Opened(file[r.blob]) IN
       /\ file' = [file EXCEPT ![r.blob] = f]
       /\ IF Len(f) = r.offset
          THEN /\ posts' = [posts EXCEPT ![s].step = "write"]
               /\ raced' = IF Rivals(s, r) = {} THEN raced ELSE raced \cup {r.blob}
               /\ UNCHANGED tasks
          ELSE Answer(s, FALSE, 0) /\ UNCHANGED raced
    /\ UNCHANGED <<att, outbox, used, halfCancelled, inbox, receiverVars,
                   locked, poisoned, budget>>

\* seek or write_all fails, perhaps after some of the bytes: answered 500.
BlobWriteFails(s) ==
    /\ Working(s, "write") /\ Spend("faults")
    /\ LET r == posts[s].request IN
       \E n \in 0..r.length - 1 : file' = [file EXCEPT ![r.blob] = Written(@, r, n)]
    /\ Answer(s, FALSE, 0)
    /\ UNCHANGED <<att, outbox, used, halfCancelled, inbox, raced, receiverVars,
                   locked, poisoned>>

\* The bytes, then the metadata, whose failure is answered 500.
BlobWrite(s) ==
    /\ Working(s, "write")
    /\ LET r == posts[s].request IN
       /\ file' = [file EXCEPT ![r.blob] = Written(@, r, r.length)]
       /\ \/ Answer(s, TRUE, End(r)) /\ UNCHANGED budget
          \/ Answer(s, FALSE, 0) /\ Spend("faults")
    /\ UNCHANGED <<att, outbox, used, halfCancelled, inbox, raced, receiverVars,
                   locked, poisoned>>

\* A crash of the relay drops every request; a write may be cut short.
RelayCrash ==
    /\ Spend("crashes")
    /\ \/ UNCHANGED file
       \/ \E s \in Slots : /\ Working(s, "write")
                           /\ LET r == posts[s].request IN
                              \E n \in 1..r.length - 1 :
                                file' = [file EXCEPT ![r.blob] = Written(@, r, n)]
    /\ posts' = [s \in Slots |-> Idle]
    /\ tasks' = [s \in Slots |-> IF tasks[s] # Idle /\ tasks[s].stage = "posted"
                                 THEN Idle ELSE tasks[s]]
    /\ UNCHANGED <<att, outbox, used, halfCancelled, inbox, raced, receiverVars,
                   locked, poisoned>>

-----------------------------------------------------------------------------
\* After the upload

AtStage(s, stage) == tasks[s] # Idle /\ tasks[s].stage = stage

UploadCompletedEnd(s) ==
    /\ AtStage(s, "announce") /\ tasks[s].op = "upload"
    /\ att' = TakeCompletedIfEqual(att, tasks[s].package)
    /\ Become(s, Idle)
    /\ UNCHANGED <<outbox, used, halfCancelled, relayVars, receiverVars, locked,
                   poisoned, budget>>

\* Under the mutexes: encrypt the descriptor and store the session and the
\* queued envelope in one batch.  A failed batch poisons the conversation; a
\* locked or poisoned one answers at once.  No two envelopes are the same: they
\* are numbered.
Announce(s) ==
    /\ AtStage(s, "announce") /\ tasks[s].op = "send"
    /\ LET e == [number |-> spent["sends"] + 1, package |-> tasks[s].package] IN
       \/ /\ "sender" \notin locked \cup poisoned /\ Spend("sends")
          /\ outbox' = outbox \cup {e}
          /\ Become(s, [tasks[s] EXCEPT !.stage = "post", !.envelope = e])
          /\ UNCHANGED poisoned
       \/ /\ "sender" \notin locked \cup poisoned /\ Spend("faults")
          /\ poisoned' = poisoned \cup {"sender"}
          /\ Become(s, Idle) /\ UNCHANGED outbox
       \/ /\ "sender" \in locked \cup poisoned
          /\ Become(s, Idle) /\ UNCHANGED <<outbox, poisoned, budget>>
    /\ UNCHANGED <<att, used, halfCancelled, relayVars, receiverVars, locked>>

\* The relay accepts the envelope; or the call fails, before or after the
\* relay has it, and the envelope is left to the tick.
PostEnvelope(s) ==
    /\ AtStage(s, "post")
    /\ \/ /\ inbox' = inbox \cup {tasks[s].envelope}
          /\ Become(s, [tasks[s] EXCEPT !.stage = "accepted"]) /\ UNCHANGED budget
       \/ /\ Spend("lost")
          /\ inbox' \in {inbox, inbox \cup {tasks[s].envelope}}
          /\ Become(s, Idle)
    /\ UNCHANGED <<att, outbox, used, halfCancelled, posts, file, raced, receiverVars,
                   locked, poisoned>>

\* The ledger is stored, then the package is given up; when the ledger is
\* not stored (a fault, or a locked store) the package stays.
SendEnd(s) ==
    /\ AtStage(s, "accepted") /\ Become(s, Idle)
    /\ \/ /\ "sender" \notin locked
          /\ att' = TakeCompletedIfEqual(att, tasks[s].package) /\ UNCHANGED budget
       \/ "sender" \in locked /\ UNCHANGED <<att, budget>>
       \/ "sender" \notin locked /\ Spend("faults") /\ UNCHANGED att
    /\ UNCHANGED <<outbox, used, halfCancelled, relayVars, receiverVars, locked,
                   poisoned>>

\* The maintenance tick posts a queued envelope.
TickPosts(e) ==
    /\ e \in outbox \ inbox /\ "sender" \notin locked
    /\ inbox' = inbox \cup {e}
    /\ UNCHANGED <<senderVars, posts, file, raced, receiverVars, locked, poisoned, budget>>

-----------------------------------------------------------------------------
\* The receiver

\* Slip: a failed batch leaves the staged descriptor in memory.
StageFailedKept(e) == received' = received \cup {e}

\* restore_received_attachments after a failed batch.
StageFailed(e) == received' = stored

\* The descriptor is staged in memory and stored with the session.
Receive(e) ==
    /\ e \in inbox \ seen /\ "receiver" \notin locked \cup poisoned
    /\ \/ /\ received' = received \cup {e} /\ stored' = stored \cup {e}
          /\ seen' = seen \cup {e} /\ UNCHANGED <<poisoned, budget>>
       \/ /\ Spend("faults") /\ StageFailed(e)
          /\ poisoned' = poisoned \cup {"receiver"}
          /\ UNCHANGED <<stored, seen>>
    /\ UNCHANGED <<senderVars, relayVars, locked>>

\* Cancelling deletes the record, if the store can.
CancelReceived(e) ==
    /\ e \in received /\ "receiver" \notin locked
    /\ received' = received \ {e}
    /\ \/ stored' = stored \ {e} /\ UNCHANGED budget
       \/ UNCHANGED stored /\ Spend("faults")
    /\ UNCHANGED <<senderVars, relayVars, seen, locked, poisoned>>

\* session/exchange reads the records again before it looks at the token.
Exchange ==
    /\ received' = IF "receiver" \in locked THEN {} ELSE stored
    /\ UNCHANGED <<senderVars, relayVars, stored, seen, locked, poisoned, budget>>

-----------------------------------------------------------------------------
\* Locks and restarts

SessionLock(d) ==
    /\ d \notin locked /\ locked' = locked \cup {d} /\ Spend("locks")
    /\ att' = IF d = "sender" THEN NoAttachments ELSE att
    /\ received' = IF d = "receiver" THEN {} ELSE received
    /\ UNCHANGED <<tasks, outbox, used, halfCancelled, relayVars, stored, seen,
                   poisoned>>

Restart(d) ==
    /\ Spend("crashes")
    /\ locked' = locked \ {d} /\ poisoned' = poisoned \ {d}
    /\ IF d = "sender"
       THEN /\ att' = NoAttachments /\ tasks' = [s \in Slots |-> Idle]
            /\ UNCHANGED received
       ELSE received' = stored /\ UNCHANGED <<att, tasks>>
    /\ UNCHANGED <<outbox, used, halfCancelled, relayVars, stored, seen>>

Next ==
    \/ \E b \in limits.blobs :
         \/ \E total \in limits.sizes, k \in Keys : AttachmentStart(b, total, k)
         \/ AttachmentAppend(b) \/ AttachmentFinish(b) \/ AttachmentCancel(b)
         \/ \E s \in limits.slots, offset \in 0..MaxBlob - 1 : UploadChunk(s, b, offset)
    \/ OtherRequest \/ TimePasses \/ Exchange
    \/ \E s \in limits.slots :
         \/ \E op \in {"send", "upload"}, p \in att.completed : Begin(s, op, p)
         \/ UploadPiece(s) \/ GiveUp(s)
         \/ BlobRead(s) \/ BlobOpen(s) \/ BlobWrite(s) \/ BlobWriteFails(s)
         \/ UploadCompletedEnd(s) \/ Announce(s) \/ PostEnvelope(s) \/ SendEnd(s)
    \/ \E e \in outbox : TickPosts(e) \/ Receive(e) \/ CancelReceived(e)
    \/ RelayCrash
    \/ \E d \in Daemons : SessionLock(d) \/ Restart(d)

Spec == Init /\ [][Next]_vars

-----------------------------------------------------------------------------
\* What the receiver downloads of chunk i of an announcement: the range of the
\* descriptor's sizes, decrypted under its key.
DownloadChunk(p, i) ==
    LET offset == MapThenSumSet(LAMBDA j : CiphertextSize(p.total, j), 0..i - 1)
        size == CiphertextSize(p.total, i)
        bytes == GetBlob(file[p.blob], offset, size) IN
    bytes # NoFile /\ bytes = [n \in 1..size |-> p.key]

\* Every chunk of an attachment a receiver holds can be downloaded and decrypts:
\* send announces a blob only after the relay has all of it, whatever other
\* uploads, retries and crashes meet under the same identifier.  The one
\* exception is a race of two different requests inside blob_impl.
ReceivedDecrypts ==
    \A e \in received : e.package.blob \notin raced =>
        \A i \in 0..ChunkCount(e.package.total) - 1 : DownloadChunk(e.package, i)

\* "conflicting bytes are rejected and never overwritten" (apps/relay/src/main.rs,
\* blob_impl): a byte of a blob never changes, unless two requests with
\* different bytes both passed the length check before one of them wrote.
WrittenBytesStay ==
    [][\A b \in Blobs : b \notin raced /\ file[b] # NoFile =>
         \A i \in 1..Len(file[b]) : i <= Len(file'[b]) /\ file'[b][i] = file[b][i]]_vars

\* A send or upload that ends late takes only the package it uploaded: a package
\* that was encrypted anew under the same identifier in the meantime stays.
NewerPackageSurvivesOldTask ==
    [][\A s \in Slots : \A p \in att.completed :
         (SendEnd(s) \/ UploadCompletedEnd(s)) /\ p \notin att'.completed
            => p = tasks[s].package]_vars

\* What the receiver shows survives its restart: memory never holds a received
\* attachment the store does not, also after a failed batch.
ReceivedOutlivesRestart == received \subseteq stored

\* Jobs and packages that are past their time never keep the user from starting
\* another attachment: the purge of the next request reaches all of them.  The
\* one exception is a package whose identifier was started again and cancelled.
AbandonedNeverBlocks ==
    (/\ halfCancelled = {}
     /\ \A j \in att.jobs : att.started[j.blob] # "young"
     /\ \A p \in att.completed : att.created[p.blob] # "young")
       => \A b \in Blobs : \A total \in limits.sizes \cap 1..MaxAttachment : CanStart(Purged, b, total)

\* "Accept an identical already-written range instead of turning a successful
\* upload into an offset error" (apps/relay/src/main.rs, blob_impl): a retried
\* piece the relay accepts again moves the upload on.
AcceptedPieceCounts ==
    [][\A s \in Slots :
         (/\ BlobRead(s) /\ AtStage(s, "posted") /\ tasks[s].op # "chunk"
          /\ Verdict(file[posts[s].request.blob], posts[s].request) = "duplicate")
         => tasks'[s] # Idle]_vars
=============================================================================
