# Another Dimension: a TLA+ verification project

This directory models the daemon and the relay of Another Dimension Chat in
TLA+. TLC checks the models on small instances and TLAPS proves the central
invariants for every instance. `PROJECT.json` is the index: components, runs,
the source lines each definition stands for, mutants, hazards, findings and
theorems.

    tlc -config outbox.cfg MCOutbox     model-check one run
    tlapm OutboxProofs.tla              check the proofs of one module

## 1. The system

A user runs a *daemon* (`apps/daemon`) on their machine and talks to it with a
browser over a loopback bridge. Daemons never talk to each other; they leave
ciphertext at a *relay* (`apps/relay`), one store-and-forward HTTP server.

| Part | Source | Module |
|---|---|---|
| Delivery ledger: a record per outgoing envelope, retries, cancelling | `delivery.rs` | `DeliveryLedger` |
| Outbox: routes and maintenance tick that move the ledger | `http_server.rs`, `delivery_routes.rs`, `maintenance.rs` | `Outbox` |
| Relay inbox: queue and file | `relay/src/main.rs` | `RelayInbox` |
| Inbox: fetch, decrypt, commit, acknowledge | `maintenance.rs`, `delivery_routes.rs`, `http_server.rs` | `Inbox` |
| Pairing session | `pairing.rs` | `PairingSession` |
| Pairing ceremony and contacts in one daemon | `authority.rs`, `authority_routes.rs`, `contacts.rs` | `Pairing` |
| MLS session | `mls_session.rs` | `MlsSession` |
| Rendezvous: two daemons pair through invite codes, then talk | `http_server.rs`, `mls_routes.rs`, `relay/src/main.rs` | `Rendezvous` |
| Encrypted store: two files, a commit and its undo | `storage.rs` | `Store`, abstractly `DurableRecords` |
| Attachment jobs and packages | `attachment.rs`, `authority.rs` | `AttachmentState` |
| Relay blobs: files written piece by piece | `relay/src/main.rs` | `BlobStore` |
| Attachments from the sender's browser to the receiver's store | `attachment_routes.rs`, `http_server.rs`, `relay_http.rs`, `maintenance.rs` | `Attachments` |
| Profile directory: files, lock file, recovery artifacts | `cli*.rs`, `storage.rs` | `ProfileFiles` |
| Processes that share a profile directory | `cli.rs`, `cli_profile.rs`, `cli_recovery.rs`, `session_routes.rs` | `Profile` |
| Mutexes, blocking slots, websocket upgrade | `http_server.rs` | `Handlers`, `Locks` |

Bridge sessions, the device registry, the MLS storage provider, identity, trust,
release tools and the web client are not modelled (section 7); `PROJECT.json`
lists them with the reason.

### How the parts interact

Every handler takes some of five mutexes (bridge, authority, session catalogue,
store, ledger). Before a relay call it gives them back, with two exceptions
(section 4). A section under the mutexes is therefore one action of a model, a
handler that calls the relay is several, and anything may happen in between.
That is where most hazards are: a result is applied to state that has moved on.

Each module stands on what another one establishes:

- `Locks` justifies that a section under the mutexes is atomic and ends.
- `Store` shows that a commit is all or nothing. Every other module uses a
  commit as one step that succeeds or leaves the stored records as they were.
- `Inbox` EXTENDS `RelayInbox`: the daemon and the relay's queue in one system.
- `Pairing` and `Rendezvous` use the same `PairingSession`, the first with
  every request of one daemon, the second between two daemons.
- `Attachments` EXTENDS `AttachmentState` and `BlobStore`: two daemons and the relay's
  files in one system. The ledger that carries an announcement is the business of
  `Outbox`; here it is a set of envelopes that may be posted again.
- `Profile` uses a commit of `Store` as one step, but a daemon's own commits as two,
  the store file and the marker, because a command may read the files in between.
  What a commit that fails or is cut leaves is shown in `Store`.
- `Outbox` EXTENDS `DeliveryLedger`, with the relay as the answers it may give.

## 2. Conventions

- A Rust type with methods is a module of operators on values, named after the
  methods; `CanX` says when method `X` answers `Ok`. A method that answers `Err`
  leaves its object alone unless the code does not.
- `x` is memory and `storedX`, `disk`, `checkpoint` or a `...File` is what a
  restart reads. The code often changes memory first and does not undo it when
  the commit fails; the models do the same.
- Time is the set of things that have expired or are backing off. The models
  never ask how long something takes.
- Faults and crashes are bounded by constants `Max...`, in `Rendezvous`,
  `Attachments` and `Profile` by the fields of the profile a behaviour takes, and what
  is used of them is in `spent`. They bound the environment and guard
  nothing the daemon does.
- Variables that record history (`confirmed`, `kept`, `unsaved`, `vetted`, `relocked`,
  `unremoved`, `dropped`, `opened`, `sent`, `read`, `misread`, `deleted`, `raced`,
  `halfCancelled`, `promised`, `overlapped`) are read by properties and by no action,
  except to carry the history on (`deleted` also bounds the deletions).
- An operator commented `Slip:` is the operator after it with one plausible
  mistake. No specification uses it. `PROJECT.json` pairs every property of a
  passing run with a slip that breaks it.

## 3. Modules and code

**DeliveryLedger, Outbox.** `ledger` is the map in memory and `disk` its stored
form. A relay call is a record in `call` with the state its caller saw; `tick` is
the maintenance tick with the snapshots it took. The actions are the routes
(post, retry, cancel, attachment send, device-change commit), the steps of the
tick, `CallEnds` with every answer the relay client may report, `Crash` and
`Restart`. Records made by the inbox are in `Inbox`.

**RelayInbox, Inbox.** `items` and `itemsFile` are the relay's queue and file. The
tick and the sync route are two workers with stages: fetched, holding the
mutexes, acknowledging. An item is committed by one batch of ratchet, message
and ledger. A failed batch poisons the session. The MLS ratchet is the set of
envelopes it has consumed. A sender may post an envelope again (`PostDuplicate`), also
one the relay answered 500 for; `unsaved` has the envelopes answered 202 that way while
the file lacks them.

**PairingSession, Pairing.** States and peer of the session, safety confirmation,
contacts with the device they were taken from. Approval is two commits, with a
crash or failure possible between them, as in the code. `StagePeer` has the three ways
a peer is staged; `vetted` has the peers whose confirmation stands and `relocked` those
confirmed by staging alone. `UpdateContact` stands for every request that commits the
directory as it is; after a failed message batch the stored directory replaces it
(`MessageBatchFails`). `unremoved` has the contacts whose removal was not committed.

**MlsSession, Rendezvous.** Two daemons, the invites at the relay, the pending lists
(memory only) and an MLS session per conversation with its checkpoint. Each
handler that calls the relay has a `Begin` and an `End`; its task holds what it
read. OpenMLS is external and modelled by how the daemon uses it: each commit
opens an epoch of its own, a message is bound to group, epoch, sender and
generation, and a key package can be joined with once. `MisreadMessage` is
`decrypt_attachment` of something else: the key is gone, the answer is an error and
nothing is saved. `DeleteContact` is `contacts/delete` with the session it takes along;
any conversation may be the one its contact is bound to.

**DurableRecords, Store.** `Store` has each file operation of `commit`, of its undo,
of initialising and wiping as an action, so that a crash may fall between any
two. `DurableRecords` is the promise to callers: one durable set of records.
`Store` implements it with `durable` read from the store file.

**AttachmentState, BlobStore, Attachments.** A package is the key its bytes were
encrypted under and its size; a blob is the sequence of the keys of its bytes, so
that bytes of another upload can be told apart. `blob_impl` takes no mutex, hence
three actions per request: `BlobRead` compares, `BlobOpen` looks at the length,
`BlobWrite` writes; `BlobWriteFails` and `RelayCrash` may leave some of the bytes. `Begin`, `UploadPiece` and
`UploadCompletedEnd` or `Announce`, `PostEnvelope` and `SendEnd` are the two handlers that upload, each holding the package it copied.
`Receive` is the receiver's part of the tick, with `StageFailed` for a failed batch. `TimePasses` lets
an hour go by, after which the purge at the start of every routed request drops
jobs and packages.

**ProfileFiles, Profile.** A directory is a function from paths to contents, and a
step of a process is one file operation, which may fail; the undo of a failed
operation is in the same step. A process may die before any step and leave its
files and its lock. `serve` and `setup` take the instance lock; `init`, `device
link-complete`, `device revoke`, `keychain enroll`, `recovery export`, `import` and
`rotate`, `wipe` and `stop` do not, as in the code, so any two of them may run side
by side or beside a daemon. `secret` is the passphrase an image opens with, `known`
what the user was told. The pin `serve` may store before it listens is one of the
daemon's commits. Beside identity and registry, `serve` restores sessions, pairing,
contacts, attachments and ledger, and ends when one is refused; an image says so in
one flag (`restorable`), which a commit of the daemon may clear, since findings 1 and 2
are commits that do. `apply_pending_recovery` asks less of an artifact (`Authorizes`)
than `serve` does of what it installs (`Serves`).

**Handlers, Locks.** `Handlers` lists for every handler the order in which it locks,
releases and calls the relay. `Locks` runs those paths in the two blocking slots,
and the websocket upgrade on the runtime thread.

## 4. Runs

| Run | Distinct states | Shows |
|---|---|---|
| `outbox` | 990,085 | An accepted record has the relay's evidence; a confirmed cancel gives up the ciphertext and starts no new post; a stored failure is final; a late result changes only the state its caller saw; the only record restore refuses is an exhausted one |
| `outbox_settles` | 110,796 | Every waiting envelope is accepted, failed or cancelled in the end |
| `pairing` | 3,650,474 | No conversation opens without a comparison but by finding 8, a rejected peer does not come back, a contact keeps its device unless its removal failed |
| `locks` | 579,206 | All handlers but `attachment/send`: no circular wait, a busy daemon becomes free, the runtime thread waits for the relay only behind a device change |
| `store` | 22,382 | A commit with one failing write and crashes is all or nothing; `Store` implements `DurableRecords` |
| `inbox` | 463,902 | Nothing is acknowledged before it is stored, what the relay accepted is held by one side (but for finding 4) and is delivered |
| `rendezvous` | 1,030,630 | A code opens once, a message key leaves once, a message is read once, key packages and welcomes outlive a restart of their owner, a restart takes back only what was answered with an error, a revoked device is out of every conversation |
| `attachments` | 183,722 | What a receiver shows decrypts and outlives a restart, no byte a blob holds is changed, a late upload takes no newer package, abandoned work makes room |
| `profile` | 525,220 | The promised profile outlives every command, failure and crash; a staged recovery is completed or kept, and only a staged artifact keeps a good profile from being served; one process holds the lock; the browser's setup strands a store only at the steps of finding 7 |
| `locks_attachment` | violation | Finding 3 |
| `attachments_resume` | violation | Finding 5 |
| `profile_backup` | violation | Finding 6 |

### Bounds, and why they are enough

- `outbox`: two envelopes, one request and the tick, one retry before the
  limit, a tick that resends one of two. Every race is between two callers on
  one record or between two records for the one place in the tick. One crash and
  one failed commit meet every step. Both records may be held (`MaxRecords = 2`).
- `outbox_settles`: the same without crashes, with one kind of caller, and with
  one of the two envelopes expiring (`Expiring`). The property is about progress,
  and a crash only restarts it. `MaxRecords = 1`, so that a ledger of two records
  cannot be read back.
- `pairing`: an account with two devices and a second account, the smallest set
  in which a binding can change in both ways. Two failed commits (a removal and a batch)
  and one crash.
- `locks`: two slots as in the code (`MAX_BLOCKING_REQUESTS`) and two upgrades.
- `store`: two keys, two values, at most one record, so that the limit and a
  batch refused halfway are reached; three revisions; one failed file operation,
  two crashes (one may fall into the recovery from the first). `FaultModes =
  {"before"}`: a failing write leaves the old file (see the observations below).
- `inbox`: two envelopes of one conversation, one of them expiring, and a
  second session that nothing arrives for, which the tick tries in vain. One
  failed relay write, one crash, one failed batch.
- `rendezvous`: two daemons, two codes, one further device. All bounds at once
  are out of reach, so a behaviour takes one of nine profiles: overlapping requests;
  failing and restarting daemons while messages pass, and while members change; a
  failing and restarting relay; lost relay calls with two codes; invites that expire
  with two codes, and while messages pass; four commits in a row, for removals that are
  merged and not saved; contacts deleted while messages pass and commits fail. TLC does not find an error that needs two kinds of failure from
  different profiles; the proofs of section 5 cover all of them.
- `attachments`: chunks of 3 bytes with a tag of 1, so that an attachment of 4 has
  two chunks whose bounds are not those of its two pieces, and one of 7 is of the
  largest size. Five profiles: two slots that upload two packages of one identifier;
  lost calls and restarts; pieces of the browser between those of a send; packages
  left to their TTL; failing stores with locked sessions. Every race is between two
  requests for one file or between a task and the package it copied.
- `profile`: eleven sequences of two to four commands, in each of which a command may
  start while those before it still run, with one failed file operation and one death
  of a process anywhere (except in the one with a rotation beside a running daemon)
  and with commits of a running daemon; five of them with a keychain that refuses
  once. `MaxRevision = 6` leaves room for every commit of a behaviour. Commands in
  another order, and a second failure, are not reached.

Deadlock is checked in `locks`. The other systems wait for requests and may
stop once the bounds are used up.

### Fairness

- `Outbox`: relay calls end, since the client has a timeout for every read and
  write. The interval timer keeps ticking and the steps of a tick run on. The
  tick waits for its slot in tokio's semaphore, which serves in order, hence
  strong fairness of `TickBegin`. Retry times are reached and a crashed daemon is
  started again. Nothing is assumed of
  the relay's answers, the user or the store.
- `Inbox`: a tick reaches the relay again and again, threads get a mutex that
  is released again and again, and an item that stays reaches its TTL. The run
  says nothing about a relay that is unreachable for ever.
- `Locks`: a thread that is not blocked runs on, and the relay client gives up
  after its timeout. Nothing is assumed of who gets a mutex.

### Findings

1. `schedule_retry` counts before it compares, stores `attempts = 6` with the
   final failure, and `restore` refuses more than 5: the daemon does not start
   from the ledger it wrote.
2. An invite created over an established pairing keeps the peer, and `restore`
   refuses that session.
3. `attachment/send` locks ledger before store, every other handler store
   before ledger. Two slots can block each other for good.
4. The relay answers a retry as an accepted duplicate although the first write
   of the file failed; a restart loses the envelope.
5. The relay answers a range that is already there with the length of the whole
   file, and the client takes an answer only when it names the end of its piece: an
   interrupted upload of several pieces fails at its first piece for ever.
6. `recovery export` reads store and marker one after the other without the
   instance lock. A commit of a running daemon in between gives an artifact that
   imports without an error and never opens.
7. The browser's setup wipes a profile the keychain refused, but not one that `init`
   left behind because a put or `profile.id` failed, and it does not look whether the
   wipe worked; nobody knows the passphrase of what stays.
8. Staging a peer over an established pairing sets `safety_verified`, also when the
   user had locked the pairing again: the conversation opens without a comparison.

`PROJECT.json` quotes the sentences of the repository each of them contradicts.
1, 2, 4, 7 and 8 are behaviours of passing runs: `OnlyExhaustionBreaksRestore`,
`OnlyReplacedInviteBreaksRestore`, `AcceptedIsHeld` (all but `unsaved`),
`SetupLeavesUnlockable` (all but `Stranding`) and `OpenOnlyAfterComparison` (all but
`relocked`) say that they are the only ways in which these things happen, and so do the ordered
paths of `locks` for 3. 3, 5 and 6 have a run of their own that TLC ends with a
counterexample.

### Observations without a run

- `attachment/send` schedules its retry without comparing the state it read
  (`http_server.rs:1529`); `LateResultKeepsState` names the exception.
- `devices/revoke` and `session/remove-device` post to the relay with all five
  mutexes held; a websocket upgrade then stops the runtime thread until the
  relay answers. `OnlyDeviceChangeFreezesLoop` says nothing else does.
- A batch whose later mutation is refused leaves the earlier ones in memory,
  and the next commit stores them (`partial` in `Store`).
- When a marker write fails after its rename (`FaultModes` with `"after"`), `commit`
  writes the store back first; a crash before the marker is undone makes the store
  look rolled back, and `RefusedOnlyAfterWipe` fails.
- The client refuses inbox answers over 128 KiB, while the relay holds up to 256
  envelopes of 96 KiB. With `MaxFetch < MaxItems`, `AcceptedIsDelivered` fails.
- With `LedgerRestores = FALSE` (a ledger as in finding 1), a failed batch
  keeps its unstored ledger entry, and `AckedIsStored` fails.
- Staging a peer over an established session keeps the confirmation of the
  safety number, as its comment says (`pairing.rs:127`); `OpenOnlyAfterComparison`
  counts it as vetted. What is kept when there is none is finding 8.
- A removal of a contact that is answered with an error has happened in memory. The
  account can then be paired from another device, and a failed batch or a restart
  brings the old binding back (`unremoved` in `ContactKeepsDevice`).
- When `contacts/delete` cannot delete the checkpoint, the session is out of memory and
  still stored. A later `devices/revoke` does not reach it, and a restart brings the
  conversation back with the device (`RevokedLeavesEveryConversation` speaks of the
  conversations in the catalogue).
- Approval leaves all welcomes under the last pending code. When an invite is
  created while a sync is under way, that is the code of another rendezvous.
- A rejection keeps the pending key packages, so later syncs answer "already
  staged" until a restart. Approving again after a welcome could not be left
  adds the member again, which MLS refuses.
- `add_member` drops its commit: members that were there before stay in the
  old epoch. A commit merged by `session/receive` is not saved; a restart goes
  back before it (`UnsavedOnlyAfterError` names the exception).
- Because of that, a device can be revoked while a stored session still has it: a
  daemon that merged the device's removal by `session/receive` finds it in no
  conversation, so `devices/revoke` saves the registry and no session, and a restart
  brings the member back (`RevokedLeavesEveryConversation` names the exception).
- A key package that waits for approval is added to whatever conversation is pending
  then. That can be a group its approver prepared and leaves when it joins another: the
  welcome is then to an epoch nobody keeps. Such a welcome names another conversation
  than its key package was made for, so nobody can join with it, and
  `HandedOutOutlivesRestart` speaks of the welcomes that can be joined.
- Two blocking slots (`MAX_BLOCKING_REQUESTS`) are few enough for
  `OnlyExhaustionBreaksRestore`. With three, a record can be cancelled and then proved
  accepted by a retry, both while an `attachment/send` of it is out; that call's failure
  makes it Retryable without a ciphertext, which restore refuses.
- `restore` refuses more than `MAX_RECORDS` (4096) records (`delivery.rs:455`), and no
  registration counts them; a record leaves the ledger only when its first commit fails.
  A daemon that has sent more does not start again. `Restorable` has the limit, and
  `OnlyExhaustionBreaksRestore` is about the records themselves.
- A relay that dies or fails inside the write of a piece leaves part of it. The piece is
  then refused as a conflict for ever, and the upload cannot be completed.
- Two different uploads of one blob that both pass the length check overwrite each
  other (`raced`). The properties of blobs except such a blob.
- The plaintext and the blob have the same limit of 32 MiB, and encryption adds to
  the blob: the largest attachments that may be started cannot be uploaded.
- `cancel_attachment` stops at the job when there is a job and a package of one
  identifier; the package stays without its time, and no purge reaches it
  (`halfCancelled`, the exception of `AbandonedNeverBlocks`).
- A staged artifact of another passphrase, or of a revoked device, stops every
  `serve`, and no command takes it away. `wipe` leaves it there as well. One whose
  ledger or pairing is as in finding 1 or 2 passes the validation, replaces a profile
  that could be served, and `serve` then refuses it. `OnlyStagedBackupRefusesServe`
  names both and says that nothing else refuses.
- A `rotate` that dies between its renames leaves the profile in `.old-PID` files
  that nothing restores; one without `--passphrase-output` has for a moment its only
  copy under a passphrase it has not told; one that fails at its third rename leaves
  the passphrase file (`ProfileOutlivesCommands` names the first two).
- A command beside a running daemon changes files the daemon holds in memory: its
  next commit overwrites a rotated store or a revoked registry. `ProfileOutlivesCommands`
  holds for behaviours in which processes do not overlap (`overlapped`).
- Two starters that meet one stale lock, or `stop`, can remove a lock that was made
  in the meantime (`raced`). A crash between making the lock file and writing the id
  leaves a lock only the user can remove.

## 5. Proofs

A proof module EXTENDS its components. Its theorems hold for any constants that
satisfy the named assumptions of the modules below it, and no assumption is more than
a type, a bound from the code, room for the two revisions of a new profile
(`MaxRevision`), or that a model value is none of the others. A theorem that needs more
says so in its `ASSUME`:

| Module | Theorem | Holds when |
|---|---|---|
| `OutboxProofs` | `Inductive`, `Typing`, `EvidenceHolds`, `CancelHolds`, `FailureHolds`, `NoFreshPost`, `LateResults` | always |
| | `OnlyExhaustion` | at most two slots, as in the code |
| `DaemonProofs` (`Pairing`) | `Inductive`, `OpenNeedsComparison`, `RejectionHolds`, `OnlyReplacedInviteRefused`, `ContactsKeepTheirDevice` | always |
| `DaemonProofs` (`Locks`) | `OwnersHold`, `OrderedHandlersNeverCircle` | paths that release what they lock; in rising order for the second |
| | `NoDeadlock` | the code's paths without `attachment/send` (finding 3) |
| | `LoopFrozenOnlyByDeviceChange` | all of the code's paths |
| `StoreProofs` | `ErrUntraced` | always |
| | `RefusedAfterWipe` | a failing write leaves the old file |
| | `StoreRefines` | and commit's undo of the store file succeeds |
| | `StoreRefinesOneFault` | or at most one file operation fails |
| `InboxProofs` | `InboxTyped`, `StoredMovesTogether`, `AcknowledgedStored`, `AcceptedHeld` | the stored ledger is one restore accepts (finding 1) |
| `RendezvousProofs` | `CodesOpenOnce`, `RatchetsFresh`, `MessagesReadOnce`, `HandedOutStays`, `UnsavedAfterError`, `RevokedLeaves` | always |
| `AttachmentsProofs` | `WritesSafe`, `BlobBytesStay`, `ReceivedStored`, `NewerSurvives`, `ReceivedIsWhole`, `AbandonedPurged`, `ReceivedChunksDecrypt` | always |
| `ProfileRecoveryProofs` | `InstanceLockSafe`, `SetupStrands`, `RecoveryCompletes`, `ServeRefusal` | always |

None of the hypotheses can be dropped: section 4 has the counterexample for each.

**OutboxProofs.** `IInv` is `TypeOK`, `LedgerInv` and `CallInv`. The properties are not
inductive alone: a late acceptance is applied to a record, so one must know that
the call in flight was really accepted and that its record is sound (its counter
passes the limit only when it fails). Lemmas say what each ledger method keeps
(`MethodsKeep`, `MethodsAccept`); each action is then a keeping, accepting or
registering step. From `Inductive` follow `Typing`, `EvidenceHolds`, `CancelHolds` and
`FailureHolds`. `NoFreshPost` follows the work on one envelope: `WorkStep` says that a
worker takes it up only when the record has a wire or is new, and a confirmed
cancellation has taken both away. `LateResults` is one lemma per way a call ends.
`OnlyExhaustion` rests on `ValidInv`: every record, stored or not, is one restore accepts
or an exhausted one, and while an attachment call is out, which alone does not compare
before it writes (`AttachmentAlone`), nobody else works on its envelope once that is
cancelled. Here the number of slots counts.

**DaemonProofs, the pairing authority.** `IInv` says of the session in memory and of the
stored one alike that it is good: its state fits its peer, what is confirmed was compared, and what was
dropped is not held. The two must be treated alike because a failed commit lets
them differ in any way. For
`ContactsKeepTheirDevice` the guard of `register_approved_contact` is not enough, since the
stored directory may replace the one in memory at any time: `DirectoriesAgree` says that
the two name one device for an account, unless its removal was not committed.

**DaemonProofs, the mutexes.** `OwnersHold`: a mutex is owned exactly by the worker whose
executed part of its path has locked and not released it. If paths lock in rising order
(`WellFormed`), the worker of a circle that waits for the highest mutex would wait
for one below another it holds, so there is no circle
(`OrderedHandlersNeverCircle`). `HandlersWellFormed` shows that the paths of the
code are such, which gives `NoDeadlock` for any number of slots. For
`LoopFrozenOnlyByDeviceChange` the paths are gone through once more: at a relay call only
those of a device change hold what the runtime thread waits for.

**StoreProofs.** `MemoryInv` relates the records in memory, those a running commit would
put back and those last answered; it needs nothing of the files, so `ErrUntraced` holds
whatever a failed write leaves. `RevisionInv`: until a wipe the marker is not ahead of
the store file, of memory or of the file an undo puts back. For the refinement,
`DurableInv` says which records the store file has at each stage, and `StepRefines` maps
every action to a step of `DurableRecords` or to none: a commit becomes durable when the
store file is renamed, and an undo takes that back before anyone is answered. If the undo
fails as well, the caller gets Err for records a restart shows, hence the hypothesis.

**InboxProofs.** `Retain` is defined by ranks rather than by recursion; `RetainKeeps` shows
that it filters, keeps the order and repeats nothing. `InboxInv` adds to the properties
that the ratchet in memory is the stored one unless poisoned, that the ledger in memory is
the stored one, and that what a worker means to acknowledge is stored. The relay's part
is that what it answered for is in its memory and its file, but for `unsaved`, or was
acknowledged.

**RendezvousProofs.** Twenty-six actions change the sessions, the invites, the pending
lists and the logs in few ways. The proof says those first: `SessionSteps` (each session
rests, begins, moves ahead, joins another group or is restored, `Evolve`), `RelayMoves`,
`TaskMoves`, `PendingMoves`, `TalkMoves` and `CommitMoves` hold of every step, and every part
of the invariant is then shown from them and from no action. The parts of `IInv`:

- `Typed`; `Numbered`: no epoch is later than the commits made so far; `InSync`: a
  session in memory has a checkpoint (a checkpoint that could not be deleted may have no session); `Aimed`: an approval has a conversation;
- `Records` (what the file says of a code is true of it, and a code in `opened` is consumed
  in memory and in the file), `Creations` (two creations never make one code);
- `Guests`: a code has at most one guest, and its founder is none; `Rooted`: a session is
  under a code that the relay has saved; `Owned`: a key package is of the guest of its
  conversation; `Membership`: a session is of its own group or of the founder's;
- `Led`, `Kept`: the founder has reached the epoch of every welcome that can be joined, and
  the guest still has the key package, or has joined, unless one of them deleted the
  conversation;
- `SentBefore`, `ReadBefore`: what was sent or read lies before the counters of the session,
  in memory and in the store. This makes the next ciphertext a new one, and it survives a
  restart because a ciphertext leaves after its session was saved. A group that was left is
  never entered again (`Guests`, `Membership`), and this is why half of the invariant exists;
- `Settled` (`UnsavedOnlyAfterError` for every daemon, up or not) and `Registered`.

**AttachmentsProofs.** That written bytes stay is not inductive: a request writes at an
offset it compared two steps earlier. `Shape`
gives the types and the bounds of every task; `OpenFits` says that a request past the
length check starts within its file or at its end; `WritesAgree` that, unless `raced`
has the blob, it writes what is there already or beyond the end, and that two such
requests have the same bytes. Lemmas say what `Written` is byte by byte, and the three
are inductive together (`WritesSafe`), which gives `BlobBytesStay`; `ReceivedStored` and
`NewerSurvives` follow from `Shape` and the steps of the receiver and of
`TakeCompletedIfEqual`. The last part follows a package: `UploadsArrive` says that the
pieces before a task's offset are in the file with the package's key, so what is
announced, stored in the outbox and received is whole (`ReceivedIsWhole`).

`Timed` says that a job has its time, and so has a package unless its identifier is in
`halfCancelled`. When all of them are past it, a purge therefore leaves neither, and a
start within the limits is accepted (`AbandonedPurged`; the budget of completed
attachments must hold one of the largest size, as in the code). For
`ReceivedChunksDecrypt` the offset of a chunk is the sum of the sizes before it, which
is a fold. `EqualSizes` shows that a sum of equal sizes is their product. It needs no
induction theorem: if it failed for some number of chunks, there would be a least one
(`LeastElement`). `ChunkSizes` then puts every chunk inside the blob, for any chunk size,
tag and attachment size.

**ProfileProofs, ProfileRecoveryProofs.** Commands run side by side on one directory, and
most of the argument is about who may touch what. `Sound` is what holds in every state:

- `LockInv`: unless `raced`, a process that holds the lock or has made it owns the file
  (`Held`), one about to break a lock has read a process that ran and is gone (`Finds`),
  the file is of a process that has started (`Named`), and a process holds the lock only
  at steps after it got it (`Stands`). Nearly every action is a step of one process on
  other files, which `HarmlessStep` treats once; the lock's own actions have a lemma each.
- `TypeInv(F, A)`: the files in `F`, the artifacts and the memory of the processes hold
  stores of the accounts in `A` and nothing else. The sets are parameters because
  the argument about setup uses the same lemmas with the account of one process taken out.

Two owners of one file are one process, which gives `InstanceLockSafe` for any number of
processes. The other three theorems are about behaviours in which no two processes
overlapped, and this is itself to be kept (`Alone`: one process at most is at work).
`ServeInv` says what a serve has done at each step of `apply_pending_recovery`: the
artifact it validated is still staged, the files written so far are the artifact's, and
before and after the replacement the store can be served if it could when serve began,
unless it is now the artifact's and cannot be restored.
From this and one lemma per step follow `RecoveryCompletes` and `ServeRefusal`: a failed
installation puts the files back, and the artifact goes last. `SetupInv`
says what `init` has made at each of its steps for a setup (`Made`): no store before it
creates one, afterwards its own, the profile id once that is written, and the keychain
entry before the mark. So an error after the keychain leaves a store the keychain
unlocks, a refused keychain one that the undo takes away, and `SetupStrands` is left with
the four steps that fail in between.

Only model-checked:

- Liveness (`Settles`, `AcceptedIsDelivered`, `BusyEnds`), which is out of the prover's reach.
- `ProfileOutlivesCommands`, which is not a theorem of `Profile` for arbitrary sequences of
  commands. Beyond the sequences of the run there are ones in which the user loses the
  profile without an overlap and without one of the exceptions the property names. For
  example, a `setup` whose passphrase only the keychain has, then `recovery export`,
  `wipe` and `recovery import`: the artifact is intact and its passphrase went with the
  keychain entry. Or such a `setup`, a `rotate` that dies between its renames, and an
  `init`: it finds no store, and its `profile.id` hides the keychain entry that opens the
  copy set aside. TLC finds both when they are added to `MCProfile`; the run shows the
  property for the sequences listed there.

## 6. What the models leave out

- Cryptography: signatures, safety numbers, AEAD and MLS secrets are identities
  of values. A signed invite is what it says.
- Sizes: payload, record and response limits are counts (`MaxItems`, `MaxFetch`,
  `MaxRecords`, `MaxResponses`) or absent. The growth of the ledger towards the
  4 MiB of a record is not modelled, nor are the lengths `valid_persisted_record`
  compares (`delivery.rs:467-482`): what a record is made of is taken to be within them.
- What a failed batch does to the memory of the store: `Attachments` leaves it as it was
  (`ReceivedOutlivesRestart` rests on that), `Store` has the batch that is refused halfway.
- Who wins a race that an exception names: once a lock other than the one
  found stale was removed (`raced` in `Profile`), `OneHolder` says nothing, and once two different uploads have
  overwritten each other (`raced` in `Attachments`), neither `WrittenBytesStay` nor
  `ReceivedDecrypts` speaks of that blob.
- Authorisation of a request: an unauthorised one changes nothing.
- Texts, previews, unread counts, aliases, blocking.
- Process ids are not used again, and a file operation is atomic: `Profile` has no
  half-written file.
- DELETE of a blob, which no client sends, and the expiry of blobs, which the relay
  announces and does not carry out.
- The routes `session/create`, `session/prepare` and `session/join` with a
  conversation identifier the browser makes up.
- `session/lock` in `Rendezvous`: it clears the catalogue and ends the store until a
  restart, and what is left of the daemon does less than after a crash.

## 7. Not modelled

- **Bridge session** (`bridge.rs`, `session_routes.rs`): bootstrap token, cookie and
  CSRF token. Their checks decide whether a request is one at all, and an
  unauthorised request changes nothing the models keep. `session/lock` and
  `session/wipe` are modelled for what they do to attachments and to the profile.
- **Device registry and link ceremony** (`device.rs`, `device_link.rs`): signed values
  that are checked and stored whole. Their durable effects, a revocation and the
  profile of a linked device, are in `Rendezvous` and `Profile`.
- **MLS storage provider**, **identity**, **attestation**, **trust**, **protocol gate**:
  encodings and signatures without state of their own, or the state of a library.
- **`model.rs`**: transition tables only their own tests call.
- **Web client, release tools, scripts**: views, and sequential file work.
