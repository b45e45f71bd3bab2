-------------------------- MODULE AttachmentState --------------------------
(***************************************************************************)
(* What a daemon holds of the attachments it is about to send: the jobs    *)
(* that encrypt what the browser streams in, and the completed packages    *)
(* (apps/daemon/src/attachment.rs and the attachment methods of            *)
(* authority.rs).                                                          *)
(*                                                                         *)
(* Sizes are bytes.  A package is its identifier, its random file key and  *)
(* the size of its plaintext: the bytes of its blob follow from them, and  *)
(* a byte of a blob is known by the key it was encrypted under.  An age is *)
(* "old" once it is past COMPLETED_ATTACHMENT_TTL_SECONDS.                 *)
(***************************************************************************)
EXTENDS Integers, Sequences, FiniteSets, FiniteSetsExt

CONSTANTS
    Blobs,              \* blob identifiers the browser chooses
    Keys,               \* file keys
    Chunk, Tag,         \* CHUNK_SIZE, and what encryption adds to a chunk (16)
    MaxAttachment,      \* MAX_ATTACHMENT_BYTES
    MaxCompleted,       \* MAX_COMPLETED_ATTACHMENT_COUNT
    MaxCompletedBytes   \* MAX_COMPLETED_ATTACHMENT_BYTES

ASSUME AttachmentAssumption ==
    /\ Chunk \in Nat \ {0} /\ Tag \in Nat
    /\ MaxAttachment \in Nat \ {0}
    /\ MaxCompleted \in Nat \ {0}
    /\ MaxCompletedBytes \in Nat /\ MaxAttachment <= MaxCompletedBytes

Package == [blob : Blobs, key : Keys, total : 1..MaxAttachment]

Job == [blob : Blobs, key : Keys, total : 1..MaxAttachment, received : 0..MaxAttachment]

Ages == {"none", "young", "old"}

State == [jobs : SUBSET Job, started : [Blobs -> Ages],
          completed : SUBSET Package, created : [Blobs -> Ages]]

NoAttachments == [jobs |-> {}, started |-> [b \in Blobs |-> "none"],
                  completed |-> {}, created |-> [b \in Blobs |-> "none"]]

Least(a, b) == IF a < b THEN a ELSE b

-----------------------------------------------------------------------------
\* The blob of a package

\* The plaintext is cut into chunks, all full but the last.
ChunkCount(total) == (total + Chunk - 1) \div Chunk

CiphertextSize(total, i) == Least(Chunk, total - i * Chunk) + Tag

BlobSize(total) == total + Tag * ChunkCount(total)

-----------------------------------------------------------------------------
\* Operations on the state

Without(s, b) == {x \in s : x.blob # b}

HeldBytes(a) == MapThenSumSet(LAMBDA p : BlobSize(p.total), a.completed)

CanStart(a, b, total) ==
    /\ total \in 1..MaxAttachment
    /\ a.jobs = {}
    /\ Cardinality(a.completed) < MaxCompleted
    /\ HeldBytes(a) + total <= MaxCompletedBytes

Start(a, b, total, k) ==
    [a EXCEPT !.jobs = {[blob |-> b, key |-> k, total |-> total, received |-> 0]},
              !.started[b] = "young"]

\* The next chunk, full unless it is the last one.
CanAppend(a, b) == \E j \in a.jobs : j.blob = b /\ j.received < j.total

Append1(j) == [j EXCEPT !.received = Least(@ + Chunk, j.total)]

AppendChunk(a, b) ==
    [a EXCEPT !.jobs = {IF j.blob = b THEN Append1(j) ELSE j : j \in @}]

\* The job is gone whether or not it was complete; one that was not keeps
\* its start time.
CanFinish(a, b) == \E j \in a.jobs : j.blob = b

\* Slip: the package is kept without its time.
FinishUntimed(a, b) ==
    LET j == CHOOSE x \in a.jobs : x.blob = b IN
    IF j.received = j.total
    THEN [a EXCEPT !.jobs = Without(@, b), !.started[b] = "none",
                   !.completed = Without(@, b) \cup
                                   {[blob |-> b, key |-> j.key, total |-> j.total]}]
    ELSE [a EXCEPT !.jobs = Without(@, b)]

Finish(a, b) ==
    LET j == CHOOSE x \in a.jobs : x.blob = b IN
    IF j.received = j.total
    THEN [a EXCEPT !.jobs = Without(@, b), !.started[b] = "none",
                   !.completed = Without(@, b) \cup
                                   {[blob |-> b, key |-> j.key, total |-> j.total]},
                   !.created[b] = "young"]
    ELSE [a EXCEPT !.jobs = Without(@, b)]

TakeCompleted(a, b) ==
    [a EXCEPT !.completed = Without(@, b), !.created[b] = "none"]

\* Slip: whatever is completed under the identifier is taken.
TakeWhateverIsThere(a, p) == TakeCompleted(a, p.blob)

TakeCompletedIfEqual(a, p) ==
    IF p \in a.completed THEN TakeCompleted(a, p.blob) ELSE a

\* A job under the identifier goes first: the package stays until the next
\* call, but without its time.
CancelAttachment(a, b) ==
    [a EXCEPT !.jobs = Without(@, b), !.started[b] = "none", !.created[b] = "none",
              !.completed = IF \E j \in a.jobs : j.blob = b THEN @ ELSE Without(@, b)]

PurgeAttachmentState(a) ==
    LET stale == {b \in Blobs : a.started[b] = "old"}
        done == {b \in Blobs : a.created[b] = "old"} IN
    [jobs |-> {j \in a.jobs : j.blob \notin stale},
     started |-> [b \in Blobs |-> IF b \in stale THEN "none" ELSE a.started[b]],
     completed |-> {p \in a.completed : p.blob \notin done},
     created |-> [b \in Blobs |-> IF b \in done THEN "none" ELSE a.created[b]]]
=============================================================================
