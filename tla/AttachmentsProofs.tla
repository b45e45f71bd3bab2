------------------------- MODULE AttachmentsProofs -------------------------
(***************************************************************************)
(* Proofs about module Attachments, for any number of blobs, keys and      *)
(* slots, any sizes and any bounds.  First what a write of the relay       *)
(* leaves in a blob; then the form of the state, which the code's types    *)
(* and maps guarantee of jobs, packages, tasks, requests and files; then   *)
(* that the bytes of a blob stay, that what the receiver shows is stored,  *)
(* and that an old task takes no newer package; then that the whole of an  *)
(* announced attachment is at the relay, since a task announces only what  *)
(* it has seen accepted to the end; then that what is past its time is     *)
(* purged, and that the chunks of the descriptor cut the blob into what    *)
(* was encrypted.                                                          *)
(***************************************************************************)
EXTENDS Attachments, TLAPS

\* Body repeats the key of the request.
LEMMA BodyBytes ==
    ASSUME NEW S, NEW r, r.length \in Nat, r.key \in S
    PROVE  \A i \in 1..r.length : Body(r)[i] = r.key
  BY DEF Body

\* The bytes of three parts put together.
LEMMA ThreeParts ==
    ASSUME NEW S, NEW a \in Seq(S), NEW b \in Seq(S), NEW c \in Seq(S),
           NEW g, g = (a \o b) \o c
    PROVE  /\ g \in Seq(S)
           /\ Len(g) = Len(a) + Len(b) + Len(c)
           /\ \A i \in 1..Len(a) : g[i] = a[i]
           /\ \A i \in 1..Len(b) : g[Len(a) + i] = b[i]
           /\ \A i \in 1..Len(c) : g[Len(a) + Len(b) + i] = c[i]
<1>1. PICK d \in Seq(S) : d = a \o b
  <2>1. a \o b \in Seq(S)
    OBVIOUS
  <2> QED
    BY Zenon, <2>1
<1>2. /\ Len(a) \in Nat /\ Len(b) \in Nat /\ Len(c) \in Nat
      /\ Len(d) = Len(a) + Len(b)
      /\ \A i \in 1..Len(a) + Len(b) : d[i] = IF i <= Len(a) THEN a[i] ELSE b[i - Len(a)]
  BY <1>1
<1>3. /\ d \o c \in Seq(S) /\ Len(d \o c) = Len(d) + Len(c)
      /\ \A i \in 1..Len(d) + Len(c) :
           (d \o c)[i] = IF i <= Len(d) THEN d[i] ELSE c[i - Len(d)]
  OBVIOUS
<1>4. ASSUME NEW i \in 1..Len(a) PROVE (d \o c)[i] = a[i]
  <2>1. i \in 1..Len(d) /\ i \in 1..Len(d) + Len(c) /\ i <= Len(d)
    BY <1>2
  <2> QED
    BY <2>1, <1>2, <1>3
<1>5. ASSUME NEW i \in 1..Len(b) PROVE (d \o c)[Len(a) + i] = b[i]
  <2>1. /\ Len(a) + i \in 1..Len(d) /\ Len(a) + i \in 1..Len(d) + Len(c)
        /\ ~(Len(a) + i <= Len(a)) /\ Len(a) + i - Len(a) = i
    BY <1>2
  <2> QED
    BY SMTT(30), <2>1, <1>2, <1>3
<1>6. ASSUME NEW i \in 1..Len(c) PROVE (d \o c)[Len(a) + Len(b) + i] = c[i]
  <2>1. /\ Len(a) + Len(b) + i \in 1..Len(d) + Len(c)
        /\ ~(Len(a) + Len(b) + i <= Len(d)) /\ Len(a) + Len(b) + i - Len(d) = i
    BY <1>2
  <2> QED
    BY SMTT(30), <2>1, <1>3
<1> QED
  BY <1>1, <1>2, <1>3, <1>4, <1>5, <1>6

\* File g is file f after n bytes of a request were written at its offset: as
\* long as before, or up to the last byte written; those bytes carry the key of
\* the request and every other byte is as before.
Spliced(f, r, n, g) ==
    /\ Len(g) = IF r.offset + n < Len(f) THEN Len(f) ELSE r.offset + n
    /\ \A i \in 1..Len(g) :
         g[i] = IF i \in r.offset + 1 .. r.offset + n THEN r.key ELSE f[i]

\* What Written leaves.
LEMMA WrittenBytes ==
    ASSUME NEW S, NEW f \in Seq(S), NEW r, NEW n \in Nat,
           r.offset \in Nat, r.length \in Nat, r.key \in S,
           r.offset <= Len(f), n <= r.length
    PROVE  Written(f, r, n) \in Seq(S) /\ Spliced(f, r, n, Written(f, r, n))
<1>g. PICK g : g = Written(f, r, n)
  OBVIOUS
<1> DEFINE A == SubSeq(f, 1, r.offset)
           B == SubSeq(Body(r), 1, n)
           C == SubSeq(f, r.offset + n + 1, Len(f))
<1>0. Len(f) \in Nat /\ \A i \in 1..Len(f) : f[i] \in S
  OBVIOUS
<1>1. A \in Seq(S) /\ Len(A) = r.offset /\ \A i \in 1..r.offset : A[i] = f[i]
  <2>1. \A i \in 1..r.offset : f[i] \in S
    BY <1>0
  <2>2. /\ A \in Seq(S) /\ Len(A) = IF 1 <= r.offset THEN r.offset - 1 + 1 ELSE 0
        /\ \A i \in 1..r.offset - 1 + 1 : A[i] = f[1 + i - 1]
    BY <2>1
  <2> QED
    BY <2>2
<1>2. B \in Seq(S) /\ Len(B) = n /\ \A i \in 1..n : B[i] = r.key
  <2>1. \A i \in 1..n : Body(r)[i] = r.key
    BY BodyBytes
  <2>2. /\ B \in Seq(S) /\ Len(B) = IF 1 <= n THEN n - 1 + 1 ELSE 0
        /\ \A i \in 1..n - 1 + 1 : B[i] = Body(r)[1 + i - 1]
    BY <2>1
  <2> QED
    BY <2>1, <2>2
<1>3. /\ C \in Seq(S)
      /\ Len(C) = IF r.offset + n < Len(f) THEN Len(f) - (r.offset + n) ELSE 0
      /\ \A i \in 1..Len(f) - (r.offset + n) : C[i] = f[r.offset + n + i]
  <2>1. \A i \in r.offset + n + 1 .. Len(f) : f[i] \in S
    BY <1>0
  <2>2. /\ C \in Seq(S)
        /\ Len(C) = IF r.offset + n + 1 <= Len(f) THEN Len(f) - (r.offset + n + 1) + 1 ELSE 0
        /\ \A i \in 1..Len(f) - (r.offset + n + 1) + 1 : C[i] = f[r.offset + n + 1 + i - 1]
    BY SMTT(30), <1>0, <2>1
  <2> HIDE DEF C
  <2>3. PICK m \in Nat, l \in Nat : m = r.offset + n /\ l = Len(f)
    BY <1>0
  <2>4. Len(C) = IF m < l THEN l - m ELSE 0
    BY SMTT(30), <2>2, <2>3
  <2>5. ASSUME NEW i \in 1..l - m PROVE C[i] = f[m + i]
    <3>1. i \in 1..l - (m + 1) + 1 /\ m + 1 + i - 1 = m + i
      OBVIOUS
    <3>2. \A k \in 1..l - (m + 1) + 1 : C[k] = f[m + 1 + k - 1]
      BY Zenon, <2>2, <2>3
    <3> QED
      BY Zenon, <3>1, <3>2
  <2> QED
    BY Zenon, <2>2, <2>3, <2>4, <2>5
<1> HIDE DEF A, B, C
<1>4. /\ g = (A \o B) \o C
      /\ A \in Seq(S) /\ B \in Seq(S) /\ C \in Seq(S)
  BY Zenon, <1>g, <1>1, <1>2, <1>3 DEF Written, A, B, C
<1>5. /\ g \in Seq(S)
      /\ Len(g) = Len(A) + Len(B) + Len(C)
      /\ \A i \in 1..Len(A) : g[i] = A[i]
      /\ \A i \in 1..Len(B) : g[Len(A) + i] = B[i]
      /\ \A i \in 1..Len(C) : g[Len(A) + Len(B) + i] = C[i]
  <2>1. PICK a \in Seq(S), b \in Seq(S), c \in Seq(S) : a = A /\ b = B /\ c = C
    BY Zenon, <1>4
  <2>2. g = (a \o b) \o c
    BY Zenon, <1>4, <2>1
  <2>3. /\ g \in Seq(S)
        /\ Len(g) = Len(a) + Len(b) + Len(c)
        /\ \A i \in 1..Len(a) : g[i] = a[i]
        /\ \A i \in 1..Len(b) : g[Len(a) + i] = b[i]
        /\ \A i \in 1..Len(c) : g[Len(a) + Len(b) + i] = c[i]
    BY SMTT(30), <2>2, ThreeParts
  <2> QED
    BY Zenon, <2>1, <2>3
<1>6. ASSUME NEW i \in 1..Len(g)
      PROVE  g[i] = IF i \in r.offset + 1 .. r.offset + n THEN r.key ELSE f[i]
  <2>1. CASE i <= r.offset
    BY SMTT(30), <2>1, <1>1, <1>5
  <2>2. CASE i \in r.offset + 1 .. r.offset + n
    <3>1. i - r.offset \in 1..n /\ r.offset + (i - r.offset) = i
      BY SMTT(30), <2>2, <1>0
    <3> QED
      BY SMTT(30), <2>2, <3>1, <1>1, <1>2, <1>5
  <2>3. CASE i > r.offset + n
    <3>1. /\ i - (r.offset + n) \in 1..Len(C) /\ r.offset + n + (i - (r.offset + n)) = i
          /\ i - (r.offset + n) \in 1..Len(f) - (r.offset + n)
      BY SMTT(30), <2>3, <1>0, <1>1, <1>2, <1>3, <1>5
    <3>2. g[i] = C[i - (r.offset + n)]
      BY ZenonT(60), <3>1, <1>1, <1>2, <1>5
    <3>3. C[i - (r.offset + n)] = f[i]
      BY Zenon, <3>1, <1>3
    <3> QED
      BY <2>3, <3>2, <3>3, <1>0, <1>5
  <2> QED
    BY SMTT(30), <2>1, <2>2, <2>3, <1>0, <1>1, <1>2, <1>3, <1>5
<1>7. Len(g) = IF r.offset + n < Len(f) THEN Len(f) ELSE r.offset + n
  BY SMTT(30), <1>0, <1>1, <1>2, <1>3, <1>5
<1> QED
  BY <1>g, <1>5, <1>6, <1>7 DEF Spliced

-----------------------------------------------------------------------------
Bytes == Keys \cup {BrowserKey}

-----------------------------------------------------------------------------
\* The attachments of the sender

\* No two completed packages share an identifier (completed_attachments is a map).
OnePerBlob(a) == \A p, q \in a.completed : p.blob = q.blob => p = q

\* Every method of AttachmentState returns a state with one package per
\* identifier, and only finish adds a package.
LEMMA MethodTypes ==
    ASSUME NEW a \in State, OnePerBlob(a), NEW b \in Blobs
    PROVE  /\ \A k \in Keys, total \in 1..MaxAttachment :
                Start(a, b, total, k) \in State /\ OnePerBlob(Start(a, b, total, k))
           /\ AppendChunk(a, b) \in State /\ OnePerBlob(AppendChunk(a, b))
           /\ CanFinish(a, b) => Finish(a, b) \in State /\ OnePerBlob(Finish(a, b))
           /\ TakeCompleted(a, b) \in State /\ OnePerBlob(TakeCompleted(a, b))
           /\ CancelAttachment(a, b) \in State /\ OnePerBlob(CancelAttachment(a, b))
<1> USE AttachmentAssumption
<1>1. ASSUME NEW k \in Keys, NEW total \in 1..MaxAttachment
      PROVE  Start(a, b, total, k) \in State /\ OnePerBlob(Start(a, b, total, k))
  <2>1. [blob |-> b, key |-> k, total |-> total, received |-> 0] \in Job
    BY DEF Job
  <2>2. [a.started EXCEPT ![b] = "young"] \in [Blobs -> Ages]
    BY DEF State, Ages
  <2>3. PICK jobs \in SUBSET Job :
          jobs = {[blob |-> b, key |-> k, total |-> total, received |-> 0]}
    BY Zenon, <2>1
  <2>4. Start(a, b, total, k) = [a EXCEPT !.jobs = jobs, !.started[b] = "young"]
    BY <2>3 DEF Start
  <2>5. Start(a, b, total, k) =
          [jobs |-> jobs, started |-> [a.started EXCEPT ![b] = "young"],
           completed |-> a.completed, created |-> a.created]
    BY Zenon, <2>4 DEF State
  <2>6. Start(a, b, total, k) \in State
    BY SMTT(30), <2>2, <2>5 DEF State
  <2>7. OnePerBlob(Start(a, b, total, k))
    BY SMTT(30), <2>5 DEF OnePerBlob
  <2> QED
    BY SMTT(30), <2>6, <2>7
<1>2. AppendChunk(a, b) \in State /\ OnePerBlob(AppendChunk(a, b))
  <2>1. \A j \in a.jobs : Append1(j) \in Job
    BY DEF State, Job, Append1, Least
  <2>2. {IF j.blob = b THEN Append1(j) ELSE j : j \in a.jobs} \subseteq Job
    BY SMTT(30), <2>1 DEF State
  <2> QED
    BY SMTT(30), <2>2 DEF AppendChunk, State, OnePerBlob
<1>3. ASSUME CanFinish(a, b)
      PROVE  Finish(a, b) \in State /\ OnePerBlob(Finish(a, b))
  <2>1. PICK j \in a.jobs : j.blob = b /\ j = CHOOSE x \in a.jobs : x.blob = b
    BY SMTT(30), <1>3 DEF CanFinish
  <2>2. [blob |-> b, key |-> j.key, total |-> j.total] \in Package
    BY DEF State, Job, Package
  <2>3. CASE j.received = j.total
    <3>1. Finish(a, b) = [a EXCEPT !.jobs = Without(@, b), !.started[b] = "none",
                   !.completed = Without(@, b) \cup
                                   {[blob |-> b, key |-> j.key, total |-> j.total]},
                   !.created[b] = "young"]
      BY SMTT(30), <2>1, <2>3 DEF Finish
    <3>2. /\ [a.started EXCEPT ![b] = "none"] \in [Blobs -> Ages]
          /\ [a.created EXCEPT ![b] = "young"] \in [Blobs -> Ages]
      BY DEF State, Ages
    <3>3. /\ Without(a.jobs, b) \subseteq Job
          /\ Without(a.completed, b) \cup {[blob |-> b, key |-> j.key, total |-> j.total]}
               \subseteq Package
      BY <2>2 DEF State, Without
    <3>4. Finish(a, b) =
            [jobs |-> Without(a.jobs, b), started |-> [a.started EXCEPT ![b] = "none"],
             completed |-> Without(a.completed, b) \cup
                             {[blob |-> b, key |-> j.key, total |-> j.total]},
             created |-> [a.created EXCEPT ![b] = "young"]]
      BY ZenonT(60), <3>1 DEF State
    <3>5. Finish(a, b) \in State
      BY SMTT(30), <3>2, <3>3, <3>4 DEF State
    <3>6. OnePerBlob(Finish(a, b))
      BY SMTT(30), <3>4 DEF OnePerBlob, Without
    <3> QED
      BY SMTT(30), <3>5, <3>6
  <2>4. CASE j.received # j.total
    BY SMTT(30), <2>1, <2>4 DEF Finish, State, Without, OnePerBlob
  <2> QED
    BY SMTT(30), <2>3, <2>4
<1>4. TakeCompleted(a, b) \in State /\ OnePerBlob(TakeCompleted(a, b))
  BY Zenon DEF TakeCompleted, State, Ages, Without, OnePerBlob
<1>5. CancelAttachment(a, b) \in State /\ OnePerBlob(CancelAttachment(a, b))
  BY Zenon DEF CancelAttachment, State, Ages, Without, OnePerBlob
<1> QED
  BY SMTT(30), <1>1, <1>2, <1>3, <1>4, <1>5

\* So do the purge, the passing of time and the empty state.
LEMMA PurgeTypes ==
    ASSUME NEW a \in State, OnePerBlob(a)
    PROVE  /\ PurgeAttachmentState(a) \in State /\ OnePerBlob(PurgeAttachmentState(a))
           /\ NoAttachments \in State /\ OnePerBlob(NoAttachments)
           /\ LET o == [a EXCEPT !.started = Aged(@), !.created = Aged(@)] IN
              o \in State /\ OnePerBlob(o)
<1>1. PurgeAttachmentState(a) \in State /\ OnePerBlob(PurgeAttachmentState(a))
  BY DEF PurgeAttachmentState, State, Ages, OnePerBlob
<1>2. NoAttachments \in State /\ OnePerBlob(NoAttachments)
  BY DEF NoAttachments, State, Ages, OnePerBlob
<1>3. \A ages \in [Blobs -> Ages] : Aged(ages) \in [Blobs -> Ages]
  BY DEF Aged, Ages
<1> QED
  BY Zenon, <1>1, <1>2, <1>3 DEF State, OnePerBlob

-----------------------------------------------------------------------------
\* The inductive invariant, in its parts

\* A task of the browser's uploads its piece; any other is within its package.
TaskFits(t) ==
    IF t.op = "chunk" THEN t.package \in [blob : Blobs, key : {BrowserKey}]
    ELSE t.package \in Package /\ t.offset <= BlobSize(t.package.total)

Shape ==
    /\ att \in State /\ OnePerBlob(att)
    /\ tasks \in [Slots -> Task \cup {Idle}]
    /\ \A s \in Slots : tasks[s] # Idle => TaskFits(tasks[s])
    /\ posts \in [Slots -> Post \cup {Idle}]
    /\ file \in [Blobs -> Seq(Bytes) \cup {NoFile}]
    /\ outbox \subseteq Envelope
    /\ limits \in Profiles

\* A request past the length check writes within the file or at its end.
OpenFits ==
    \A s \in Slots : Working(s, "write") =>
        LET r == posts[s].request IN
        file[r.blob] # NoFile /\ r.offset <= Len(file[r.blob])

\* Such a request can only write what is there already or beyond the end, and
\* two of them for one blob have the same bytes.
WritesAgree ==
    /\ \A s \in Slots : Working(s, "write") =>
         LET r == posts[s].request IN
         r.blob \notin raced =>
           \A i \in 1..Len(file[r.blob]) :
             i \in r.offset + 1 .. End(r) => file[r.blob][i] = r.key
    /\ \A s, x \in Slots :
         /\ Working(s, "write") /\ Working(x, "write")
         /\ posts[s].request.blob = posts[x].request.blob
         /\ posts[s].request.blob \notin raced
         => posts[s].request.key = posts[x].request.key

-----------------------------------------------------------------------------
\* Shape

\* The ciphertext of an attachment has at least one byte.
LEMMA SizeTypes ==
    ASSUME NEW total \in 1..MaxAttachment
    PROVE  BlobSize(total) \in Nat \ {0}
<1>1. ChunkCount(total) \in Nat
  BY AttachmentAssumption DEF ChunkCount
<1>2. \A x, y \in Nat : x * y \in Nat
  BY SMTT(30)
<1> QED
  BY SMTT(30), <1>1, <1>2, AttachmentAssumption DEF BlobSize

\* What upload_blob_chunk_blocking sends is a request of the relay.
LEMMA PieceTypes ==
    ASSUME NEW t \in Task, TaskFits(t)
    PROVE  /\ Piece(t).blob = t.package.blob /\ Piece(t).key = t.package.key
           /\ Piece(t).offset = t.offset
           /\ Piece(t).length \in Nat
           /\ InBounds(Piece(t)) =>
                [request |-> Piece(t), step |-> "read"] \in Post
<1>1. CASE t.op = "chunk"
  BY Zenon, <1>1, BlobAssumption DEF Task, TaskFits, Piece, Request, Post, InBounds
<1>2. CASE t.op # "chunk"
  <2>1. BlobSize(t.package.total) \in Nat
    BY SMTT(30), <1>2, SizeTypes DEF TaskFits, Package
  <2>2. Least(Chunk, BlobSize(t.package.total) - t.offset) \in Nat
    BY SMTT(30), <1>2, <2>1, AttachmentAssumption DEF Task, TaskFits, Least
  <2>3. Piece(t) = [blob |-> t.package.blob, offset |-> t.offset,
                    length |-> Least(Chunk, BlobSize(t.package.total) - t.offset),
                    total |-> BlobSize(t.package.total), key |-> t.package.key]
    BY Zenon, <1>2 DEF Piece, Request
  <2>4. t.package.blob \in Blobs /\ t.package.key \in Keys /\ t.offset \in Nat
    BY SMTT(30), <1>2 DEF TaskFits, Package, Task
  <2> QED
    BY SMTT(30), <2>1, <2>2, <2>3, <2>4 DEF Post
<1> QED
  BY SMTT(30), <1>1, <1>2

\* The task that goes on after a piece.
LEMMA AdvancedTypes ==
    ASSUME NEW t \in Task, TaskFits(t), Advanced(t) # Idle
    PROVE  /\ Advanced(t) \in Task /\ TaskFits(Advanced(t))
           /\ t.op # "chunk" /\ Advanced(t).op = t.op /\ Advanced(t).package = t.package
           /\ \/ /\ Advanced(t).stage = "upload"
                 /\ Advanced(t).offset = t.offset + Piece(t).length
              \/ /\ Advanced(t).stage = "announce"
                 /\ t.offset + Piece(t).length >= BlobSize(t.package.total)
<1>1. t.op # "chunk"
  BY DEF Advanced
<1>2. BlobSize(t.package.total) \in Nat /\ t.offset \in Nat /\ Piece(t).length \in Nat
  BY Zenon, <1>1, SizeTypes, PieceTypes DEF TaskFits, Package, Task
<1>3. CASE t.offset + Piece(t).length < BlobSize(t.package.total)
  <2>1. Advanced(t) = [t EXCEPT !.offset = t.offset + Piece(t).length, !.stage = "upload"]
    BY SMTT(30), <1>1, <1>3 DEF Advanced
  <2>2. Advanced(t) \in Task
    <3>1. PICK o \in Nat : o = t.offset + Piece(t).length
      BY <1>2
    <3>2. [t EXCEPT !.offset = o, !.stage = "upload"] \in Task
      BY Zenon DEF Task
    <3> QED
      BY SMTT(30), <2>1, <3>1, <3>2
  <2>3. /\ Advanced(t).op = t.op /\ Advanced(t).package = t.package
        /\ Advanced(t).stage = "upload" /\ Advanced(t).offset = t.offset + Piece(t).length
    BY SMTT(30), <2>1 DEF Task
  <2> QED
    BY SMTT(30), <1>1, <1>2, <1>3, <2>2, <2>3 DEF TaskFits
<1>4. CASE ~(t.offset + Piece(t).length < BlobSize(t.package.total))
  <2>1. Advanced(t) = [t EXCEPT !.stage = "announce"]
    BY SMTT(30), <1>1, <1>4 DEF Advanced
  <2>2. Advanced(t) \in Task
    BY <2>1 DEF Task
  <2>3. /\ Advanced(t).op = t.op /\ Advanced(t).package = t.package
        /\ Advanced(t).stage = "announce" /\ Advanced(t).offset = t.offset
    BY SMTT(30), <2>1 DEF Task
  <2> QED
    BY SMTT(30), <1>1, <1>2, <1>4, <2>2, <2>3 DEF TaskFits
<1> QED
  BY SMTT(30), <1>3, <1>4

\* An answer leaves tasks and requests well formed.
LEMMA AnswerTypes ==
    ASSUME Shape, NEW s \in Slots, NEW accepted \in BOOLEAN, NEW n, Answer(s, accepted, n)
    PROVE  /\ posts' \in [Slots -> Post \cup {Idle}]
           /\ tasks' \in [Slots -> Task \cup {Idle}]
           /\ \A x \in Slots : tasks'[x] # Idle => TaskFits(tasks'[x])
           /\ \A x \in Slots \ {s} : tasks'[x] = tasks[x] /\ posts'[x] = posts[x]
           /\ posts'[s] = Idle
           /\ tasks'[s] # Idle =>
                \/ tasks'[s] = tasks[s] /\ tasks[s].stage # "posted"
                \/ /\ tasks[s] # Idle /\ tasks[s].stage = "posted" /\ accepted
                   /\ TakesReceived(tasks[s], n) /\ tasks'[s] = Advanced(tasks[s])
<1>1. posts' = [posts EXCEPT ![s] = Idle]
  BY SMTT(30) DEF Answer
<1>2. CASE tasks[s] # Idle /\ tasks[s].stage = "posted"
  <2>1. tasks' = [tasks EXCEPT ![s] = IF accepted /\ TakesReceived(tasks[s], n)
                                      THEN Advanced(tasks[s]) ELSE Idle]
    BY SMTT(30), <1>2 DEF Answer, Shape
  <2>2. tasks[s] \in Task /\ TaskFits(tasks[s])
    BY SMTT(30), <1>2 DEF Shape
  <2> QED
    BY SMTT(30), <1>1, <1>2, <2>1, <2>2, AdvancedTypes DEF Shape
<1>3. CASE ~(tasks[s] # Idle /\ tasks[s].stage = "posted")
  <2>1. tasks' = tasks
    BY SMTT(30), <1>3 DEF Answer
  <2> QED
    BY SMTT(30), <1>1, <1>3, <2>1 DEF Shape
<1> QED
  BY Zenon, <1>2, <1>3

\* The routes that hold the mutexes, time, locks and the receiver leave tasks,
\* requests, blobs and announcements alone.
LEMMA QuietTypes ==
    ASSUME Shape, att' \in State, OnePerBlob(att'),
           UNCHANGED <<tasks, posts, file, outbox, limits>>
    PROVE  Shape'
  BY SMTT(30) DEF Shape, TaskFits

\* What a write leaves in the file of its request.
LEMMA WriteTypes ==
    ASSUME Shape, OpenFits, NEW s \in Slots, Working(s, "write"),
           NEW r, r = posts[s].request, NEW n \in Nat, n <= r.length
    PROVE  /\ r.blob \in Blobs /\ r.offset \in Nat /\ r.length \in Nat /\ r.key \in Bytes
           /\ file[r.blob] \in Seq(Bytes) /\ r.offset <= Len(file[r.blob])
           /\ Written(file[r.blob], r, n) \in Seq(Bytes)
           /\ Written(file[r.blob], r, n) # NoFile
           /\ Spliced(file[r.blob], r, n, Written(file[r.blob], r, n))
<1>1. posts[s] \in Post
  BY SMTT(30) DEF Working, Shape
<1>2. r.blob \in Blobs /\ r.offset \in Nat /\ r.length \in Nat /\ r.key \in Bytes
  BY SMTT(30), <1>1 DEF Post, Bytes
<1>3. PICK f \in Seq(Bytes) : f = file[r.blob] /\ r.offset <= Len(f)
  BY SMTT(30), <1>2 DEF Shape, OpenFits
<1>4. NoFile \notin Seq(Bytes)
  BY SMTT(30), AttachmentsAssumption DEF Bytes
<1>5. Written(f, r, n) \in Seq(Bytes) /\ Spliced(f, r, n, Written(f, r, n))
  BY Zenon, <1>2, <1>3, WrittenBytes
<1> QED
  BY Zenon, <1>2, <1>3, <1>4, <1>5

\* The bounds of a behaviour are counted in natural numbers.
Counted == spent \in [Bounded -> Nat]

LEMMA CountedStep ==
    ASSUME Counted, [Next]_vars
    PROVE  Counted'
<1>1. ASSUME NEW what \in Bounded, Spend(what) PROVE Counted'
  BY SMTT(30), <1>1 DEF Counted, Spend
<1>2. ASSUME UNCHANGED budget PROVE Counted'
  BY Zenon, <1>2 DEF Counted, budget
<1>3. ASSUME NEW b \in limits.blobs, NEW total \in limits.sizes, NEW k \in Keys,
             AttachmentStart(b, total, k)
      PROVE  Counted'
  BY Zenon, <1>1, <1>3 DEF AttachmentStart, Bounded
<1>4. ASSUME NEW b \in limits.blobs,
             AttachmentAppend(b) \/ AttachmentFinish(b) \/ AttachmentCancel(b)
      PROVE  Counted'
  BY Zenon, <1>2, <1>4 DEF AttachmentAppend, AttachmentFinish, AttachmentCancel, budget
<1>5. ASSUME NEW b \in limits.blobs, NEW s \in limits.slots, NEW offset \in 0..MaxBlob - 1,
             UploadChunk(s, b, offset)
      PROVE  Counted'
  BY Zenon, <1>1, <1>5 DEF UploadChunk, Bounded
<1>6. CASE OtherRequest \/ TimePasses \/ Exchange \/ RelayCrash
  BY Zenon, <1>1, <1>2, <1>6 DEF OtherRequest, TimePasses, Exchange, RelayCrash, Bounded, budget
<1>7. ASSUME NEW s \in limits.slots, NEW op \in {"send", "upload"}, NEW p \in att.completed,
             Begin(s, op, p)
      PROVE  Counted'
  BY Zenon, <1>2, <1>7 DEF Begin, budget
<1>8. ASSUME NEW s \in limits.slots,
             \/ UploadPiece(s) \/ GiveUp(s) \/ BlobRead(s) \/ BlobOpen(s) \/ BlobWrite(s)
             \/ BlobWriteFails(s)
      PROVE  Counted'
  BY ZenonT(60), <1>1, <1>2, <1>8
     DEF UploadPiece, GiveUp, BlobRead, BlobOpen, BlobWrite, BlobWriteFails, Bounded, budget
<1>9. ASSUME NEW s \in limits.slots,
             UploadCompletedEnd(s) \/ Announce(s) \/ PostEnvelope(s) \/ SendEnd(s)
      PROVE  Counted'
  BY ZenonT(60), <1>1, <1>2, <1>9
     DEF UploadCompletedEnd, Announce, PostEnvelope, SendEnd, Bounded, budget
<1>10. ASSUME NEW e \in outbox, TickPosts(e) \/ Receive(e) \/ CancelReceived(e)
       PROVE  Counted'
  BY Zenon, <1>1, <1>2, <1>10 DEF TickPosts, Receive, CancelReceived, Bounded, budget
<1>11. ASSUME NEW d \in Daemons, SessionLock(d) \/ Restart(d) PROVE Counted'
  BY Zenon, <1>1, <1>11 DEF SessionLock, Restart, Bounded
<1>12. CASE UNCHANGED vars
  BY Zenon, <1>2, <1>12 DEF vars, budget
<1> QED
  BY Zenon, <1>3, <1>4, <1>5, <1>6, <1>7, <1>8, <1>9, <1>10, <1>11, <1>12 DEF Next

\* One step keeps the form of the state.
LEMMA ShapeStep ==
    ASSUME Shape, Counted, OpenFits, [Next]_vars
    PROVE  Shape'
<1>0. /\ limits.slots \subseteq Slots /\ limits.blobs \subseteq Blobs
      /\ Purged \in State /\ OnePerBlob(Purged)
      /\ NoAttachments \in State /\ OnePerBlob(NoAttachments)
  BY Zenon, AttachmentsAssumption, PurgeTypes DEF Shape, Purged
<1>1. ASSUME NEW b \in limits.blobs, NEW total \in limits.sizes, NEW k \in Keys,
             AttachmentStart(b, total, k)
      PROVE  Shape'
  <2>1. att' = Start(Purged, b, total, k) /\ total \in 1..MaxAttachment
    BY SMTT(30), <1>1 DEF AttachmentStart, CanStart
  <2>2. att' \in State /\ OnePerBlob(att')
    BY SMTT(30), <1>0, <2>1, MethodTypes
  <2> QED
    BY SMTT(30), <1>1, <2>2, QuietTypes DEF AttachmentStart, Routed, Spend, relayVars
<1>2. ASSUME NEW b \in limits.blobs, AttachmentAppend(b) PROVE Shape'
  BY Zenon, <1>0, <1>2, MethodTypes, QuietTypes DEF AttachmentAppend, Routed, relayVars, budget
<1>3. ASSUME NEW b \in limits.blobs, AttachmentFinish(b) PROVE Shape'
  BY SMTT(30), <1>0, <1>3, MethodTypes, QuietTypes DEF AttachmentFinish, Routed, relayVars, budget
<1>4. ASSUME NEW b \in limits.blobs, AttachmentCancel(b) PROVE Shape'
  BY SMTT(30), <1>0, <1>4, MethodTypes, QuietTypes DEF AttachmentCancel, Routed, relayVars, budget
<1>5. CASE OtherRequest
  BY SMTT(30), <1>0, <1>5, QuietTypes DEF OtherRequest, Routed, relayVars, budget
<1>6. CASE TimePasses
  BY ZenonT(60), <1>6, PurgeTypes, QuietTypes DEF TimePasses, relayVars, Spend, Shape
<1>7. CASE Exchange
  BY SMTT(30), <1>7, QuietTypes DEF Exchange, senderVars, relayVars, budget, Shape
<1>8. ASSUME NEW s \in limits.slots, NEW b \in limits.blobs, NEW offset \in 0..MaxBlob - 1,
             UploadChunk(s, b, offset)
      PROVE  Shape'
  <2>1. PICK t : /\ t = [op |-> "chunk", package |-> [blob |-> b, key |-> BrowserKey],
                         offset |-> offset, stage |-> "upload", envelope |-> Idle]
                 /\ tasks' = [tasks EXCEPT ![s] = t]
    BY Zenon, <1>8 DEF UploadChunk, Become
  <2>2. t \in Task /\ TaskFits(t)
    BY SMTT(30), <1>0, <2>1, BlobAssumption DEF Task, TaskFits
  <2> QED
    BY Zenon, <1>0, <1>8, <2>1, <2>2 DEF UploadChunk, Shape, relayVars, Spend, TaskFits
<1>9. ASSUME NEW s \in limits.slots, NEW op \in {"send", "upload"}, NEW p \in att.completed,
             Begin(s, op, p)
      PROVE  Shape'
  <2>1. PICK t : /\ t = [op |-> op, package |-> p, offset |-> 0, stage |-> "upload",
                         envelope |-> Idle]
                 /\ tasks' = [tasks EXCEPT ![s] = t]
    BY Zenon, <1>9 DEF Begin, Become
  <2>2. p \in Package /\ BlobSize(p.total) \in Nat
    BY SMTT(30), SizeTypes DEF Shape, State, Package
  <2>3. t \in Task /\ TaskFits(t)
    BY SMTT(30), <2>1, <2>2 DEF Task, TaskFits
  <2> QED
    BY Zenon, <1>0, <1>9, <2>1, <2>3 DEF Begin, Shape, relayVars, budget, TaskFits
<1>10. ASSUME NEW s \in limits.slots, UploadPiece(s) PROVE Shape'
  <2>1. s \in Slots /\ tasks[s] \in Task /\ TaskFits(tasks[s])
    BY SMTT(30), <1>0, <1>10 DEF UploadPiece, Shape
  <2>2. CASE InBounds(Piece(tasks[s]))
    <3>1. [request |-> Piece(tasks[s]), step |-> "read"] \in Post
      BY SMTT(30), <2>1, <2>2, PieceTypes
    <3>2. PICK t : /\ t = [tasks[s] EXCEPT !.stage = "posted"]
                   /\ tasks' = [tasks EXCEPT ![s] = t]
      BY Zenon, <1>10, <2>2 DEF UploadPiece, Become
    <3>3. t \in Task /\ TaskFits(t)
      BY SMTT(30), <2>1, <3>2 DEF Task, TaskFits
    <3> QED
      BY SMTT(30), <1>10, <2>1, <2>2, <3>1, <3>2, <3>3 DEF UploadPiece, Shape, budget, TaskFits
  <2>3. CASE ~InBounds(Piece(tasks[s]))
    BY SMTT(30), <1>10, <2>3 DEF UploadPiece, Become, Shape, budget, TaskFits
  <2> QED
    BY SMTT(30), <2>2, <2>3
<1>11. ASSUME NEW s \in limits.slots, GiveUp(s) PROVE Shape'
  BY Zenon, <1>11 DEF GiveUp, Become, Shape, relayVars, Spend, TaskFits
<1>12. ASSUME NEW s \in limits.slots, BlobRead(s) PROVE Shape'
  <2>1. s \in Slots /\ UNCHANGED <<att, file, outbox, limits>>
    BY SMTT(30), <1>0, <1>12 DEF BlobRead, budget
  <2>2. CASE posts' = [posts EXCEPT ![s].step = "open"] /\ UNCHANGED tasks
    <3>1. posts[s] \in Post
      BY SMTT(30), <1>12, <2>1 DEF BlobRead, Working, Shape
    <3>2. [posts[s] EXCEPT !.step = "open"] \in Post
      BY SMTT(30), <3>1 DEF Post
    <3> QED
      BY SMTT(30), <2>1, <2>2, <3>2 DEF Shape, TaskFits
  <2>3. ASSUME NEW a \in BOOLEAN, NEW n, Answer(s, a, n) PROVE Shape'
    BY Zenon, <2>1, <2>3, AnswerTypes DEF Shape, TaskFits
  <2> QED
    BY ZenonT(60), <1>12, <2>2, <2>3 DEF BlobRead
<1>13. ASSUME NEW s \in limits.slots, BlobOpen(s) PROVE Shape'
  <2>1. s \in Slots /\ UNCHANGED <<att, outbox, limits>> /\ posts[s] \in Post
    BY SMTT(30), <1>0, <1>13 DEF BlobOpen, budget, Working, Shape
  <2>2. PICK b \in Blobs : b = posts[s].request.blob
    BY SMTT(30), <2>1 DEF Post
  <2>3. file' = [file EXCEPT ![b] = Opened(file[b])]
    BY SMTT(30), <1>13, <2>2 DEF BlobOpen
  <2>4. Opened(file[b]) \in Seq(Bytes)
    BY SMTT(30) DEF Opened, Shape
  <2>5. file' \in [Blobs -> Seq(Bytes) \cup {NoFile}]
    BY SMTT(30), <2>3, <2>4 DEF Shape
  <2>6. CASE posts' = [posts EXCEPT ![s].step = "write"] /\ UNCHANGED tasks
    <3>1. [posts[s] EXCEPT !.step = "write"] \in Post
      BY SMTT(30), <2>1 DEF Post
    <3> QED
      BY SMTT(30), <2>1, <2>5, <2>6, <3>1 DEF Shape, TaskFits
  <2>7. CASE Answer(s, FALSE, 0)
    BY ZenonT(60), <2>1, <2>5, <2>7, AnswerTypes DEF Shape, TaskFits
  <2> QED
    BY Zenon, <1>13, <2>6, <2>7 DEF BlobOpen
<1>14. ASSUME NEW s \in limits.slots, BlobWrite(s) PROVE Shape'
  <2>1. s \in Slots /\ UNCHANGED <<att, outbox, limits>> /\ posts[s] \in Post
    BY Zenon, <1>0, <1>14 DEF BlobWrite, budget, Spend, Working, Shape
  <2>2. PICK r : r = posts[s].request
    BY SMTT(30)
  <2>3. r.blob \in Blobs /\ r.length \in Nat
    BY SMTT(30), <2>1, <2>2 DEF Post
  <2>4. file' = [file EXCEPT ![r.blob] = Written(file[r.blob], r, r.length)]
    BY Zenon, <1>14, <2>2, <2>3 DEF BlobWrite, Shape
  <2>5. Written(file[r.blob], r, r.length) \in Seq(Bytes)
    <3>1. r.length <= r.length /\ Working(s, "write")
      BY SMTT(30), <1>14, <2>3 DEF BlobWrite
    <3> QED
      BY Zenon, <2>1, <2>2, <2>3, <3>1, WriteTypes
  <2>6. file' \in [Blobs -> Seq(Bytes) \cup {NoFile}]
    BY Zenon, <2>4, <2>5 DEF Shape
  <2>7. \E a \in BOOLEAN, n \in Nat : Answer(s, a, n)
    <3>1. End(r) \in Nat
      BY SMTT(30), <2>1, <2>2 DEF End, Post
    <3> QED
      BY ZenonT(60), <1>14, <2>2, <3>1 DEF BlobWrite
  <2> QED
    BY Zenon, <2>1, <2>6, <2>7, AnswerTypes DEF Shape, TaskFits
<1>15. CASE RelayCrash
  <2>1. /\ posts' = [s \in Slots |-> Idle]
        /\ tasks' = [s \in Slots |-> IF tasks[s] # Idle /\ tasks[s].stage = "posted"
                                     THEN Idle ELSE tasks[s]]
        /\ UNCHANGED <<att, outbox, limits>>
    BY Zenon, <1>15 DEF RelayCrash, Spend
  <2>2. file' \in [Blobs -> Seq(Bytes) \cup {NoFile}]
    <3>1. CASE UNCHANGED file
      BY SMTT(30), <3>1 DEF Shape
    <3>2. ASSUME NEW s \in Slots, Working(s, "write"),
                 NEW n \in 1..posts[s].request.length - 1,
                 file' = [file EXCEPT ![posts[s].request.blob] = Written(@, posts[s].request, n)]
          PROVE  file' \in [Blobs -> Seq(Bytes) \cup {NoFile}]
      <4>1. PICK r : r = posts[s].request
        BY SMTT(30)
      <4>2. posts[s] \in Post
        BY Zenon, <3>2 DEF Working, Shape
      <4>3. r.blob \in Blobs /\ r.length \in Nat
        BY SMTT(30), <4>1, <4>2 DEF Post
      <4>4. n \in Nat /\ n <= r.length
        BY SMTT(30), <4>1, <4>3
      <4>5. Written(file[r.blob], r, n) \in Seq(Bytes)
        BY Zenon, <3>2, <4>1, <4>4, WriteTypes
      <4>6. file \in [Blobs -> Seq(Bytes) \cup {NoFile}]
        BY Zenon DEF Shape
      <4>7. PICK g : g = Written(file[r.blob], r, n)
        OBVIOUS
      <4>8. file' = [file EXCEPT ![r.blob] = g]
        BY Zenon, <3>2, <4>1, <4>7
      <4> QED
        BY <4>3, <4>5, <4>6, <4>7, <4>8
    <3> QED
      BY Zenon, <1>15, <3>1, <3>2 DEF RelayCrash
  <2> QED
    BY Zenon, <2>1, <2>2 DEF Shape, TaskFits
<1>16. ASSUME NEW s \in limits.slots, UploadCompletedEnd(s) PROVE Shape'
  <2>1. s \in Slots /\ tasks[s] \in Task /\ TaskFits(tasks[s]) /\ tasks[s].op = "upload"
    BY Zenon, <1>0, <1>16 DEF UploadCompletedEnd, AtStage, Shape
  <2>2. att' \in State /\ OnePerBlob(att')
    BY Zenon, <1>16, <2>1, MethodTypes
       DEF UploadCompletedEnd, TakeCompletedIfEqual, Shape, TaskFits, Package
  <2> QED
    BY ZenonT(60), <1>16, <2>2 DEF UploadCompletedEnd, Become, Shape, relayVars, budget, TaskFits
<1>17. ASSUME NEW s \in limits.slots, Announce(s) PROVE Shape'
  <2>1. s \in Slots /\ tasks[s] \in Task /\ TaskFits(tasks[s]) /\ tasks[s].op = "send"
    BY SMTT(30), <1>0, <1>17 DEF Announce, AtStage, Shape
  <2>2. UNCHANGED <<att, posts, file, limits>>
    BY SMTT(30), <1>17 DEF Announce, Spend, relayVars, budget
  <2>3. CASE Become(s, Idle) /\ UNCHANGED outbox
    BY ZenonT(60), <2>2, <2>3 DEF Become, Shape, TaskFits
  <2>4. ASSUME NEW e, e = [number |-> spent["sends"] + 1, package |-> tasks[s].package],
               outbox' = outbox \cup {e},
               Become(s, [tasks[s] EXCEPT !.stage = "post", !.envelope = e])
        PROVE  Shape'
    <3>1. spent["sends"] + 1 \in Nat /\ tasks[s].package \in Package
      BY SMTT(30), <2>1 DEF Counted, Bounded, TaskFits
    <3>2. e \in Envelope
      BY SMTT(30), <2>4, <3>1 DEF Envelope
    <3>3. PICK t : t = [tasks[s] EXCEPT !.stage = "post", !.envelope = e]
      OBVIOUS
    <3>4. t \in Task /\ TaskFits(t)
      BY ZenonT(60), <2>1, <3>2, <3>3 DEF Task, TaskFits
    <3>5. outbox' \subseteq Envelope
      BY Zenon, <2>4, <3>2 DEF Shape
    <3> QED
      BY SMTT(30), <2>1, <2>2, <2>4, <3>3, <3>4, <3>5 DEF Become, Shape, TaskFits
  <2> QED
    BY ZenonT(60), <1>17, <2>3, <2>4 DEF Announce
<1>18. ASSUME NEW s \in limits.slots, PostEnvelope(s) PROVE Shape'
  <2>1. s \in Slots /\ tasks[s] \in Task /\ TaskFits(tasks[s])
    BY SMTT(30), <1>0, <1>18 DEF PostEnvelope, AtStage, Shape
  <2>2. PICK t : t = [tasks[s] EXCEPT !.stage = "accepted"]
    BY Zenon
  <2>3. t \in Task /\ TaskFits(t)
    BY SMTT(30), <2>1, <2>2 DEF Task, TaskFits
  <2>4. \E x \in {t, Idle} : tasks' = [tasks EXCEPT ![s] = x]
    BY SMTT(30), <1>18, <2>2 DEF PostEnvelope, Become
  <2> QED
    BY SMTT(30), <1>18, <2>1, <2>3, <2>4 DEF PostEnvelope, Shape, Spend, budget, TaskFits
<1>19. ASSUME NEW s \in limits.slots, SendEnd(s) PROVE Shape'
  <2>1. s \in Slots /\ tasks[s] \in Task
    BY ZenonT(60), <1>0, <1>19 DEF SendEnd, AtStage, Shape
  <2>2. tasks[s].package.blob \in Blobs
    BY SMTT(30), <2>1 DEF Task, Package
  <2>3. att' \in State /\ OnePerBlob(att')
    BY Zenon, <1>19, <2>2, MethodTypes DEF SendEnd, TakeCompletedIfEqual, Shape
  <2> QED
    BY ZenonT(60), <1>19, <2>3 DEF SendEnd, Become, Shape, Spend, relayVars, budget, TaskFits
<1>20. ASSUME NEW e \in outbox, TickPosts(e) \/ Receive(e) \/ CancelReceived(e)
       PROVE  Shape'
  BY Zenon, <1>20, QuietTypes DEF TickPosts, Receive, CancelReceived, senderVars, relayVars,
       budget, Spend, Shape
<1>21. ASSUME NEW d \in Daemons, SessionLock(d) PROVE Shape'
  BY ZenonT(60), <1>0, <1>21, QuietTypes DEF SessionLock, relayVars, Spend, Shape
<1>22. ASSUME NEW d \in Daemons, Restart(d) PROVE Shape'
  <2>1. att' \in State /\ OnePerBlob(att')
    <3>1. att' = NoAttachments \/ att' = att
      BY ZenonT(60), <1>22 DEF Restart
    <3> QED
      BY Zenon, <1>0, <3>1 DEF Shape, OnePerBlob
  <2> QED
    BY Zenon, <1>22, <2>1 DEF Restart, relayVars, Spend, Shape, TaskFits
<1>23. CASE UNCHANGED vars
  BY Zenon, <1>23, QuietTypes DEF vars, senderVars, relayVars, budget, Shape
<1>24. ASSUME NEW s \in limits.slots, BlobWriteFails(s) PROVE Shape'
  <2>1. s \in Slots /\ UNCHANGED <<att, outbox, limits>> /\ posts[s] \in Post
    BY Zenon, <1>0, <1>24 DEF BlobWriteFails, Spend, Working, Shape
  <2>2. PICK r : r = posts[s].request
    BY SMTT(30)
  <2>3. r.blob \in Blobs /\ r.length \in Nat
    BY SMTT(30), <2>1, <2>2 DEF Post
  <2>4. PICK n \in 0..r.length - 1 : file' = [file EXCEPT ![r.blob] = Written(file[r.blob], r, n)]
    BY Zenon, <1>24, <2>2, <2>3 DEF BlobWriteFails, Shape
  <2>5. Written(file[r.blob], r, n) \in Seq(Bytes)
    <3>1. n \in Nat /\ n <= r.length
      BY SMTT(30), <2>3, <2>4
    <3>2. Working(s, "write")
      BY Zenon, <1>24 DEF BlobWriteFails
    <3> QED
      BY Zenon, <2>1, <2>2, <2>3, <3>1, <3>2, WriteTypes
  <2>6. file' \in [Blobs -> Seq(Bytes) \cup {NoFile}]
    BY Zenon, <2>4, <2>5 DEF Shape
  <2>7. Answer(s, FALSE, 0)
    BY Zenon, <1>24 DEF BlobWriteFails
  <2> QED
    BY Zenon, <2>1, <2>6, <2>7, AnswerTypes DEF Shape, TaskFits
<1> QED
  BY Zenon, <1>1, <1>2, <1>3, <1>4, <1>5, <1>6, <1>7, <1>8, <1>9, <1>10, <1>11, <1>12, <1>13,
     <1>14, <1>15, <1>16, <1>17, <1>18, <1>19, <1>20, <1>21, <1>22, <1>23, <1>24 DEF Next

-----------------------------------------------------------------------------
\* Which blob a step changes, and how: a request that opens makes an empty file
\* where there was none, and one that writes, whole or cut by an error or a
\* crash, puts n of its bytes at its offset.
LEMMA FileSteps ==
    ASSUME Shape, OpenFits, [Next]_vars
    PROVE  \/ UNCHANGED file
           \/ \E s \in Slots : /\ BlobOpen(s)
                               /\ LET b == posts[s].request.blob IN
                                  b \in Blobs /\ file' = [file EXCEPT ![b] = Opened(file[b])]
           \/ \E s \in Slots : \E n \in 0..posts[s].request.length :
                /\ Working(s, "write")
                /\ BlobWrite(s) \/ BlobWriteFails(s) \/ RelayCrash
                /\ posts[s].request.blob \in Blobs
                /\ file' = [file EXCEPT ![posts[s].request.blob] =
                              Written(file[posts[s].request.blob], posts[s].request, n)]
<1>0. limits.slots \subseteq Slots
  BY Zenon, AttachmentsAssumption DEF Shape
<1>1. ASSUME NEW s \in limits.slots, BlobOpen(s)
      PROVE  /\ s \in Slots /\ posts[s].request.blob \in Blobs
             /\ file' = [file EXCEPT ![posts[s].request.blob] =
                          Opened(file[posts[s].request.blob])]
  <2>1. s \in Slots /\ posts[s] # Idle /\ posts \in [Slots -> Post \cup {Idle}]
    BY Zenon, <1>0, <1>1 DEF BlobOpen, Working, Shape
  <2>2. posts[s].request.blob \in Blobs
    BY SMTT(30), <2>1 DEF Post
  <2> QED
    BY Zenon, <1>1, <2>1, <2>2 DEF BlobOpen
<1>2. ASSUME NEW s \in limits.slots, BlobWrite(s)
      PROVE  /\ s \in Slots /\ Working(s, "write")
             /\ posts[s].request.length \in 0..posts[s].request.length
             /\ posts[s].request.blob \in Blobs
             /\ file' = [file EXCEPT ![posts[s].request.blob] =
                          Written(file[posts[s].request.blob], posts[s].request,
                                  posts[s].request.length)]
  <2>1. s \in Slots /\ posts[s] # Idle /\ posts \in [Slots -> Post \cup {Idle}]
    BY Zenon, <1>0, <1>2 DEF BlobWrite, Working, Shape
  <2>2. posts[s].request.blob \in Blobs /\ posts[s].request.length \in Nat
    BY SMTT(30), <2>1 DEF Post
  <2>3. posts[s].request.length \in 0..posts[s].request.length
    BY SMTT(30), <2>2
  <2> QED
    BY Zenon, <1>2, <2>1, <2>2, <2>3 DEF BlobWrite
<1>3. CASE RelayCrash
  <2>1. ASSUME NEW s \in Slots, Working(s, "write"),
               NEW n \in 1..posts[s].request.length - 1,
               file' = [file EXCEPT ![posts[s].request.blob] = Written(@, posts[s].request, n)]
        PROVE  /\ n \in 0..posts[s].request.length /\ posts[s].request.blob \in Blobs
               /\ file' = [file EXCEPT ![posts[s].request.blob] =
                            Written(file[posts[s].request.blob], posts[s].request, n)]
    BY <2>1 DEF Working, Shape, Post
  <2> QED
    BY Zenon, <1>3, <2>1 DEF RelayCrash
<1>4. ASSUME NEW b \in limits.blobs, NEW total \in limits.sizes, NEW k \in Keys,
             AttachmentStart(b, total, k)
      PROVE  UNCHANGED file
  BY Zenon, <1>4 DEF AttachmentStart, Routed, relayVars
<1>5. ASSUME NEW b \in limits.blobs,
             AttachmentAppend(b) \/ AttachmentFinish(b) \/ AttachmentCancel(b)
      PROVE  UNCHANGED file
  BY Zenon, <1>5 DEF AttachmentAppend, AttachmentFinish, AttachmentCancel, Routed, relayVars
<1>6. CASE OtherRequest \/ TimePasses \/ Exchange
  BY SMTT(30), <1>6 DEF OtherRequest, TimePasses, Exchange, Routed, relayVars
<1>7. ASSUME NEW s \in limits.slots, NEW b \in limits.blobs, NEW offset \in 0..MaxBlob - 1,
             UploadChunk(s, b, offset)
      PROVE  UNCHANGED file
  BY Zenon, <1>7 DEF UploadChunk, relayVars
<1>8. ASSUME NEW s \in limits.slots, NEW op \in {"send", "upload"}, NEW p \in att.completed,
             Begin(s, op, p)
      PROVE  UNCHANGED file
  BY Zenon, <1>8 DEF Begin, relayVars
<1>9. ASSUME NEW s \in limits.slots,
             \/ UploadPiece(s) \/ GiveUp(s) \/ BlobRead(s) \/ UploadCompletedEnd(s)
             \/ Announce(s) \/ PostEnvelope(s) \/ SendEnd(s)
      PROVE  UNCHANGED file
  BY Zenon, <1>9 DEF UploadPiece, GiveUp, BlobRead, UploadCompletedEnd, Announce, PostEnvelope,
       SendEnd, relayVars
<1>10. ASSUME NEW e \in outbox, TickPosts(e) \/ Receive(e) \/ CancelReceived(e)
       PROVE  UNCHANGED file
  BY Zenon, <1>10 DEF TickPosts, Receive, CancelReceived, relayVars
<1>11. ASSUME NEW d \in Daemons, SessionLock(d) \/ Restart(d) PROVE UNCHANGED file
  BY Zenon, <1>11 DEF SessionLock, Restart, relayVars
<1>12. CASE UNCHANGED vars
  BY Zenon, <1>12 DEF vars, relayVars
<1>13. ASSUME NEW s \in limits.slots, BlobWriteFails(s)
       PROVE  /\ s \in Slots /\ Working(s, "write") /\ posts[s].request.blob \in Blobs
              /\ \E n \in 0..posts[s].request.length :
                   file' = [file EXCEPT ![posts[s].request.blob] =
                              Written(file[posts[s].request.blob], posts[s].request, n)]
  <2>1. s \in Slots /\ posts[s] # Idle /\ posts \in [Slots -> Post \cup {Idle}]
    BY Zenon, <1>0, <1>13 DEF BlobWriteFails, Working, Shape
  <2>2. posts[s].request.blob \in Blobs /\ posts[s].request.length \in Nat
    BY SMTT(30), <2>1 DEF Post
  <2>3. \A n \in 0..posts[s].request.length - 1 : n \in 0..posts[s].request.length
    BY SMTT(30), <2>2
  <2> QED
    BY Zenon, <1>13, <2>1, <2>2, <2>3 DEF BlobWriteFails
<1>14. CASE \E s \in limits.slots : BlobWriteFails(s)
  BY Zenon, <1>13, <1>14
<1> QED
  BY ZenonT(60), <1>1, <1>2, <1>3, <1>4, <1>5, <1>6, <1>7, <1>8, <1>9, <1>10, <1>11, <1>12,
     <1>14 DEF Next

\* A request is past the length check after a step only if it was before, or if
\* it has just passed it; then rivals put the blob among the raced ones.
LEMMA WriteSteps ==
    ASSUME Shape, [Next]_vars
    PROVE  /\ raced \subseteq raced'
           /\ \A x \in Slots : Working(x, "write")' =>
                \/ Working(x, "write") /\ posts'[x] = posts[x]
                \/ LET r == posts[x].request IN
                   /\ BlobOpen(x) /\ posts[x] \in Post /\ posts'[x].request = r
                   /\ Len(Opened(file[r.blob])) = r.offset
                   /\ raced' = IF Rivals(x, r) = {} THEN raced ELSE raced \cup {r.blob}
<1>0. limits.slots \subseteq Slots
  BY Zenon, AttachmentsAssumption DEF Shape
<1>1. CASE UNCHANGED <<posts, raced>>
  BY Zenon, <1>1 DEF Working
<1>2. ASSUME NEW s \in Slots, UNCHANGED raced,
             \/ posts' = [posts EXCEPT ![s] = Idle]
             \/ /\ posts[s] \in Post \cup {Idle}
                /\ \E q : posts' = [posts EXCEPT ![s] = [request |-> q, step |-> "read"]]
             \/ posts[s] \in Post /\ posts' = [posts EXCEPT ![s].step = "open"]
      PROVE  \A x \in Slots : Working(x, "write")' =>
                Working(x, "write") /\ posts'[x] = posts[x]
  BY SMTT(30), <1>2 DEF Working, Shape, Post
<1>3. ASSUME NEW s \in limits.slots, BlobOpen(s), NEW x \in Slots, Working(x, "write")'
      PROVE  \/ Working(x, "write") /\ posts'[x] = posts[x]
             \/ LET r == posts[x].request IN
                /\ BlobOpen(x) /\ posts[x] \in Post /\ posts'[x].request = r
                /\ Len(Opened(file[r.blob])) = r.offset
                /\ raced' = IF Rivals(x, r) = {} THEN raced ELSE raced \cup {r.blob}
  <2>1. s \in Slots /\ posts[s] \in Post
    BY SMTT(30), <1>0, <1>3 DEF BlobOpen, Working, Shape
  <2>2. CASE Answer(s, FALSE, 0)
    BY Zenon, <1>3, <2>1, <2>2 DEF Answer, Working, Shape
  <2>3. CASE ~Answer(s, FALSE, 0)
    <3>1. /\ Len(Opened(file[posts[s].request.blob])) = posts[s].request.offset
          /\ posts' = [posts EXCEPT ![s].step = "write"]
          /\ raced' = IF Rivals(s, posts[s].request) = {} THEN raced
                      ELSE raced \cup {posts[s].request.blob}
      BY Zenon, <1>3, <2>3 DEF BlobOpen
    <3>2. posts'[s].request = posts[s].request
      BY SMTT(30), <2>1, <3>1 DEF Shape, Post
    <3>3. CASE x = s
      BY SMTT(30), <1>3, <2>1, <3>1, <3>2, <3>3
    <3>4. CASE x # s
      BY SMTT(30), <1>3, <2>1, <3>1, <3>4 DEF Working, Shape
    <3> QED
      BY Zenon, <3>3, <3>4
  <2> QED
    BY Zenon, <2>2, <2>3
<1>4. ASSUME NEW s \in limits.slots, BlobOpen(s) PROVE raced \subseteq raced'
  BY Zenon, <1>4 DEF BlobOpen
<1>5. ASSUME NEW s \in limits.slots, BlobRead(s)
      PROVE  /\ UNCHANGED raced
             /\ \/ posts' = [posts EXCEPT ![s] = Idle]
                \/ posts[s] \in Post /\ posts' = [posts EXCEPT ![s].step = "open"]
  BY SMTT(30), <1>0, <1>5 DEF BlobRead, Answer, Working, Shape
<1>6. ASSUME NEW s \in limits.slots, BlobWrite(s) \/ BlobWriteFails(s)
      PROVE  UNCHANGED raced /\ posts' = [posts EXCEPT ![s] = Idle]
  BY Zenon, <1>6 DEF BlobWrite, BlobWriteFails, Answer
<1>7. ASSUME NEW s \in limits.slots, UploadPiece(s)
      PROVE  \/ UNCHANGED <<posts, raced>>
             \/ /\ UNCHANGED raced /\ posts[s] \in Post \cup {Idle}
                /\ \E q : posts' = [posts EXCEPT ![s] = [request |-> q, step |-> "read"]]
  BY ZenonT(60), <1>0, <1>7 DEF UploadPiece, Shape
<1>8. CASE RelayCrash
  BY Zenon, <1>8 DEF RelayCrash, Working
<1>9. ASSUME NEW b \in limits.blobs, NEW total \in limits.sizes, NEW k \in Keys,
             AttachmentStart(b, total, k)
      PROVE  UNCHANGED <<posts, raced>>
  BY Zenon, <1>9 DEF AttachmentStart, Routed, relayVars
<1>10. ASSUME NEW b \in limits.blobs,
             AttachmentAppend(b) \/ AttachmentFinish(b) \/ AttachmentCancel(b)
       PROVE  UNCHANGED <<posts, raced>>
  BY Zenon, <1>10 DEF AttachmentAppend, AttachmentFinish, AttachmentCancel, Routed, relayVars
<1>11. CASE OtherRequest \/ TimePasses \/ Exchange \/ UNCHANGED vars
  <2>1. UNCHANGED <<posts, raced>>
    BY SMTT(30), <1>11 DEF OtherRequest, TimePasses, Exchange, Routed, relayVars, vars
  <2> QED
    BY Zenon, <2>1, <1>1
<1>12. ASSUME NEW s \in limits.slots, NEW b \in limits.blobs, NEW offset \in 0..MaxBlob - 1,
              UploadChunk(s, b, offset)
       PROVE  UNCHANGED <<posts, raced>>
  BY Zenon, <1>12 DEF UploadChunk, relayVars
<1>13. ASSUME NEW s \in limits.slots, NEW op \in {"send", "upload"}, NEW p \in att.completed,
              Begin(s, op, p)
       PROVE  UNCHANGED <<posts, raced>>
  BY Zenon, <1>13 DEF Begin, relayVars
<1>14. ASSUME NEW s \in limits.slots,
              \/ GiveUp(s) \/ UploadCompletedEnd(s) \/ Announce(s) \/ PostEnvelope(s)
              \/ SendEnd(s)
       PROVE  UNCHANGED <<posts, raced>>
  BY SMTT(30), <1>14 DEF GiveUp, UploadCompletedEnd, Announce, PostEnvelope, SendEnd, relayVars
<1>15. ASSUME NEW e \in outbox, TickPosts(e) \/ Receive(e) \/ CancelReceived(e)
       PROVE  UNCHANGED <<posts, raced>>
  BY Zenon, <1>15 DEF TickPosts, Receive, CancelReceived, relayVars
<1>16. ASSUME NEW d \in Daemons, SessionLock(d) \/ Restart(d)
       PROVE  UNCHANGED <<posts, raced>>
  BY Zenon, <1>16 DEF SessionLock, Restart, relayVars
<1>17. CASE \E s \in limits.slots : BlobOpen(s)
  BY ZenonT(60), <1>3, <1>4, <1>17
<1>18. CASE \E s \in limits.slots : \/ BlobRead(s) \/ BlobWrite(s) \/ BlobWriteFails(s)
                                    \/ UploadPiece(s)
  BY Zenon, <1>0, <1>1, <1>2, <1>5, <1>6, <1>7, <1>18
<1> QED
  BY ZenonT(60), <1>1, <1>8, <1>9, <1>10, <1>11, <1>12, <1>13, <1>14, <1>15, <1>16, <1>17, <1>18
     DEF Next

\* A step shortens no file, and changes a byte only by writing a request that
\* is past its length check over it.
LEMMA ByteSteps ==
    ASSUME Shape, OpenFits, [Next]_vars, NEW b \in Blobs
    PROVE  /\ file[b] # NoFile =>
                /\ file[b] \in Seq(Bytes) /\ file'[b] \in Seq(Bytes) /\ file'[b] # NoFile
                /\ Len(file[b]) <= Len(file'[b])
           /\ file'[b] # NoFile => \A i \in 1..Len(file'[b]) :
                \/ file[b] # NoFile /\ i \in 1..Len(file[b]) /\ file'[b][i] = file[b][i]
                \/ \E s \in Slots :
                     /\ Working(s, "write") /\ posts[s].request.blob = b
                     /\ BlobWrite(s) \/ BlobWriteFails(s) \/ RelayCrash
                     /\ i \in posts[s].request.offset + 1 .. End(posts[s].request)
                     /\ file'[b][i] = posts[s].request.key
<1>0. /\ file \in [Blobs -> Seq(Bytes) \cup {NoFile}]
      /\ NoFile \notin Seq(Bytes) /\ \A f \in Seq(Bytes) : Len(f) \in Nat
  BY SMTT(30), AttachmentsAssumption DEF Shape, Bytes
<1>1. CASE file'[b] = file[b]
  BY SMTT(30), <1>0, <1>1
<1>2. ASSUME NEW s \in Slots, BlobOpen(s), posts[s].request.blob \in Blobs,
             file' = [file EXCEPT ![posts[s].request.blob] = Opened(file[posts[s].request.blob])]
      PROVE  file'[b] = file[b] \/ (file[b] = NoFile /\ file'[b] = << >>)
  BY Zenon, <1>0, <1>2 DEF Opened
<1>3. CASE file[b] = NoFile /\ file'[b] = << >>
  BY SMTT(30), <1>0, <1>3
<1>4. ASSUME NEW s \in Slots, NEW n \in 0..posts[s].request.length,
             Working(s, "write"), BlobWrite(s) \/ BlobWriteFails(s) \/ RelayCrash, posts[s].request.blob = b,
             file' = [file EXCEPT ![b] = Written(file[b], posts[s].request, n)]
      PROVE  /\ file[b] \in Seq(Bytes) /\ file'[b] \in Seq(Bytes) /\ file'[b] # NoFile
             /\ Len(file[b]) <= Len(file'[b])
             /\ \A i \in 1..Len(file'[b]) :
                  \/ i \in 1..Len(file[b]) /\ file'[b][i] = file[b][i]
                  \/ /\ i \in posts[s].request.offset + 1 .. End(posts[s].request)
                     /\ file'[b][i] = posts[s].request.key
  <2>1. PICK r : r = posts[s].request
    BY SMTT(30)
  <2>2. posts[s] \in Post
    BY SMTT(30), <1>4 DEF Working, Shape
  <2>3. r.length \in Nat /\ r.offset \in Nat /\ n \in Nat /\ n <= r.length /\ r.blob = b
    BY SMTT(30), <1>4, <2>1, <2>2 DEF Post
  <2>4. PICK g : g = Written(file[b], r, n)
    BY SMTT(30)
  <2>5. /\ file[b] \in Seq(Bytes) /\ g \in Seq(Bytes) /\ g # NoFile
        /\ Len(g) = IF r.offset + n < Len(file[b]) THEN Len(file[b]) ELSE r.offset + n
        /\ \A i \in 1..Len(g) :
             g[i] = IF i \in r.offset + 1 .. r.offset + n THEN r.key ELSE file[b][i]
    <3>1. file[r.blob] \in Seq(Bytes) /\ Spliced(file[r.blob], r, n, Written(file[r.blob], r, n))
      BY Zenon, <1>4, <2>1, <2>3, WriteTypes
    <3>2. Written(file[r.blob], r, n) \in Seq(Bytes) /\ Written(file[r.blob], r, n) # NoFile
      BY Zenon, <1>4, <2>1, <2>3, WriteTypes
    <3>3. Spliced(file[b], r, n, g) /\ file[b] \in Seq(Bytes) /\ g \in Seq(Bytes) /\ g # NoFile
      BY Zenon, <2>3, <2>4, <3>1, <3>2
    <3> QED
      BY Zenon, <3>3 DEF Spliced
  <2>6. file'[b] = g
    BY Zenon, <1>0, <1>4, <2>1, <2>4
  <2>7. Len(file[b]) \in Nat /\ Len(g) \in Nat /\ Len(file[b]) <= Len(g)
    BY SMTT(30), <1>0, <2>3, <2>5
  <2>8. ASSUME NEW i \in 1..Len(g)
        PROVE  \/ i \in 1..Len(file[b]) /\ g[i] = file[b][i]
               \/ i \in r.offset + 1 .. End(r) /\ g[i] = r.key
    <3>1. CASE i \in r.offset + 1 .. r.offset + n
      BY SMTT(30), <2>3, <2>5, <3>1 DEF End
    <3>2. CASE ~(i \in r.offset + 1 .. r.offset + n)
      <4>1. i \in 1..Len(file[b])
        <5>1. r.offset <= Len(file[b])
          BY Zenon, <1>4, <2>1 DEF OpenFits
        <5> QED
          BY SMTT(30), <2>3, <2>5, <2>7, <3>2, <5>1
      <4> QED
        BY Zenon, <4>1, <2>5, <3>2
    <3> QED
      BY Zenon, <3>1, <3>2
  <2> QED
    BY Zenon, <2>1, <2>5, <2>6, <2>7, <2>8
<1>5. ASSUME NEW s \in Slots, NEW n \in 0..posts[s].request.length,
             Working(s, "write"), posts[s].request.blob \in Blobs, posts[s].request.blob # b,
             file' = [file EXCEPT ![posts[s].request.blob] =
                        Written(file[posts[s].request.blob], posts[s].request, n)]
      PROVE  file'[b] = file[b]
  BY Zenon, <1>0, <1>5
<1>6. \/ file'[b] = file[b]
      \/ file[b] = NoFile /\ file'[b] = << >>
      \/ \E s \in Slots : \E n \in 0..posts[s].request.length :
           /\ Working(s, "write") /\ posts[s].request.blob = b
           /\ BlobWrite(s) \/ BlobWriteFails(s) \/ RelayCrash
           /\ file' = [file EXCEPT ![b] = Written(file[b], posts[s].request, n)]
  BY Zenon, <1>2, <1>5, FileSteps
<1>7. CASE \E s \in Slots : \E n \in 0..posts[s].request.length :
           /\ Working(s, "write") /\ posts[s].request.blob = b
           /\ BlobWrite(s) \/ BlobWriteFails(s) \/ RelayCrash
           /\ file' = [file EXCEPT ![b] = Written(file[b], posts[s].request, n)]
  BY ZenonT(60), <1>0, <1>4, <1>7
<1> QED
  BY Zenon, <1>1, <1>3, <1>6, <1>7

\* The length check holds until the request writes: files only grow.
LEMMA OpenFitsStep ==
    ASSUME Shape, OpenFits, [Next]_vars
    PROVE  OpenFits'
<1> SUFFICES ASSUME NEW x \in Slots, Working(x, "write")',
                    NEW r, r = posts'[x].request
             PROVE  file'[r.blob] # NoFile /\ r.offset <= Len(file'[r.blob])
  BY Zenon DEF OpenFits
<1>1. CASE Working(x, "write") /\ posts'[x] = posts[x]
  <2>1. r.blob \in Blobs /\ r.offset \in Nat
    BY Zenon, <1>1 DEF Working, Shape, Post
  <2>2. file[r.blob] # NoFile /\ r.offset <= Len(file[r.blob])
    BY Zenon, <1>1 DEF OpenFits
  <2>3. /\ file[r.blob] \in Seq(Bytes) /\ file'[r.blob] \in Seq(Bytes)
        /\ file'[r.blob] # NoFile /\ Len(file[r.blob]) <= Len(file'[r.blob])
    BY Zenon, <2>1, <2>2, ByteSteps
  <2>4. Len(file[r.blob]) \in Nat /\ Len(file'[r.blob]) \in Nat
    BY SMTT(30), <2>3
  <2> QED
    BY SMTT(30), <2>1, <2>2, <2>3, <2>4
<1>2. CASE /\ BlobOpen(x) /\ posts[x] \in Post /\ posts[x].request = r
           /\ Len(Opened(file[r.blob])) = r.offset
  <2>1. r.blob \in Blobs /\ r.offset \in Nat
    BY Zenon, <1>2 DEF Post
  <2>2. file' = [file EXCEPT ![r.blob] = Opened(file[r.blob])]
    BY SMTT(30), <1>2 DEF BlobOpen
  <2>3. file'[r.blob] = Opened(file[r.blob])
    BY Zenon, <2>1, <2>2 DEF Shape
  <2>4. Opened(file[r.blob]) # NoFile
    <3>1. << >> \in Seq(Bytes)
      BY SMTT(30)
    <3> QED
      BY Zenon, <3>1, AttachmentsAssumption DEF Opened, Bytes
  <2> QED
    BY SMTT(30), <1>2, <2>1, <2>3, <2>4
<1> QED
  BY Zenon, <1>1, <1>2, WriteSteps

\* A byte of a blob without a race stays as it is.
LEMMA BytesStay ==
    ASSUME Shape, OpenFits, WritesAgree, [Next]_vars,
           NEW b \in Blobs \ raced, file[b] # NoFile
    PROVE  \A i \in 1..Len(file[b]) : file'[b][i] = file[b][i]
<1> SUFFICES ASSUME NEW i \in 1..Len(file[b]) PROVE file'[b][i] = file[b][i]
  BY SMTT(30)
<1>1. /\ file'[b] # NoFile /\ Len(file[b]) <= Len(file'[b])
      /\ file[b] \in Seq(Bytes) /\ file'[b] \in Seq(Bytes)
  BY Zenon, ByteSteps
<1>2. i \in 1..Len(file'[b])
  BY SMTT(30), <1>1
<1>3. \/ file'[b][i] = file[b][i]
      \/ \E s \in Slots :
           /\ Working(s, "write") /\ posts[s].request.blob = b
           /\ i \in posts[s].request.offset + 1 .. End(posts[s].request)
           /\ file'[b][i] = posts[s].request.key
  BY SMTT(30), <1>1, <1>2, ByteSteps
<1> QED
  BY Zenon, <1>3 DEF WritesAgree

\* Requests past the length check still agree after a step: one that meets
\* different bytes makes its blob raced.
LEMMA WritesAgreeStep ==
    ASSUME Shape, OpenFits, WritesAgree, [Next]_vars
    PROVE  WritesAgree'
<1>0. /\ raced \subseteq raced'
      /\ \A x \in Slots : Working(x, "write")' =>
           \/ Working(x, "write") /\ posts'[x] = posts[x]
           \/ LET r == posts[x].request IN
              /\ BlobOpen(x) /\ posts[x] \in Post /\ posts'[x].request = r
              /\ Len(Opened(file[r.blob])) = r.offset
              /\ raced' = IF Rivals(x, r) = {} THEN raced ELSE raced \cup {r.blob}
  BY ZenonT(60), WriteSteps
<1>1. ASSUME NEW x \in Slots, NEW y \in Slots, x # y,
             Working(x, "write")', Working(y, "write")',
             posts'[x].request.blob = posts'[y].request.blob,
             posts'[x].request.blob \notin raced', BlobOpen(x)
      PROVE  posts'[x].request.key = posts'[y].request.key
  <2>1. posts'[y] = posts[y]
    BY SMTT(30), <1>1 DEF BlobOpen, Answer, Shape
  <2>2. Working(y, "write")
    BY Zenon, <1>1, <2>1 DEF Working
  <2>3. ~(Working(x, "write") /\ posts'[x] = posts[x])
    BY SMTT(30), <1>1 DEF BlobOpen, Working
  <2>4. /\ posts'[x].request = posts[x].request
        /\ raced' = IF Rivals(x, posts[x].request) = {} THEN raced
                    ELSE raced \cup {posts[x].request.blob}
    BY Zenon, <1>0, <1>1, <2>3
  <2>5. y \notin Rivals(x, posts[x].request)
    BY Zenon, <1>1, <2>4
  <2> QED
    BY Zenon, <1>1, <2>1, <2>2, <2>4, <2>5 DEF Rivals
<1>2. ASSUME NEW x \in Slots, NEW y \in Slots,
             Working(x, "write")', Working(y, "write")',
             posts'[x].request.blob = posts'[y].request.blob,
             posts'[x].request.blob \notin raced'
      PROVE  posts'[x].request.key = posts'[y].request.key
  <2>1. CASE BlobOpen(x) \/ BlobOpen(y)
    BY SMTT(30), <1>1, <1>2, <2>1
  <2>2. CASE ~BlobOpen(x) /\ ~BlobOpen(y)
    <3>1. /\ Working(x, "write") /\ posts'[x] = posts[x]
          /\ Working(y, "write") /\ posts'[y] = posts[y]
      BY Zenon, <1>0, <1>2, <2>2
    <3>2. posts[x].request.blob \notin raced /\ posts[x].request.blob = posts[y].request.blob
      BY Zenon, <1>0, <1>2, <3>1
    <3> QED
      BY Zenon, <3>1, <3>2 DEF WritesAgree
  <2> QED
    BY <2>1, <2>2
<1>3. ASSUME NEW x \in Slots, Working(x, "write"), posts'[x] = posts[x],
             NEW r, r = posts[x].request, r.blob \notin raced,
             NEW i \in 1..Len(file'[r.blob]), i \in r.offset + 1 .. End(r)
      PROVE  file'[r.blob][i] = r.key
  <2>1. r.blob \in Blobs /\ file[r.blob] # NoFile
    BY Zenon, <1>3 DEF Working, Shape, Post, OpenFits
  <2>2. file'[r.blob] # NoFile
    BY ZenonT(60), <2>1, ByteSteps
  <2>3. \/ i \in 1..Len(file[r.blob]) /\ file'[r.blob][i] = file[r.blob][i]
        \/ \E s \in Slots : /\ Working(s, "write") /\ posts[s].request.blob = r.blob
                            /\ file'[r.blob][i] = posts[s].request.key
    BY ZenonT(60), <1>3, <2>1, <2>2, ByteSteps
  <2> QED
    BY Zenon, <1>3, <2>3 DEF WritesAgree
<1>4. ASSUME NEW x \in Slots, BlobOpen(x), posts[x] \in Post,
             NEW r, r = posts[x].request, Len(Opened(file[r.blob])) = r.offset,
             NEW i \in 1..Len(file'[r.blob]), i \in r.offset + 1 .. End(r)
      PROVE  FALSE
  <2>1. r.blob \in Blobs /\ r.offset \in Nat
    BY Zenon, <1>4 DEF Post
  <2>2. file'[r.blob] = Opened(file[r.blob])
    BY SMTT(30), <1>4, <2>1 DEF BlobOpen, Shape
  <2> QED
    BY <1>4, <2>1, <2>2
<1>5. ASSUME NEW x \in Slots, Working(x, "write")',
             posts'[x].request.blob \notin raced',
             NEW i \in 1..Len(file'[posts'[x].request.blob]),
             i \in posts'[x].request.offset + 1 .. End(posts'[x].request)
      PROVE  file'[posts'[x].request.blob][i] = posts'[x].request.key
  <2>1. PICK r : r = posts'[x].request
    BY SMTT(30)
  <2>2. /\ r.blob \notin raced /\ i \in 1..Len(file'[r.blob])
        /\ i \in r.offset + 1 .. End(r)
    BY Zenon, <1>0, <1>5, <2>1
  <2>3. CASE Working(x, "write") /\ posts'[x] = posts[x]
    BY Zenon, <1>3, <2>1, <2>2, <2>3
  <2>4. CASE ~(Working(x, "write") /\ posts'[x] = posts[x])
    BY Zenon, <1>0, <1>4, <1>5, <2>1, <2>2, <2>4
  <2> QED
    BY Zenon, <2>1, <2>3, <2>4
<1> QED
  BY Zenon, <1>2, <1>5 DEF WritesAgree, End

\* Requests, files and the length checks agree in every behaviour of
\* Attachments.
THEOREM WritesSafe == Spec => [](Shape /\ Counted /\ OpenFits /\ WritesAgree)
<1>1. Init => Shape /\ Counted /\ OpenFits /\ WritesAgree
  <2> SUFFICES ASSUME Init PROVE Shape /\ Counted /\ OpenFits /\ WritesAgree
    BY SMTT(30)
  <2>1. att \in State /\ OnePerBlob(att)
    BY Zenon DEF Init, NoAttachments, State, Ages, OnePerBlob
  <2>2. Counted
    BY SMTT(30) DEF Init, Counted
  <2>3. Shape
    BY Zenon, <2>1 DEF Init, Shape
  <2>4. OpenFits /\ WritesAgree
    BY Zenon DEF Init, OpenFits, WritesAgree, Working
  <2> QED
    BY Zenon, <2>2, <2>3, <2>4
<1>2. Shape /\ Counted /\ OpenFits /\ WritesAgree /\ [Next]_vars
        => (Shape /\ Counted /\ OpenFits /\ WritesAgree)'
  BY Zenon, ShapeStep, CountedStep, OpenFitsStep, WritesAgreeStep
<1> QED
  BY <1>1, <1>2, PTL DEF Spec

\* "conflicting bytes are rejected and never overwritten" (blob_impl of
\* apps/relay/src/main.rs), for any number of uploads, retries and crashes: the
\* bytes of a blob stay, unless two requests with different bytes both passed the
\* length check before one of them wrote.
THEOREM BlobBytesStay == Spec => WrittenBytesStay
<1>1. Shape /\ OpenFits /\ WritesAgree /\ [Next]_vars
        => [\A b \in Blobs : b \notin raced /\ file[b] # NoFile =>
              \A i \in 1..Len(file[b]) : i <= Len(file'[b]) /\ file'[b][i] = file[b][i]]_vars
  <2> SUFFICES ASSUME Shape, OpenFits, WritesAgree, [Next]_vars,
                      NEW b \in Blobs, b \notin raced, file[b] # NoFile,
                      NEW i \in 1..Len(file[b])
               PROVE  i <= Len(file'[b]) /\ file'[b][i] = file[b][i]
    BY Zenon 
  <2>1. /\ file[b] \in Seq(Bytes) /\ file'[b] \in Seq(Bytes)
        /\ Len(file[b]) <= Len(file'[b])
    BY Zenon, ByteSteps
  <2>2. \A n \in 1..Len(file[b]) : file'[b][n] = file[b][n]
    BY Zenon, BytesStay
  <2> QED
    BY SMTT(30), <2>1, <2>2
<1> QED
  BY <1>1, WritesSafe, PTL DEF Spec, WrittenBytesStay

-----------------------------------------------------------------------------
\* The receiver and the packages of the sender

\* What the receiver holds in memory is in its store after every step, also
\* after a failed batch, for any number of announcements.
THEOREM ReceivedStored == Spec => []ReceivedOutlivesRestart
<1>1. Init => ReceivedOutlivesRestart
  BY SMTT(30) DEF Init, ReceivedOutlivesRestart
<1>2. ReceivedOutlivesRestart /\ [Next]_vars => ReceivedOutlivesRestart'
  <2> SUFFICES ASSUME received \subseteq stored, [Next]_vars PROVE received' \subseteq stored'
    BY SMTT(30) DEF ReceivedOutlivesRestart
  <2>1. ASSUME NEW e \in outbox, Receive(e) PROVE received' \subseteq stored'
    BY Zenon, <2>1 DEF Receive, StageFailed
  <2>2. ASSUME NEW e \in outbox, CancelReceived(e) PROVE received' \subseteq stored'
    BY SMTT(30), <2>2 DEF CancelReceived
  <2>3. CASE Exchange
    BY SMTT(30), <2>3 DEF Exchange
  <2>4. ASSUME NEW d \in Daemons, SessionLock(d) \/ Restart(d)
        PROVE  received' \subseteq stored'
    BY Zenon, <2>4 DEF SessionLock, Restart
  <2>5. ASSUME UNCHANGED receiverVars PROVE received' \subseteq stored'
    BY SMTT(30), <2>5 DEF receiverVars
  <2>6. ASSUME NEW b \in limits.blobs, NEW total \in limits.sizes, NEW k \in Keys,
               AttachmentStart(b, total, k)
        PROVE  UNCHANGED receiverVars
    BY Zenon, <2>6 DEF AttachmentStart, Routed
  <2>7. ASSUME NEW b \in limits.blobs,
               AttachmentAppend(b) \/ AttachmentFinish(b) \/ AttachmentCancel(b)
        PROVE  UNCHANGED receiverVars
    BY ZenonT(60), <2>7 DEF AttachmentAppend, AttachmentFinish, AttachmentCancel, Routed
  <2>8. ASSUME NEW b \in limits.blobs, NEW s \in limits.slots, NEW offset \in 0..MaxBlob - 1,
               UploadChunk(s, b, offset)
        PROVE  UNCHANGED receiverVars
    BY Zenon, <2>8 DEF UploadChunk
  <2>9. CASE OtherRequest \/ TimePasses \/ RelayCrash \/ UNCHANGED vars
    <3>1. UNCHANGED receiverVars
      BY SMTT(30), <2>9 DEF OtherRequest, TimePasses, RelayCrash, Routed, vars
    <3> QED
      BY SMTT(30), <3>1, <2>5
  <2>10. ASSUME NEW s \in limits.slots, NEW op \in {"send", "upload"}, NEW p \in att.completed,
                Begin(s, op, p)
         PROVE  UNCHANGED receiverVars
    BY Zenon, <2>10 DEF Begin
  <2>11. ASSUME NEW s \in limits.slots, UploadPiece(s) \/ GiveUp(s)
         PROVE  UNCHANGED receiverVars
    BY SMTT(30), <2>11 DEF UploadPiece, GiveUp
  <2>12. ASSUME NEW s \in limits.slots,
                BlobRead(s) \/ BlobOpen(s) \/ BlobWrite(s) \/ BlobWriteFails(s)
         PROVE  UNCHANGED receiverVars
    BY ZenonT(60), <2>12 DEF BlobRead, BlobOpen, BlobWrite, BlobWriteFails
  <2>13. ASSUME NEW s \in limits.slots,
                UploadCompletedEnd(s) \/ Announce(s) \/ PostEnvelope(s) \/ SendEnd(s)
         PROVE  UNCHANGED receiverVars
    BY SMTT(30), <2>13 DEF UploadCompletedEnd, Announce, PostEnvelope, SendEnd
  <2>14. ASSUME NEW e \in outbox, TickPosts(e) PROVE UNCHANGED receiverVars
    BY SMTT(30), <2>14 DEF TickPosts
  <2> QED
    BY Zenon, <2>1, <2>2, <2>3, <2>4, <2>5, <2>6, <2>7, <2>8, <2>9, <2>10, <2>11, <2>12, <2>13, <2>14
       DEF Next
<1> QED
  BY <1>1, <1>2, PTL DEF Spec

\* A send or upload that ends late gives up no package but the one it uploaded,
\* for any number of tasks and packages: completed_attachments holds one package
\* per identifier, and the handler compares before it takes.
THEOREM NewerSurvives == Spec => NewerPackageSurvivesOldTask
<1>1. Shape => [\A s \in Slots : \A p \in att.completed :
                  (SendEnd(s) \/ UploadCompletedEnd(s)) /\ p \notin att'.completed
                     => p = tasks[s].package]_vars
  <2> SUFFICES ASSUME Shape, NEW s \in Slots, NEW p \in att.completed,
                      SendEnd(s) \/ UploadCompletedEnd(s), p \notin att'.completed
               PROVE  p = tasks[s].package
    BY Zenon 
  <2>1. att' = TakeCompletedIfEqual(att, tasks[s].package)
    BY Zenon DEF SendEnd, UploadCompletedEnd
  <2> QED
    BY SMTT(30), <2>1 DEF TakeCompletedIfEqual, TakeCompleted, Without, Shape, OnePerBlob, State
<1> QED
  BY <1>1, WritesSafe, PTL DEF Spec, NewerPackageSurvivesOldTask

-----------------------------------------------------------------------------
\* What a task has seen accepted has arrived at the relay

\* The first n bytes of file f were encrypted under k.
Holds(f, n, k) ==
    n = 0 \/ (f # NoFile /\ n <= Len(f) /\ \A i \in 1..n : f[i] = k)

\* A task that waits for an answer waits for the one to its piece.
Waits(s) ==
    tasks[s].stage = "posted" => posts[s] # Idle /\ posts[s].request = Piece(tasks[s])

\* How much of its package a task has seen accepted.
Arrived(t) ==
    IF t.stage \in {"upload", "posted"} THEN t.offset ELSE BlobSize(t.package.total)

\* The relay has what a task has seen accepted, and the whole of what is
\* announced.
UploadsArrive ==
    /\ \A s \in Slots : tasks[s] # Idle /\ tasks[s].op # "chunk" =>
         LET p == tasks[s].package IN
         Waits(s) /\ (p.blob \notin raced => Holds(file[p.blob], Arrived(tasks[s]), p.key))
    /\ \A e \in outbox : e.package.blob \notin raced =>
         Holds(file[e.package.blob], BlobSize(e.package.total), e.package.key)

-----------------------------------------------------------------------------
\* What the relay holds of a blob without a race it goes on holding.
LEMMA HoldsOn ==
    ASSUME Shape, OpenFits, WritesAgree, [Next]_vars,
           NEW b \in Blobs \ raced, NEW n \in Nat, NEW k, Holds(file[b], n, k)
    PROVE  Holds(file'[b], n, k)
<1>1. CASE n = 0
  BY SMTT(30), <1>1 DEF Holds
<1>2. CASE n # 0
  <2>1. file[b] # NoFile /\ n <= Len(file[b]) /\ \A i \in 1..n : file[b][i] = k
    BY SMTT(30), <1>2 DEF Holds
  <2>2. /\ file[b] \in Seq(Bytes) /\ file'[b] \in Seq(Bytes) /\ file'[b] # NoFile
        /\ Len(file[b]) <= Len(file'[b])
    BY SMTT(30), <2>1, ByteSteps
  <2>3. Len(file[b]) \in Nat /\ Len(file'[b]) \in Nat
    BY SMTT(30), <2>2
  <2>4. \A i \in 1..Len(file[b]) : file'[b][i] = file[b][i]
    BY SMTT(30), <2>1, BytesStay
  <2> QED
    BY SMTT(30), <2>1, <2>2, <2>3, <2>4 DEF Holds
<1> QED
  BY SMTT(30), <1>1, <1>2

\* A range the relay calls a duplicate is there.
LEMMA DuplicateIsThere ==
    ASSUME NEW f \in Seq(Bytes) \cup {NoFile}, NEW r, Verdict(f, r) = "duplicate",
           r.offset \in Nat, r.length \in Nat, r.key \in Bytes,
           Holds(f, r.offset, r.key)
    PROVE  Holds(f, End(r), r.key)
<1>1. f # NoFile /\ End(r) <= Len(f) /\ SubSeq(f, r.offset + 1, End(r)) = Body(r)
  BY DEF Verdict
<1>2. f \in Seq(Bytes) /\ Len(f) \in Nat /\ End(r) \in Nat /\ End(r) = r.offset + r.length
  BY SMTT(30), <1>1 DEF End
<1>3. \A i \in 1..Len(f) : f[i] \in Bytes
  BY SMTT(30), <1>2
<1>4. ASSUME NEW i \in 1..End(r) PROVE f[i] = r.key
  <2>1. CASE i <= r.offset
    BY SMTT(30), <1>2, <2>1 DEF Holds
  <2>2. CASE ~(i <= r.offset)
    <3>1. PICK m \in Nat, n \in Nat : m = r.offset + 1 /\ n = End(r)
      BY SMTT(30), <1>2
    <3>2. 1 <= m /\ m <= n /\ n <= Len(f)
      <4>1. End(r) <= Len(f) /\ Len(f) \in Nat
        BY SMTT(30), <1>1, <1>2
      <4> QED
        BY SMTT(30), <1>2, <2>2, <3>1, <4>1
    <3>3. /\ SubSeq(f, m, n) \in Seq(Bytes)
          /\ \A j \in 1..n - m + 1 : SubSeq(f, m, n)[j] = f[m + j - 1]
      <4>1. \A j \in m..n : f[j] \in Bytes
        BY SMTT(30), <1>2, <1>3, <3>2
      <4> QED
        BY SMTT(30), <4>1
    <3>4. /\ i - r.offset \in 1..n - m + 1 /\ m + (i - r.offset) - 1 = i
          /\ i - r.offset \in 1..r.length
      <4>1. i \in Int /\ i >= 1 /\ i <= End(r) /\ i > r.offset
        BY SMTT(30), <1>2, <2>2
      <4>2. PICK o \in Nat, l \in Nat : o = r.offset /\ l = r.length
        OBVIOUS
      <4>3. m = o + 1 /\ n = o + l /\ i <= o + l /\ i > o
        BY SMTT(30), <1>2, <3>1, <4>1, <4>2
      <4>4. i - o \in 1..n - m + 1 /\ m + (i - o) - 1 = i /\ i - o \in 1..l
        BY SMTT(30), <4>1, <4>3
      <4> QED
        BY SMTT(30), <4>2, <4>4
    <3>5. SubSeq(f, m, n)[i - r.offset] = f[i]
      BY Zenon, <3>3, <3>4
    <3>6. Body(r)[i - r.offset] = r.key
      BY ZenonT(60), <3>4, BodyBytes
    <3> QED
      BY ZenonT(60), <1>1, <3>1, <3>5, <3>6
  <2> QED
    BY SMTT(30), <1>2, <2>1, <2>2
<1> QED
  BY SMTT(30), <1>1, <1>4 DEF Holds

\* A range the relay has written is there.
LEMMA WrittenIsThere ==
    ASSUME Shape, OpenFits, WritesAgree, [Next]_vars, NEW s \in Slots, BlobWrite(s),
           NEW r, r = posts[s].request, r.blob \notin raced,
           Holds(file[r.blob], r.offset, r.key)
    PROVE  Holds(file'[r.blob], End(r), r.key)
<1>1. Working(s, "write") /\ posts[s] \in Post
  BY SMTT(30) DEF BlobWrite, Working, Shape
<1>2. /\ r.blob \in Blobs /\ r.offset \in Nat /\ r.length \in Nat /\ r.key \in Bytes
      /\ End(r) = r.offset + r.length
  BY Zenon, <1>1 DEF Post, Bytes, End
<1>3. PICK f, g : f = file[r.blob] /\ g = Written(f, r, r.length)
  BY SMTT(30)
<1>4. /\ f \in Seq(Bytes) /\ g \in Seq(Bytes) /\ g # NoFile
      /\ Len(g) = IF r.offset + r.length < Len(f) THEN Len(f) ELSE r.offset + r.length
      /\ \A i \in 1..Len(g) :
           g[i] = IF i \in r.offset + 1 .. r.offset + r.length THEN r.key ELSE f[i]
  <2>1. r.length <= r.length
    BY SMTT(30), <1>2
  <2>2. f \in Seq(Bytes) /\ g \in Seq(Bytes) /\ g # NoFile /\ Spliced(f, r, r.length, g)
    BY Zenon, <1>1, <1>2, <1>3, <2>1, WriteTypes
  <2> QED
    BY Zenon, <2>2 DEF Spliced
<1>5. file'[r.blob] = g
  BY ZenonT(60), <1>2, <1>3 DEF BlobWrite, Shape
<1>6. Len(f) \in Nat /\ Len(g) \in Nat
  BY SMTT(30), <1>4
<1>7. \A i \in 1..r.offset : f[i] = r.key
  BY SMTT(30), <1>2, <1>3 DEF Holds
<1>8. ASSUME NEW i \in 1..End(r) PROVE g[i] = r.key
  <2>1. i \in 1..Len(g)
    BY SMTT(30), <1>2, <1>4, <1>6
  <2>2. CASE i <= r.offset
    BY SMTT(30), <1>2, <1>4, <1>7, <2>1, <2>2
  <2>3. CASE ~(i <= r.offset)
    BY SMTT(30), <1>2, <1>4, <2>1, <2>3
  <2> QED
    BY ZenonT(60), <1>2, <2>2, <2>3
<1>9. End(r) <= Len(g)
  BY SMTT(30), <1>2, <1>4, <1>6
<1> QED
  BY Zenon, <1>4, <1>5, <1>8, <1>9 DEF Holds

\* Nothing was accepted of an upload in this step.
Stays(x) ==
    /\ tasks'[x] = tasks[x]
    /\ tasks[x].stage = "posted" =>
         \/ posts'[x] = posts[x]
         \/ posts[x] # Idle /\ posts'[x] # Idle /\ posts'[x].request = posts[x].request

Posted(x) ==
    /\ tasks[x] # Idle /\ tasks[x].stage = "upload"
    /\ tasks'[x] = [tasks[x] EXCEPT !.stage = "posted"]
    /\ posts'[x] # Idle /\ posts'[x].request = Piece(tasks[x])

Moves(x) ==
    /\ tasks[x] # Idle /\ tasks[x].stage = "posted" /\ tasks'[x] = Advanced(tasks[x])
    /\ \/ BlobWrite(x)
       \/ /\ UNCHANGED file
          /\ Verdict(file[posts[x].request.blob], posts[x].request) = "duplicate"

Announces(x) ==
    /\ tasks[x] # Idle /\ tasks[x].stage \in {"announce", "post"}
    /\ tasks'[x].stage \in {"post", "accepted"}
    /\ tasks'[x].package = tasks[x].package /\ tasks'[x].op = tasks[x].op

\* The ways a task gets where it is.
LEMMA TaskSteps ==
    ASSUME Shape, [Next]_vars, NEW x \in Slots, tasks'[x] # Idle
    PROVE  \/ Stays(x) \/ Posted(x) \/ Moves(x) \/ Announces(x)
           \/ tasks'[x].stage = "upload" /\ tasks'[x].offset = 0
           \/ tasks'[x].op = "chunk"
<1>0. limits.slots \subseteq Slots
  BY Zenon, AttachmentsAssumption DEF Shape
<1>1. CASE UNCHANGED <<tasks, posts>>
  BY Zenon, <1>1 DEF Stays
<1>2. ASSUME NEW s \in Slots, NEW accepted \in BOOLEAN, NEW n, Answer(s, accepted, n),
             accepted => \/ BlobWrite(s)
                         \/ /\ UNCHANGED file
                            /\ Verdict(file[posts[s].request.blob], posts[s].request) = "duplicate"
      PROVE  Stays(x) \/ Moves(x)
  <2>1. CASE x = s
    BY Zenon, <1>2, <2>1, AnswerTypes DEF Stays, Moves
  <2>2. CASE x # s
    <3>1. x \in Slots \ {s}
      BY SMTT(30), <2>2
    <3> QED
      BY Zenon, <1>2, <3>1, AnswerTypes DEF Stays
  <2> QED
    BY SMTT(30), <2>1, <2>2
<1>3. ASSUME NEW s \in Slots, NEW t, tasks' = [tasks EXCEPT ![s] = t], UNCHANGED posts, x # s
      PROVE  Stays(x)
  BY SMTT(30), <1>3 DEF Stays, Shape
<1>4. ASSUME NEW s \in limits.slots, NEW op \in {"send", "upload"}, NEW p \in att.completed,
             Begin(s, op, p)
      PROVE  Stays(x) \/ (tasks'[x].stage = "upload" /\ tasks'[x].offset = 0)
  <2>1. PICK t : /\ t = [op |-> op, package |-> p, offset |-> 0, stage |-> "upload",
                         envelope |-> Idle]
                 /\ tasks' = [tasks EXCEPT ![s] = t] /\ UNCHANGED posts
    BY Zenon, <1>4 DEF Begin, Become, relayVars
  <2>2. CASE x = s
    BY SMTT(30), <2>1, <2>2 DEF Shape
  <2>3. CASE x # s
    <3>1. tasks'[x] = tasks[x] /\ posts'[x] = posts[x]
      BY SMTT(30), <1>0, <2>1, <2>3 DEF Shape
    <3> QED
      BY SMTT(30), <3>1 DEF Stays
  <2> QED
    BY Zenon, <2>2, <2>3
<1>5. ASSUME NEW s \in limits.slots, NEW b \in limits.blobs, NEW offset \in 0..MaxBlob - 1,
             UploadChunk(s, b, offset)
      PROVE  Stays(x) \/ tasks'[x].op = "chunk"
  BY Zenon, <1>0, <1>3, <1>5 DEF UploadChunk, Become, relayVars, Shape
<1>6. ASSUME NEW s \in limits.slots, UploadPiece(s) PROVE Stays(x) \/ Posted(x)
  <2>1. s \in Slots /\ tasks[s] \in Task /\ TaskFits(tasks[s])
    BY SMTT(30), <1>0, <1>6 DEF UploadPiece, Shape
  <2>2. CASE InBounds(Piece(tasks[s]))
    <3>1. /\ posts' = [posts EXCEPT ![s] = [request |-> Piece(tasks[s]), step |-> "read"]]
          /\ tasks' = [tasks EXCEPT ![s] = [tasks[s] EXCEPT !.stage = "posted"]]
      BY SMTT(30), <1>6, <2>2 DEF UploadPiece, Become
    <3>2. CASE x # s
      BY SMTT(30), <3>1, <3>2 DEF Stays, Shape
    <3>3. CASE x = s
      <4>1. [request |-> Piece(tasks[s]), step |-> "read"] \in Post
        BY Zenon, <2>1, <2>2, PieceTypes
      <4>2. /\ posts'[x] = [request |-> Piece(tasks[x]), step |-> "read"]
            /\ tasks'[x] = [tasks[x] EXCEPT !.stage = "posted"]
        BY SMTT(30), <2>1, <3>1, <3>3 DEF Shape
      <4>3. posts'[x] # Idle
        BY SMTT(30), <4>2, IdleAssumption, <4>1, <3>3
      <4> QED
        BY SMTT(30), <1>6, <3>3, <4>2, <4>3 DEF Posted, UploadPiece
    <3> QED
      BY SMTT(30), <3>2, <3>3
  <2>3. CASE ~InBounds(Piece(tasks[s]))
    BY SMTT(30), <1>3, <1>6, <2>1, <2>3 DEF UploadPiece, Become, Shape
  <2> QED
    BY SMTT(30), <2>2, <2>3
<1>7. ASSUME NEW s \in limits.slots, GiveUp(s) PROVE Stays(x)
  BY ZenonT(60), <1>0, <1>3, <1>7 DEF GiveUp, Become, relayVars, Shape
<1>8. ASSUME NEW s \in limits.slots, BlobRead(s) PROVE Stays(x) \/ Moves(x)
  <2>1. s \in Slots /\ posts[s] \in Post
    BY SMTT(30), <1>0, <1>8 DEF BlobRead, Working, Shape
  <2>2. CASE posts' = [posts EXCEPT ![s].step = "open"] /\ UNCHANGED tasks
    <3>1. posts'[s] = [posts[s] EXCEPT !.step = "open"]
      BY SMTT(30), <2>1, <2>2 DEF Shape
    <3>2. posts'[s] \in Post /\ posts'[s].request = posts[s].request
      BY SMTT(30), <2>1, <3>1 DEF Post
    <3>3. posts'[s] # Idle /\ posts[s] # Idle
      BY SMTT(30), <2>1, <3>2, IdleAssumption
    <3> QED
      BY SMTT(30), <2>1, <2>2, <3>2, <3>3 DEF Stays, Shape
  <2>3. CASE ~(posts' = [posts EXCEPT ![s].step = "open"] /\ UNCHANGED tasks)
    <3>1. PICK v, n : /\ v = Verdict(file[posts[s].request.blob], posts[s].request)
                      /\ Answer(s, v = "duplicate", n) /\ UNCHANGED file
      BY SMTT(30), <1>8, <2>3 DEF BlobRead
    <3>2. (v = "duplicate") \in BOOLEAN
      OBVIOUS
    <3> QED
      BY ZenonT(60), <1>2, <2>1, <3>1, <3>2
  <2> QED
    BY SMTT(30), <2>2, <2>3
<1>9. ASSUME NEW s \in limits.slots, BlobOpen(s) PROVE Stays(x) \/ Moves(x)
  <2>1. s \in Slots /\ posts[s] \in Post
    BY SMTT(30), <1>0, <1>9 DEF BlobOpen, Working, Shape
  <2>2. CASE posts' = [posts EXCEPT ![s].step = "write"] /\ UNCHANGED tasks
    <3>1. posts'[s] = [posts[s] EXCEPT !.step = "write"]
      BY SMTT(30), <2>1, <2>2 DEF Shape
    <3>2. posts'[s] \in Post /\ posts'[s].request = posts[s].request
      BY SMTT(30), <2>1, <3>1 DEF Post
    <3>3. posts'[s] # Idle /\ posts[s] # Idle
      BY <2>1, <3>2, IdleAssumption
    <3> QED
      BY SMTT(30), <2>1, <2>2, <3>2, <3>3 DEF Stays, Shape
  <2>3. CASE Answer(s, FALSE, 0)
    BY ZenonT(60), <1>2, <2>1, <2>3
  <2> QED
    BY ZenonT(60), <1>9, <2>2, <2>3 DEF BlobOpen
<1>10. ASSUME NEW s \in limits.slots, BlobWrite(s) \/ BlobWriteFails(s)
       PROVE  Stays(x) \/ Moves(x)
  <2>1. PICK a \in BOOLEAN : (\E n : Answer(s, a, n)) /\ (a => BlobWrite(s))
    BY Zenon, <1>10 DEF BlobWrite, BlobWriteFails
  <2> QED
    BY Zenon, <1>0, <1>2, <1>10, <2>1
<1>11. CASE RelayCrash
  BY Zenon, <1>11 DEF RelayCrash, Stays
<1>12. ASSUME NEW s \in limits.slots, UploadCompletedEnd(s) \/ SendEnd(s) PROVE Stays(x)
  <2>1. tasks' = [tasks EXCEPT ![s] = Idle] /\ UNCHANGED posts
    BY Zenon, <1>12 DEF UploadCompletedEnd, SendEnd, Become, relayVars
  <2> QED
    BY ZenonT(60), <1>0, <1>3, <2>1 DEF Shape
<1>13. ASSUME NEW s \in limits.slots, Announce(s) \/ PostEnvelope(s)
       PROVE  Stays(x) \/ Announces(x)
  <2>1. /\ s \in Slots /\ tasks[s] # Idle /\ tasks[s] \in Task
        /\ tasks[s].stage \in {"announce", "post"} /\ UNCHANGED posts
    BY SMTT(30), <1>0, <1>13 DEF Announce, PostEnvelope, AtStage, relayVars, Shape
  <2>2. PICK t : /\ tasks' = [tasks EXCEPT ![s] = t]
                 /\ t = Idle \/ /\ t.stage \in {"post", "accepted"}
                                /\ t.package = tasks[s].package /\ t.op = tasks[s].op
    <3>1. CASE \E e : tasks' = [tasks EXCEPT ![s] = [tasks[s] EXCEPT !.stage = "post", !.envelope = e]]
      BY ZenonT(60), <2>1, <3>1 DEF Task
    <3>2. CASE tasks' = [tasks EXCEPT ![s] = [tasks[s] EXCEPT !.stage = "accepted"]]
      <4>1. PICK t : t = [tasks[s] EXCEPT !.stage = "accepted"]
        BY Zenon
      <4>2. t.stage = "accepted" /\ t.package = tasks[s].package /\ t.op = tasks[s].op
        BY <2>1, <4>1 DEF Task
      <4> QED
        BY Zenon, <3>2, <4>1, <4>2
    <3>3. CASE tasks' = [tasks EXCEPT ![s] = Idle]
      BY Zenon, <3>3
    <3> QED
      BY ZenonT(60), <1>13, <3>1, <3>2, <3>3 DEF Announce, PostEnvelope, Become
  <2>3. CASE x = s
    BY Zenon, <2>1, <2>2, <2>3 DEF Announces, Shape
  <2> QED
    BY ZenonT(60), <1>3, <2>1, <2>2, <2>3
<1>14. ASSUME NEW e \in outbox, TickPosts(e) \/ Receive(e) \/ CancelReceived(e)
       PROVE  UNCHANGED <<tasks, posts>>
  BY ZenonT(60), <1>14 DEF TickPosts, Receive, CancelReceived, senderVars, relayVars
<1>15. ASSUME NEW d \in Daemons, SessionLock(d) \/ Restart(d) PROVE Stays(x)
  BY SMTT(30), <1>15 DEF SessionLock, Restart, relayVars, Stays
<1>16. ASSUME NEW b \in limits.blobs, NEW total \in limits.sizes, NEW k \in Keys,
              AttachmentStart(b, total, k)
       PROVE  UNCHANGED <<tasks, posts>>
  BY Zenon, <1>16 DEF AttachmentStart, Routed, relayVars
<1>17. ASSUME NEW b \in limits.blobs,
              AttachmentAppend(b) \/ AttachmentFinish(b) \/ AttachmentCancel(b)
       PROVE  UNCHANGED <<tasks, posts>>
  BY Zenon, <1>17 DEF AttachmentAppend, AttachmentFinish, AttachmentCancel, Routed, relayVars
<1>18. CASE OtherRequest \/ TimePasses \/ Exchange \/ UNCHANGED vars
  <2>1. UNCHANGED <<tasks, posts>>
    BY SMTT(30), <1>18 DEF OtherRequest, TimePasses, Exchange, Routed, relayVars, senderVars, vars
  <2> QED
    BY Zenon, <2>1, <1>1
<1> QED
  BY ZenonT(60), <1>1, <1>4, <1>5, <1>6, <1>7, <1>8, <1>9, <1>10, <1>11, <1>12, <1>13, <1>14, <1>15,
     <1>16, <1>17, <1>18 DEF Next

\* How announcements come about.
LEMMA OutboxSteps ==
    ASSUME [Next]_vars, Shape
    PROVE  /\ outbox \subseteq outbox'
           /\ \A e \in outbox' \ outbox : \E s \in Slots :
                /\ tasks[s] # Idle /\ tasks[s].stage = "announce" /\ tasks[s].op = "send"
                /\ e.package = tasks[s].package
           /\ stored' \subseteq stored \cup outbox
<1>0. limits.slots \subseteq Slots
  BY SMTT(30), AttachmentsAssumption DEF Shape
<1>1. CASE UNCHANGED <<outbox, stored>>
  BY SMTT(30), <1>1
<1>2. ASSUME NEW s \in limits.slots, Announce(s)
      PROVE  /\ outbox \subseteq outbox' /\ UNCHANGED stored
             /\ tasks[s] # Idle /\ tasks[s].stage = "announce" /\ tasks[s].op = "send"
             /\ \A e \in outbox' \ outbox : e.package = tasks[s].package
  BY SMTT(30), <1>2 DEF Announce, AtStage, receiverVars
<1>3. CASE \E s \in limits.slots : Announce(s)
  BY Zenon, <1>0, <1>2, <1>3
<1>4. ASSUME NEW e \in outbox, Receive(e) \/ CancelReceived(e)
      PROVE  UNCHANGED outbox /\ stored' \subseteq stored \cup outbox
  BY SMTT(30), <1>4 DEF Receive, CancelReceived, senderVars
<1>5. ASSUME NEW e \in outbox, TickPosts(e) PROVE UNCHANGED <<outbox, stored>>
  BY SMTT(30), <1>5 DEF TickPosts, senderVars, receiverVars
<1>6. ASSUME NEW b \in limits.blobs, NEW total \in limits.sizes, NEW k \in Keys,
             AttachmentStart(b, total, k)
      PROVE  UNCHANGED <<outbox, stored>>
  BY Zenon, <1>6 DEF AttachmentStart, Routed, receiverVars
<1>7. ASSUME NEW b \in limits.blobs,
             AttachmentAppend(b) \/ AttachmentFinish(b) \/ AttachmentCancel(b)
      PROVE  UNCHANGED <<outbox, stored>>
  BY Zenon, <1>7 DEF AttachmentAppend, AttachmentFinish, AttachmentCancel, Routed, receiverVars
<1>8. ASSUME NEW b \in limits.blobs, NEW s \in limits.slots, NEW offset \in 0..MaxBlob - 1,
             UploadChunk(s, b, offset)
      PROVE  UNCHANGED <<outbox, stored>>
  BY Zenon, <1>8 DEF UploadChunk, receiverVars
<1>9. CASE OtherRequest \/ TimePasses \/ RelayCrash \/ Exchange \/ UNCHANGED vars
  <2>1. UNCHANGED <<outbox, stored>>
    BY SMTT(30), <1>9 DEF OtherRequest, TimePasses, RelayCrash, Exchange, Routed, vars, senderVars,
                receiverVars
  <2> QED
    BY SMTT(30), <2>1, <1>1
<1>10. ASSUME NEW s \in limits.slots, NEW op \in {"send", "upload"}, NEW p \in att.completed,
              Begin(s, op, p)
       PROVE  UNCHANGED <<outbox, stored>>
  BY Zenon, <1>10 DEF Begin, receiverVars
<1>11. ASSUME NEW s \in limits.slots,
              \/ UploadPiece(s) \/ GiveUp(s) \/ UploadCompletedEnd(s) \/ PostEnvelope(s)
              \/ SendEnd(s)
       PROVE  UNCHANGED <<outbox, stored>>
  BY SMTT(30), <1>11 DEF UploadPiece, GiveUp, UploadCompletedEnd, PostEnvelope, SendEnd, receiverVars
<1>12. ASSUME NEW s \in limits.slots,
              BlobRead(s) \/ BlobOpen(s) \/ BlobWrite(s) \/ BlobWriteFails(s)
       PROVE  UNCHANGED <<outbox, stored>>
  BY ZenonT(60), <1>12 DEF BlobRead, BlobOpen, BlobWrite, BlobWriteFails, receiverVars
<1>13. ASSUME NEW d \in Daemons, SessionLock(d) \/ Restart(d)
       PROVE  UNCHANGED <<outbox, stored>>
  BY Zenon, <1>13 DEF SessionLock, Restart
<1>14. CASE \E e \in outbox : Receive(e) \/ CancelReceived(e)
  BY SMTT(30), <1>4, <1>14
<1> QED
  BY ZenonT(60), <1>1, <1>3, <1>5, <1>6, <1>7, <1>8, <1>9, <1>10, <1>11, <1>12, <1>13, <1>14 DEF Next

\* What a piece adds: after an accepted answer the relay holds the blob up to
\* the end of the piece.
LEMMA MovesArrive ==
    ASSUME Shape, OpenFits, WritesAgree, UploadsArrive, [Next]_vars,
           NEW x \in Slots, Moves(x), NEW t, t = tasks[x], t.op # "chunk",
           t.package.blob \notin raced
    PROVE  Holds(file'[t.package.blob], t.offset + Piece(t).length, t.package.key)
<1>1. /\ t \in Task /\ TaskFits(t) /\ t # Idle /\ t.stage = "posted" /\ t.offset \in Nat
  BY Zenon DEF Moves, Shape, Task
<1>2. PICK r : r = Piece(t)
  BY SMTT(30)
<1>3. /\ r.blob = t.package.blob /\ r.key = t.package.key /\ r.offset = t.offset
      /\ r.length \in Nat /\ End(r) = t.offset + Piece(t).length
  BY ZenonT(60), <1>1, <1>2, PieceTypes DEF End
<1>4. posts[x] # Idle /\ posts[x].request = r
  BY Zenon, <1>1, <1>2 DEF UploadsArrive, Waits
<1>5. r.blob \in Blobs /\ r.key \in Bytes
  BY Zenon, <1>4 DEF Shape, Post, Bytes
<1>6. Holds(file[r.blob], r.offset, r.key)
  BY Zenon, <1>1, <1>3 DEF UploadsArrive, Arrived
<1>7. CASE BlobWrite(x)
  BY Zenon, <1>3, <1>4, <1>6, <1>7, WrittenIsThere
<1>8. CASE UNCHANGED file /\ Verdict(file[r.blob], r) = "duplicate"
  <2>1. file[r.blob] \in Seq(Bytes) \cup {NoFile}
    BY SMTT(30), <1>5 DEF Shape
  <2>2. Holds(file[r.blob], End(r), r.key)
    BY Zenon, <1>1, <1>3, <1>5, <1>6, <1>8, <2>1, DuplicateIsThere
  <2> QED
    BY Zenon, <1>3, <1>8, <2>2
<1> QED
  BY Zenon, <1>4, <1>7, <1>8 DEF Moves

\* A task waits for the answer to its piece, after every step.
LEMMA WaitsStep ==
    ASSUME Shape, UploadsArrive, [Next]_vars, NEW x \in Slots,
           tasks'[x] # Idle, tasks'[x].op # "chunk", tasks'[x].stage = "posted"
    PROVE  posts'[x] # Idle /\ posts'[x].request = Piece(tasks'[x])
<1>1. CASE Stays(x)
  BY Zenon, <1>1 DEF Stays, UploadsArrive, Waits
<1>2. CASE Posted(x)
  <2>1. tasks[x] \in Task
    BY SMTT(30), <1>2 DEF Posted, Shape
  <2>2. PICK t : t = [tasks[x] EXCEPT !.stage = "posted"]
    BY ZenonT(60)
  <2>3. t.op = tasks[x].op /\ t.package = tasks[x].package /\ t.offset = tasks[x].offset
    BY SMTT(30), <2>1, <2>2 DEF Task
  <2>4. Piece(t) = Piece(tasks[x])
    BY Zenon, <2>3 DEF Piece
  <2> QED
    BY SMTT(30), <1>2, <2>2, <2>4 DEF Posted
<1>3. CASE Moves(x)
  BY Zenon, <1>3, AdvancedTypes DEF Moves, Shape
<1>4. CASE Announces(x)
  BY Zenon, <1>4 DEF Announces
<1> QED
  BY Zenon, <1>1, <1>2, <1>3, <1>4, TaskSteps

\* The relay holds what a task has seen accepted, after every step.
LEMMA ArrivedStep ==
    ASSUME Shape, Counted, OpenFits, WritesAgree, UploadsArrive, [Next]_vars, NEW x \in Slots,
           tasks'[x] # Idle, tasks'[x].op # "chunk", tasks'[x].package.blob \notin raced
    PROVE  LET p == tasks'[x].package IN Holds(file'[p.blob], Arrived(tasks'[x]), p.key)
<1>0. Shape'
  BY Zenon, ShapeStep
<1>1. CASE tasks'[x].stage = "upload" /\ tasks'[x].offset = 0
  BY Zenon, <1>1 DEF Arrived, Holds
<1>2. ASSUME NEW t, t = tasks[x], t # Idle, t.op # "chunk", tasks'[x].package = t.package
      PROVE  /\ t.package.blob \in Blobs \ raced /\ t.package \in Package
             /\ t.offset \in Nat /\ BlobSize(t.package.total) \in Nat
             /\ Arrived(t) \in Nat
             /\ Holds(file'[t.package.blob], Arrived(t), t.package.key)
  <2>1. t \in Task /\ TaskFits(t)
    BY Zenon, <1>2 DEF Shape
  <2>2. t.package \in Package /\ t.package.blob \in Blobs \ raced /\ t.offset \in Nat
    BY Zenon, <1>2, <2>1 DEF TaskFits, Package, Task
  <2>3. BlobSize(t.package.total) \in Nat
    BY SMTT(30), <2>2, SizeTypes DEF Package
  <2>4. Arrived(t) \in Nat
    BY SMTT(30), <2>2, <2>3 DEF Arrived
  <2>5. Holds(file[t.package.blob], Arrived(t), t.package.key)
    BY Zenon, <1>2, <2>2 DEF UploadsArrive
  <2> QED
    BY Zenon, <2>2, <2>3, <2>4, <2>5, HoldsOn
<1>3. CASE Stays(x)
  BY Zenon, <1>2, <1>3 DEF Stays
<1>4. CASE Posted(x)
  <2>1. PICK t : t = tasks[x]
    BY SMTT(30)
  <2>2. t \in Task /\ t # Idle /\ t.stage = "upload" /\ tasks'[x] = [t EXCEPT !.stage = "posted"]
    BY SMTT(30), <1>4, <2>1 DEF Posted, Shape
  <2>3. PICK u : u = [t EXCEPT !.stage = "posted"]
    BY ZenonT(60)
  <2>4. /\ u.stage = "posted" /\ u.op = t.op /\ u.package = t.package /\ u.offset = t.offset
    BY SMTT(30), <2>2, <2>3 DEF Task
  <2>5. tasks'[x] = u /\ Arrived(u) = Arrived(t)
    BY SMTT(30), <2>2, <2>3, <2>4 DEF Arrived
  <2>6. Holds(file'[t.package.blob], Arrived(t), t.package.key)
    BY SMTT(30), <1>2, <2>1, <2>2, <2>4, <2>5
  <2> QED
    BY Zenon, <2>4, <2>5, <2>6
<1>5. CASE Announces(x)
  <2>1. PICK t : t = tasks[x]
    OBVIOUS
  <2>2. /\ t # Idle /\ t.op # "chunk" /\ tasks'[x].package = t.package
        /\ Arrived(tasks'[x]) = Arrived(t)
    BY Zenon, <1>5, <2>1 DEF Announces, Arrived
  <2>3. Holds(file'[t.package.blob], Arrived(t), t.package.key)
    BY Zenon, <1>2, <2>1, <2>2
  <2> QED
    BY Zenon, <2>2, <2>3
<1>6. CASE Moves(x)
  <2>1. PICK t : t = tasks[x]
    OBVIOUS
  <2>2. PICK u : u = tasks'[x]
    BY SMTT(30)
  <2>3. t \in Task /\ TaskFits(t) /\ t # Idle /\ u = Advanced(t) /\ u # Idle
    BY Zenon, <1>6, <2>1, <2>2 DEF Moves, Shape
  <2>4. /\ t.op # "chunk" /\ u.package = t.package
        /\ \/ u.stage = "upload" /\ u.offset = t.offset + Piece(t).length
           \/ /\ u.stage = "announce"
              /\ t.offset + Piece(t).length >= BlobSize(t.package.total)
    BY Zenon, <2>3, AdvancedTypes
  <2>5. PICK n : n = t.offset + Piece(t).length
    BY SMTT(30)
  <2>6. Holds(file'[t.package.blob], n, t.package.key)
    BY Zenon, <1>6, <2>1, <2>2, <2>4, <2>5, MovesArrive
  <2>7. /\ t.package.blob \in Blobs /\ t.offset \in Nat /\ BlobSize(t.package.total) \in Nat
        /\ Piece(t).length \in Nat
    BY ZenonT(60), <1>2, <2>1, <2>2, <2>3, <2>4, PieceTypes
  <2>8. CASE u.stage = "upload"
    BY Zenon, <2>2, <2>4, <2>5, <2>6, <2>8 DEF Arrived
  <2>9. CASE u.stage = "announce"
    <3>1. PICK f, k, m : f = file'[t.package.blob] /\ k = t.package.key /\ m = BlobSize(t.package.total)
      BY SMTT(30)
    <3>2. m \in Nat /\ n \in Nat /\ m <= n /\ f \in Seq(Bytes) \cup {NoFile}
      BY SMTT(30), <1>0, <2>4, <2>5, <2>7, <2>9, <3>1 DEF Shape
    <3>3. Holds(f, n, k)
      BY Zenon, <2>6, <3>1
    <3>4. Holds(f, m, k)
      BY SMTT(30), <3>2, <3>3 DEF Holds
    <3>5. Arrived(u) = m
      BY Zenon, <2>4, <2>9, <3>1 DEF Arrived
    <3> QED
      BY Zenon, <2>2, <2>4, <3>1, <3>4, <3>5
  <2> QED
    BY Zenon, <2>4, <2>8, <2>9
<1> QED
  BY Zenon, <1>1, <1>3, <1>4, <1>5, <1>6, TaskSteps

\* Tasks and announcements keep their bytes at the relay.
LEMMA UploadsArriveStep ==
    ASSUME Shape, Counted, OpenFits, WritesAgree, UploadsArrive, [Next]_vars
    PROVE  UploadsArrive'
<1>0. raced \subseteq raced'
  BY Zenon, WriteSteps
<1>1. ASSUME NEW x \in Slots, tasks'[x] # Idle, tasks'[x].op # "chunk"
      PROVE  Waits(x)'
  BY ZenonT(60), <1>1, WaitsStep DEF Waits, Piece, Request, Least
<1>2. ASSUME NEW x \in Slots, tasks'[x] # Idle, tasks'[x].op # "chunk",
             tasks'[x].package.blob \notin raced'
      PROVE  LET p == tasks'[x].package IN Holds(file'[p.blob], Arrived(tasks'[x]), p.key)
  BY Zenon, <1>0, <1>2, ArrivedStep
<1>3. ASSUME NEW e \in outbox', e.package.blob \notin raced'
      PROVE  Holds(file'[e.package.blob], BlobSize(e.package.total), e.package.key)
  <2>1. e.package \in Package
    BY Zenon, ShapeStep DEF Shape, Envelope
  <2>2. e.package.blob \in Blobs \ raced /\ BlobSize(e.package.total) \in Nat
    BY Zenon, <1>0, <1>3, <2>1, SizeTypes DEF Package
  <2>3. Holds(file[e.package.blob], BlobSize(e.package.total), e.package.key)
    <3>1. CASE e \in outbox
      BY Zenon, <2>2, <3>1 DEF UploadsArrive
    <3>2. CASE e \notin outbox
      <4>1. PICK s \in Slots :
              /\ tasks[s] # Idle /\ tasks[s].stage = "announce" /\ tasks[s].op = "send"
              /\ e.package = tasks[s].package
        BY Zenon, <1>3, <3>2, OutboxSteps
      <4> QED
        BY Zenon, <2>2, <4>1 DEF UploadsArrive, Arrived
    <3> QED
      BY Zenon, <3>1, <3>2
  <2> QED
    BY Zenon, <2>2, <2>3, HoldsOn
<1> QED
  BY ZenonT(60), <1>1, <1>2, <1>3 DEF UploadsArrive, Arrived, Holds, BlobSize, ChunkCount

\* The relay has what is announced, and what the receiver stored was announced.
LEMMA StoredAnnounced == Spec => [](UploadsArrive /\ stored \subseteq outbox)
<1>1. Init => UploadsArrive /\ stored \subseteq outbox
  BY Zenon DEF Init, UploadsArrive
<1>2. Shape /\ Counted /\ OpenFits /\ WritesAgree /\ UploadsArrive /\ stored \subseteq outbox
        /\ [Next]_vars => (UploadsArrive /\ stored \subseteq outbox)'
  BY Zenon, UploadsArriveStep, OutboxSteps
<1> QED
  BY <1>1, <1>2, WritesSafe, PTL DEF Spec

\* Every byte of an attachment a receiver holds is at the relay, encrypted under
\* the key of its descriptor, for any sizes, uploads, retries and crashes; the
\* one exception is a race of different bytes inside blob_impl.
Whole ==
    \A e \in received : e.package.blob \notin raced =>
        Holds(file[e.package.blob], BlobSize(e.package.total), e.package.key)

\* send announces a blob only after the relay has all of it (send of
\* attachment_routes.rs): an attachment that is received is whole at the relay.
THEOREM ReceivedIsWhole == Spec => []Whole
<1>1. UploadsArrive /\ stored \subseteq outbox /\ ReceivedOutlivesRestart => Whole
  BY Zenon DEF UploadsArrive, ReceivedOutlivesRestart, Whole
<1> QED
  BY <1>1, StoredAnnounced, ReceivedStored, PTL

-----------------------------------------------------------------------------
\* Packages and jobs past their time

\* A job has its start time, and a package its time of completion but for one
\* whose job was cancelled over it.
Timed(a, half) ==
    /\ \A j \in a.jobs : a.started[j.blob] # "none"
    /\ \A p \in a.completed : p.blob \in half \/ a.created[p.blob] # "none"

\* The purge and the passing of time leave what they keep its time.
LEMMA PurgeTimed ==
    ASSUME NEW a \in State, NEW half, Timed(a, half)
    PROVE  /\ Timed(PurgeAttachmentState(a), half) /\ Timed(NoAttachments, half)
           /\ Timed([a EXCEPT !.started = Aged(@), !.created = Aged(@)], half)
<1>1. Timed(PurgeAttachmentState(a), half)
  <2>1. /\ \A j \in a.jobs : j.blob \in Blobs /\ a.started[j.blob] # "none"
        /\ \A p \in a.completed : p.blob \in Blobs
    BY SMTT(30) DEF Timed, State, Job, Package
  <2>2. \A p \in a.completed : p.blob \in half \/ a.created[p.blob] # "none"
    BY Zenon DEF Timed
  <2> QED
    BY Zenon, <2>1, <2>2 DEF Timed, PurgeAttachmentState
<1>2. Timed(NoAttachments, half)
  BY SMTT(30) DEF Timed, NoAttachments
<1>3. Timed([a EXCEPT !.started = Aged(@), !.created = Aged(@)], half)
  BY SMTT(30) DEF Timed, Aged, State, Job, Package
<1> QED
  BY Zenon, <1>1, <1>2, <1>3

\* So do the methods of AttachmentState; cancel_attachment only takes the time
\* of a package it leaves.
LEMMA MethodsTimed ==
    ASSUME NEW a \in State, NEW half, Timed(a, half), NEW b \in Blobs
    PROVE  /\ \A k \in Keys, total \in 1..MaxAttachment : Timed(Start(a, b, total, k), half)
           /\ Timed(AppendChunk(a, b), half)
           /\ Timed(Finish(a, b), half)
           /\ Timed(TakeCompleted(a, b), half)
           /\ LET c == CancelAttachment(a, b) IN
              Timed(c, IF \E p \in c.completed : p.blob = b THEN half \cup {b} ELSE half)
<1> USE DEF State, Job, Package
<1>1. ASSUME NEW k \in Keys, NEW total \in 1..MaxAttachment
      PROVE  Timed(Start(a, b, total, k), half)
  BY SMTT(30) DEF Timed, Start
<1>2. Timed(AppendChunk(a, b), half)
  <2>1. AppendChunk(a, b).jobs = {IF j.blob = b THEN Append1(j) ELSE j : j \in a.jobs}
    BY SMTT(30) DEF AppendChunk
  <2>2. \A j \in a.jobs : Append1(j).blob = j.blob
    BY SMTT(30) DEF Append1
  <2>3. /\ AppendChunk(a, b).started = a.started /\ AppendChunk(a, b).created = a.created
        /\ AppendChunk(a, b).completed = a.completed
    BY SMTT(30) DEF AppendChunk
  <2> QED
    BY SMTT(30), <2>1, <2>2, <2>3 DEF Timed
<1>3. Timed(Finish(a, b), half)
  <2>1. PICK j : j = CHOOSE x \in a.jobs : x.blob = b
    BY ZenonT(60)
  <2>2. CASE j.received = j.total
    <3>1. Finish(a, b) = [a EXCEPT !.jobs = Without(@, b), !.started[b] = "none",
                   !.completed = Without(@, b) \cup
                                   {[blob |-> b, key |-> j.key, total |-> j.total]},
                   !.created[b] = "young"]
      BY SMTT(30), <2>1, <2>2 DEF Finish
    <3>2. Finish(a, b) =
            [jobs |-> Without(a.jobs, b), started |-> [a.started EXCEPT ![b] = "none"],
             completed |-> Without(a.completed, b) \cup
                             {[blob |-> b, key |-> j.key, total |-> j.total]},
             created |-> [a.created EXCEPT ![b] = "young"]]
      BY ZenonT(60), <3>1
    <3> QED
      BY SMTT(30), <3>2 DEF Timed, Without
  <2>3. CASE j.received # j.total
    BY SMTT(30), <2>1, <2>3 DEF Timed, Finish, Without
  <2> QED
    BY <2>2, <2>3
<1>4. Timed(TakeCompleted(a, b), half)
  BY SMTT(30) DEF Timed, TakeCompleted, Without
<1>5. LET c == CancelAttachment(a, b) IN
      Timed(c, IF \E p \in c.completed : p.blob = b THEN half \cup {b} ELSE half)
  BY SMTT(30) DEF Timed, CancelAttachment, Without
<1> QED
  BY Zenon, <1>1, <1>2, <1>3, <1>4, <1>5

\* When nothing is completed no bytes are held.
LEMMA NothingHeld ==
    ASSUME NEW a, a.completed = {}
    PROVE  HeldBytes(a) = 0
<1> DEFINE Sums(g) == g = [s \in SUBSET {} |-> IF s = {} THEN 0
             ELSE BlobSize((CHOOSE x \in s : TRUE).total) + g[s \ {CHOOSE x \in s : TRUE}]]
<1>1. HeldBytes(a) = (CHOOSE g : Sums(g))[{}]
  BY Zenon DEF HeldBytes, MapThenSumSet, MapThenFoldSet
<1>2. Sums([s \in {{}} |-> 0])
  OBVIOUS
<1>3. Sums(CHOOSE g : Sums(g))
  BY Zenon, <1>2
<1> QED
  BY Zenon, <1>1, <1>3

\* Every step leaves the jobs and packages their times.
LEMMA TimedStep ==
    ASSUME Shape, Timed(att, halfCancelled), [Next]_vars
    PROVE  Timed(att', halfCancelled')
<1>0. /\ att \in State /\ limits.blobs \subseteq Blobs /\ Purged \in State
      /\ Timed(Purged, halfCancelled) /\ Timed(NoAttachments, halfCancelled)
  BY Zenon, AttachmentsAssumption, PurgeTypes, PurgeTimed DEF Shape, Purged
<1>1. ASSUME NEW b \in limits.blobs, NEW total \in limits.sizes, NEW k \in Keys,
             AttachmentStart(b, total, k)
      PROVE  Timed(att', halfCancelled')
  BY Zenon, <1>0, <1>1, MethodsTimed DEF AttachmentStart, CanStart
<1>2. ASSUME NEW b \in limits.blobs, AttachmentAppend(b) \/ AttachmentFinish(b)
      PROVE  Timed(att', halfCancelled')
  BY Zenon, <1>0, <1>2, MethodsTimed DEF AttachmentAppend, AttachmentFinish
<1>3. ASSUME NEW b \in limits.blobs, AttachmentCancel(b)
      PROVE  Timed(att', halfCancelled')
  BY Zenon, <1>0, <1>3, MethodsTimed DEF AttachmentCancel
<1>4. CASE OtherRequest
  BY Zenon, <1>0, <1>4 DEF OtherRequest
<1>5. CASE TimePasses
  BY Zenon, <1>0, <1>5, PurgeTimed DEF TimePasses
<1>6. ASSUME NEW s \in limits.slots, UploadCompletedEnd(s) \/ SendEnd(s)
      PROVE  Timed(att', halfCancelled')
  <2>1. att' \in {att, TakeCompletedIfEqual(att, tasks[s].package)} /\ UNCHANGED halfCancelled
    BY Zenon, <1>6 DEF UploadCompletedEnd, SendEnd
  <2>2. \A p \in att.completed : p.blob \in Blobs
    BY SMTT(30), <1>0 DEF State, Package
  <2> QED
    BY Zenon, <1>0, <2>1, <2>2, MethodsTimed DEF TakeCompletedIfEqual
<1>7. ASSUME NEW d \in Daemons, SessionLock(d) \/ Restart(d)
      PROVE  Timed(att', halfCancelled')
  <2>1. att' \in {att, NoAttachments} /\ UNCHANGED halfCancelled
    BY Zenon, <1>7 DEF SessionLock, Restart
  <2> QED
    BY Zenon, <1>0, <2>1
<1>8. ASSUME UNCHANGED <<att, halfCancelled>> PROVE Timed(att', halfCancelled')
  BY SMTT(30), <1>8
<1>9. ASSUME NEW s \in limits.slots, \/ UploadPiece(s) \/ GiveUp(s) \/ Announce(s)
                                     \/ PostEnvelope(s)
      PROVE  UNCHANGED <<att, halfCancelled>>
  BY Zenon, <1>9 DEF UploadPiece, GiveUp, Announce, PostEnvelope
<1>10. ASSUME NEW s \in limits.slots,
              BlobRead(s) \/ BlobOpen(s) \/ BlobWrite(s) \/ BlobWriteFails(s)
       PROVE  UNCHANGED <<att, halfCancelled>>
  BY Zenon, <1>10 DEF BlobRead, BlobOpen, BlobWrite, BlobWriteFails
<1>11. ASSUME NEW s \in limits.slots, NEW op \in {"send", "upload"}, NEW p \in att.completed,
              Begin(s, op, p)
       PROVE  UNCHANGED <<att, halfCancelled>>
  BY Zenon, <1>11 DEF Begin
<1>12. ASSUME NEW b \in limits.blobs, NEW s \in limits.slots, NEW offset \in 0..MaxBlob - 1,
              UploadChunk(s, b, offset)
       PROVE  UNCHANGED <<att, halfCancelled>>
  BY ZenonT(60), <1>12 DEF UploadChunk
<1>13. ASSUME NEW e \in outbox, TickPosts(e) \/ Receive(e) \/ CancelReceived(e)
       PROVE  UNCHANGED <<att, halfCancelled>>
  BY ZenonT(60), <1>13 DEF TickPosts, Receive, CancelReceived, senderVars
<1>14. CASE Exchange \/ RelayCrash \/ UNCHANGED vars
  BY ZenonT(60), <1>8, <1>14 DEF Exchange, RelayCrash, vars, senderVars
<1> QED
  BY ZenonT(60), <1>1, <1>2, <1>3, <1>4, <1>5, <1>6, <1>7, <1>8, <1>9, <1>10, <1>11, <1>12,
     <1>13, <1>14 DEF Next

-----------------------------------------------------------------------------
\* Sizes, and what they add up to.  The facts about finite sets and least
\* elements are taken here, where they are first needed.
INSTANCE FiniteSetTheorems

\* Jobs and packages past their time never keep the user from starting another
\* attachment (purge_attachment_state of authority.rs), unless a package was
\* left without its time by cancel_attachment.
THEOREM AbandonedPurged == Spec => []AbandonedNeverBlocks
<1>1. Init => Timed(att, halfCancelled)
  BY SMTT(30) DEF Init, Timed, NoAttachments
<1>2. Shape /\ Timed(att, halfCancelled) => AbandonedNeverBlocks
  <2> SUFFICES ASSUME Shape, Timed(att, halfCancelled), halfCancelled = {},
                      \A j \in att.jobs : att.started[j.blob] # "young",
                      \A p \in att.completed : att.created[p.blob] # "young",
                      NEW b \in Blobs, NEW total \in limits.sizes \cap 1..MaxAttachment
               PROVE  CanStart(Purged, b, total)
    BY ZenonT(60) DEF AbandonedNeverBlocks
  <2>1. Purged.jobs = {} /\ Purged.completed = {}
    <3>1. PICK a \in State : a = att
      BY Zenon DEF Shape
    <3>2. /\ \A j \in a.jobs : j.blob \in Blobs /\ a.started[j.blob] \in Ages
          /\ \A p \in a.completed : p.blob \in Blobs /\ a.created[p.blob] \in Ages
      BY SMTT(30), <3>1 DEF State, Job, Package
    <3>3. /\ \A j \in a.jobs : j.blob \in Blobs /\ a.started[j.blob] = "old"
          /\ \A p \in a.completed : p.blob \in Blobs /\ a.created[p.blob] = "old"
      BY Zenon, <3>1, <3>2 DEF Timed, Ages
    <3> QED
      BY Zenon, <3>1, <3>3 DEF Purged, PurgeAttachmentState
  <2>2. HeldBytes(Purged) = 0 /\ Cardinality(Purged.completed) = 0
    BY ZenonT(60), <2>1, NothingHeld, FS_EmptySet
  <2> QED
    BY SMTT(30), <2>1, <2>2, AttachmentAssumption DEF CanStart
<1>3. Shape /\ Timed(att, halfCancelled) /\ [Next]_vars => Timed(att, halfCancelled)'
  BY ZenonT(60), TimedStep
<1> QED
  BY <1>1, <1>2, <1>3, WritesSafe, PTL DEF Spec

-----------------------------------------------------------------------------
\* The chunks a receiver downloads

\* A set of naturals that is not empty has a least element.
LEMMA LeastElement ==
    ASSUME NEW T, T \subseteq Nat, T # {}
    PROVE  \E x \in T : \A y \in T : x <= y
<1>1. PICK R : R = OpToRel(<, Nat)
  OBVIOUS
<1>2. IsWellFoundedOn(R, Nat)
  BY <1>1, NatLessThanWellFounded
<1>3. \E x \in T : \A y \in T : ~(<<y, x>> \in R)
  BY Zenon, <1>2, WFMin
<1>4. \A x, y \in Nat : <<y, x>> \notin R => x <= y
  BY <1>1 DEF OpToRel
<1> QED
  BY Zenon, <1>3, <1>4

\* Products, one at a time.
LEMMA Products ==
    ASSUME NEW c \in Nat, NEW n \in Nat
    PROVE  c * n \in Nat /\ c * (n + 1) = c * n + c /\ c * 0 = 0
  BY SMTT(30)

\* Take an element of a finite set away.
LEMMA OneLess ==
    ASSUME NEW s, IsFiniteSet(s), NEW e \in s
    PROVE  \E n \in Nat : Cardinality(s) = n + 1 /\ Cardinality(s \ {e}) = n
<1>2. /\ Cardinality(s) \in Nat /\ Cardinality(s) # 0
      /\ IsFiniteSet(s \ {e}) /\ Cardinality(s \ {e}) \in Nat
      /\ Cardinality(s \ {e}) = Cardinality(s) - 1
  BY ZenonT(60), FS_RemoveElement, FS_CardinalityType, FS_EmptySet
<1>3. Cardinality(s) = Cardinality(s \ {e}) + 1
  BY SMTT(30), <1>2
<1> QED
  BY ZenonT(60), <1>2, <1>3

\* The ciphertexts of the chunks of S, all of c bytes, are c bytes each
\* together: the sum of the sizes takes them one after another.
LEMMA EqualSizes ==
    ASSUME NEW total, NEW S, IsFiniteSet(S), NEW c \in Nat,
           \A j \in S : CiphertextSize(total, j) = c
    PROVE  MapThenSumSet(LAMBDA j : CiphertextSize(total, j), S) = c * Cardinality(S)
<1> DEFINE Sums(g) == g = [s \in SUBSET S |-> IF s = {} THEN 0
             ELSE CiphertextSize(total, CHOOSE x \in s : TRUE) + g[s \ {CHOOSE x \in s : TRUE}]]
<1>1. MapThenSumSet(LAMBDA j : CiphertextSize(total, j), S) = (CHOOSE g : Sums(g))[S]
  BY Zenon DEF MapThenSumSet, MapThenFoldSet
<1>2. \A s \in SUBSET S : IsFiniteSet(s) /\ Cardinality(s) \in Nat
  BY ZenonT(60), FS_Subset, FS_CardinalityType
<1>3. PICK g0 : g0 = [s \in SUBSET S |-> c * Cardinality(s)]
  BY Zenon
<1>4. Sums(g0)
  <2>1. g0[{}] = 0
    BY SMTT(30), <1>3, FS_EmptySet
  <2>2. ASSUME NEW s \in SUBSET S, s # {}, NEW e, e = CHOOSE x \in s : TRUE
        PROVE  g0[s] = CiphertextSize(total, e) + g0[s \ {e}]
    <3>1. e \in s /\ e \in S /\ s \ {e} \in SUBSET S
      BY ZenonT(60), <2>2
    <3>2. PICK n \in Nat : Cardinality(s) = n + 1 /\ Cardinality(s \ {e}) = n
      BY ZenonT(60), <1>2, <3>1, OneLess
    <3>3. g0[s] = c * (n + 1) /\ g0[s \ {e}] = c * n /\ CiphertextSize(total, e) = c
      BY ZenonT(60), <1>3, <3>1, <3>2
    <3>4. c * n \in Nat /\ c * (n + 1) = c * n + c
      BY ZenonT(60), Products
    <3>5. c * n + c = c + c * n
      BY SMTT(30), <3>4
    <3> QED
      BY ZenonT(60), <3>3, <3>4, <3>5
  <2>3. g0 = [s \in SUBSET S |-> g0[s]]
    BY SMTT(30), <1>3
  <2>4. \A s \in SUBSET S : g0[s] = IF s = {} THEN 0
             ELSE CiphertextSize(total, CHOOSE x \in s : TRUE) + g0[s \ {CHOOSE x \in s : TRUE}]
    BY ZenonT(60), <2>1, <2>2
  <2> QED
    BY ZenonT(60), <2>3, <2>4
<1>5. PICK g : Sums(g) /\ g = CHOOSE h : Sums(h)
  BY ZenonT(60), <1>4
<1>6. ASSUME NEW s \in SUBSET S, g[s] # c * Cardinality(s) PROVE FALSE
  <2>1. PICK T : T = {n \in Nat : \E t \in SUBSET S : Cardinality(t) = n /\ g[t] # c * n}
    BY Zenon
  <2>2. T \subseteq Nat /\ T # {}
    BY ZenonT(60), <1>2, <1>6, <2>1
  <2>3. PICK m \in T : \A y \in T : m <= y
    BY ZenonT(60), <2>2, LeastElement
  <2>4. PICK t \in SUBSET S : Cardinality(t) = m /\ g[t] # c * m
    BY ZenonT(60), <2>1, <2>3
  <2>5. t # {}
    <3>1. g[{}] = 0
      BY ZenonT(60), <1>5
    <3> QED
      BY ZenonT(60), <2>4, <3>1, Products, FS_EmptySet
  <2>6. PICK e : e = CHOOSE x \in t : TRUE
    BY Zenon
  <2>7. e \in t /\ e \in S /\ t \ {e} \in SUBSET S
    BY ZenonT(60), <2>5, <2>6
  <2>8. PICK n \in Nat : m = n + 1 /\ Cardinality(t \ {e}) = n
    BY ZenonT(60), <1>2, <2>4, <2>7, OneLess
  <2>9. n \notin T
    BY SMTT(30), <2>3, <2>8
  <2>10. g[t \ {e}] = c * n
    BY ZenonT(60), <2>1, <2>7, <2>8, <2>9
  <2>11. g[t] = CiphertextSize(total, e) + g[t \ {e}]
    BY ZenonT(60), <1>5, <2>5, <2>6
  <2>12. c * n \in Nat /\ c * (n + 1) = c * n + c
    BY ZenonT(60), Products
  <2>13. c * n + c = c + c * n
    BY SMTT(30), <2>12
  <2> QED
    BY ZenonT(60), <2>4, <2>7, <2>8, <2>10, <2>11, <2>12, <2>13
<1>7. S \in SUBSET S
  BY Zenon
<1> QED
  BY ZenonT(60), <1>1, <1>5, <1>6, <1>7

\* The chunks before a chunk are full, and the chunk ends inside its blob.
LEMMA ChunkSizes ==
    ASSUME NEW total \in 1..MaxAttachment, NEW i \in 0..ChunkCount(total) - 1
    PROVE  /\ i \in Nat /\ Chunk + Tag \in Nat /\ (Chunk + Tag) * i \in Nat
           /\ \A j \in 0..i - 1 : CiphertextSize(total, j) = Chunk + Tag
           /\ CiphertextSize(total, i) \in Nat \ {0}
           /\ (Chunk + Tag) * i + CiphertextSize(total, i) <= BlobSize(total)
<1>0. Chunk \in Nat \ {0} /\ Tag \in Nat /\ MaxAttachment \in Nat
  BY ZenonT(60), AttachmentAssumption
<1>1. PICK n \in Nat : n = ChunkCount(total) /\ Chunk * n <= total + Chunk - 1
  BY SMTT(30), <1>0 DEF ChunkCount
<1>2. i \in Nat /\ i + 1 <= n /\ total \in Nat
  BY SMTT(30), <1>0, <1>1
<1>3. ASSUME NEW c \in Nat, NEW a \in Nat, NEW b \in Nat, a + 1 <= b
      PROVE  c * a \in Nat /\ c * b \in Nat /\ c * a + c <= c * b
  BY SMTT(30), <1>3
<1>4. Chunk * i \in Nat /\ Chunk * n \in Nat /\ Chunk * i + Chunk <= Chunk * n
  BY ZenonT(60), <1>0, <1>2, <1>3
<1>5. Chunk * i < total
  BY SMTT(30), <1>0, <1>1, <1>2, <1>4
<1>6. ASSUME NEW j \in 0..i - 1 PROVE CiphertextSize(total, j) = Chunk + Tag
  <2>1. j \in Nat /\ j + 1 <= i
    BY SMTT(30), <1>2
  <2>2. Chunk * j \in Nat /\ Chunk * i \in Nat /\ Chunk * j + Chunk <= Chunk * i
    BY ZenonT(60), <1>0, <1>2, <1>3, <2>1
  <2>3. j * Chunk = Chunk * j
    BY SMTT(30), <1>0, <2>1
  <2>4. total - Chunk * j \in Int /\ ~(total - Chunk * j < Chunk)
    BY SMTT(30), <1>0, <1>2, <1>5, <2>2
  <2>5. Least(Chunk, total - Chunk * j) = Chunk
    BY SMTT(30), <1>0, <2>4 DEF Least
  <2> QED
    BY ZenonT(60), <2>3, <2>5 DEF CiphertextSize
<1>7. (Chunk + Tag) * i = Chunk * i + Tag * i
  BY SMTT(30), <1>0, <1>2
<1>8. Tag * i \in Nat /\ Tag * n \in Nat /\ Tag * i + Tag <= Tag * n
  BY ZenonT(60), <1>0, <1>2, <1>3
<1>9. i * Chunk = Chunk * i
  BY SMTT(30), <1>0, <1>2
<1>10. PICK l \in Nat \ {0} : l = Least(Chunk, total - Chunk * i) /\ l <= total - Chunk * i
  <2>1. total - Chunk * i \in Nat \ {0}
    BY SMTT(30), <1>2, <1>4, <1>5
  <2>2. \A a, b \in Nat \ {0} : Least(a, b) \in Nat \ {0} /\ Least(a, b) <= b
    BY SMTT(30) DEF Least
  <2> QED
    BY ZenonT(60), <1>0, <2>1, <2>2
<1>11. CiphertextSize(total, i) = l + Tag
  BY ZenonT(60), <1>9, <1>10 DEF CiphertextSize
<1>12. BlobSize(total) = total + Tag * n
  BY ZenonT(60), <1>1 DEF BlobSize
<1>13. /\ (Chunk * i + Tag * i) + (l + Tag) <= total + Tag * n
       /\ l + Tag \in Nat \ {0} /\ Chunk * i + Tag * i \in Nat /\ Chunk + Tag \in Nat
  BY SMTT(30), <1>0, <1>2, <1>4, <1>8, <1>10
<1> QED
  BY ZenonT(60), <1>2, <1>6, <1>7, <1>11, <1>12, <1>13

\* There are i chunks before chunk i.
LEMMA ChunksBefore ==
    ASSUME NEW i \in Nat
    PROVE  IsFiniteSet(0..i - 1) /\ Cardinality(0..i - 1) = i
<1>1. i - 1 \in Int /\ 0 \in Int
  BY SMTT(30)
<1>2. PICK c : c = Cardinality(0..i - 1)
  BY Zenon
<1>3. IsFiniteSet(0..i - 1) /\ c = IF 0 > i - 1 THEN 0 ELSE (i - 1) - 0 + 1
  BY ZenonT(60), <1>1, <1>2, FS_Interval
<1>4. c = i
  BY SMTT(30), <1>3
<1> QED
  BY ZenonT(60), <1>2, <1>3, <1>4

\* The sequence q is size times k.
Repeats(q, size, k) == q = [m \in 1..size |-> k]

\* A range of whole bytes is those bytes.
LEMMA RangeOfBytes ==
    ASSUME NEW f, NEW offset, NEW size, NEW n, NEW k, f \in Seq(Bytes),
           offset \in Nat, size \in Nat, n \in Nat, 0 < size, offset + size <= n, Holds(f, n, k)
    PROVE  /\ GetBlob(f, offset, size) \in Seq(Bytes)
           /\ Repeats(GetBlob(f, offset, size), size, k)
<1>1. /\ f # NoFile /\ n <= Len(f) /\ Len(f) \in Nat /\ \A m \in 1..n : f[m] = k
  BY SMTT(30) DEF Holds
<1>2. ~(offset > Len(f)) /\ ~(offset + size > Len(f))
  BY SMTT(30), <1>1
<1>3. GetBlob(f, offset, size) = SubSeq(f, offset + 1, offset + size)
  BY ZenonT(60), <1>1, <1>2 DEF GetBlob
<1>4. PICK q : q = SubSeq(f, offset + 1, offset + size)
  BY Zenon
<1>5. Len(q) = size /\ q \in Seq(Bytes)
  BY SMTT(30), <1>1, <1>2, <1>4
<1>6. \A m \in 1..size : q[m] = f[offset + m]
  BY SMTT(30), <1>1, <1>2, <1>4
<1>7. \A m \in 1..size : q[m] = k
  BY SMTT(30), <1>1, <1>6
<1>8. q = [m \in 1..size |-> q[m]]
  BY SMTT(30), <1>5
<1> QED
  BY ZenonT(60), <1>3, <1>4, <1>5, <1>7, <1>8 DEF Repeats

\* Every chunk of an attachment a receiver holds can be downloaded and decrypts,
\* for any sizes: the whole blob is at the relay (ReceivedIsWhole), and the
\* descriptor's sizes put every chunk inside it, after the ones before.
THEOREM ReceivedChunksDecrypt == Spec => []ReceivedDecrypts
<1>1. Shape /\ Whole /\ received \subseteq outbox => ReceivedDecrypts
  <2> SUFFICES ASSUME Shape, Whole, received \subseteq outbox,
                      NEW e \in received, e.package.blob \notin raced,
                      NEW i \in 0..ChunkCount(e.package.total) - 1
               PROVE  DownloadChunk(e.package, i)
    BY Zenon DEF ReceivedDecrypts
  <2>1. PICK p : p = e.package
    BY Zenon
  <2>2. p \in Package /\ p.blob \in Blobs /\ p.total \in 1..MaxAttachment /\ p.key \in Keys
    BY SMTT(30), <2>1 DEF Shape, Envelope, Package
  <2>3. /\ i \in Nat /\ Chunk + Tag \in Nat /\ (Chunk + Tag) * i \in Nat
        /\ \A j \in 0..i - 1 : CiphertextSize(p.total, j) = Chunk + Tag
        /\ CiphertextSize(p.total, i) \in Nat \ {0}
        /\ (Chunk + Tag) * i + CiphertextSize(p.total, i) <= BlobSize(p.total)
    BY ZenonT(60), <2>1, <2>2, ChunkSizes
  <2>4. IsFiniteSet(0..i - 1) /\ Cardinality(0..i - 1) = i
    BY ZenonT(60), <2>3, ChunksBefore
  <2>5. PICK offset : offset = (Chunk + Tag) * i
    BY Zenon
  <2>6. MapThenSumSet(LAMBDA j : CiphertextSize(p.total, j), 0..i - 1) = offset
    BY ZenonT(60), <2>3, <2>4, <2>5, EqualSizes
  <2>7. Holds(file[p.blob], BlobSize(p.total), p.key) /\ BlobSize(p.total) \in Nat \ {0}
    BY ZenonT(60), <2>1, <2>2, SizeTypes DEF Whole
  <2>8. file[p.blob] \in Seq(Bytes)
    BY SMTT(30), <2>2, <2>7 DEF Holds, Shape
  <2>9. PICK size : size = CiphertextSize(p.total, i)
    BY Zenon
  <2>10. PICK n, f, k : n \in Nat /\ n = BlobSize(p.total) /\ f = file[p.blob] /\ k = p.key
    BY ZenonT(60), <2>7
  <2>11. /\ f \in Seq(Bytes) /\ offset \in Nat /\ size \in Nat \ {0} /\ offset + size <= n
         /\ Holds(f, n, k) /\ n \in Nat
    BY ZenonT(60), <2>3, <2>5, <2>7, <2>8, <2>9, <2>10
  <2>12. /\ GetBlob(file[p.blob], offset, size) \in Seq(Bytes)
         /\ GetBlob(file[p.blob], offset, size) = [m \in 1..size |-> p.key]
    <3>1. /\ GetBlob(f, offset, size) \in Seq(Bytes)
          /\ Repeats(GetBlob(f, offset, size), size, k)
      <4>1. size \in Nat /\ 0 < size
        BY SMTT(30), <2>11
      <4> QED
        BY ZenonT(60), <2>11, <4>1, RangeOfBytes
    <3> QED
      BY ZenonT(60), <2>10, <3>1 DEF Repeats
  <2>13. NoFile \notin Seq(Bytes)
    BY ZenonT(60), AttachmentsAssumption DEF Bytes
  <2>14. GetBlob(file[p.blob], offset, size) # NoFile
    BY ZenonT(60), <2>12, <2>13
  <2>15. DownloadChunk(p, i)
    BY ZenonT(60), <2>6, <2>9, <2>12, <2>14 DEF DownloadChunk
  <2> QED
    BY ZenonT(60), <2>1, <2>15
<1>2. ReceivedOutlivesRestart /\ stored \subseteq outbox => received \subseteq outbox
  BY Zenon DEF ReceivedOutlivesRestart
<1> QED
  BY <1>1, <1>2, WritesSafe, ReceivedStored, ReceivedIsWhole, StoredAnnounced, PTL
=============================================================================
