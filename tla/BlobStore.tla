----------------------------- MODULE BlobStore -----------------------------
(***************************************************************************)
(* The blobs of the relay (blob_impl of apps/relay/src/main.rs): a file    *)
(* per identifier, written piece by piece.  No mutex covers a request, so  *)
(* an upload is three steps that other requests may come between: it reads *)
(* the file, opens it and looks at its length, and writes.                 *)
(*                                                                         *)
(* A request carries the key its bytes were encrypted under; the bytes of  *)
(* a file are their keys in order.  The metadata file beside a blob is     *)
(* written and never read, so only its failure, which turns the answer     *)
(* into a 500, is kept.  Requests without the capability, past the rate    *)
(* limit or with a malformed header change nothing and are left out, as is *)
(* DELETE, which no client in the repository sends.                        *)
(***************************************************************************)
EXTENDS Naturals, Sequences

CONSTANTS
    NoFile,         \* the file does not exist
    MaxBlob         \* MAX_BLOB_BYTES

ASSUME BlobAssumption == MaxBlob \in Nat \ {0}

\* An upload request: its bytes are key, repeated.
Request(b, offset, length, total, k) ==
    [blob |-> b, offset |-> offset, length |-> length, total |-> total, key |-> k]

End(r) == r.offset + r.length

InBounds(r) == r.total \in 1..MaxBlob /\ End(r) <= r.total

Body(r) == [i \in 1..r.length |-> r.key]

Length(f) == IF f = NoFile THEN 0 ELSE Len(f)

\* Slip: a range that is already there is never compared.
VerdictUncompared(f, r) ==
    IF ~InBounds(r) THEN "refused"
    ELSE IF f # NoFile /\ r.offset < Len(f) THEN "duplicate"
    ELSE IF f # NoFile /\ r.offset # Len(f) THEN "refused"
    ELSE "append"

\* What reading the file decides: an identical range is accepted again, a
\* different one and a gap are refused.
Verdict(f, r) ==
    IF ~InBounds(r) THEN "refused"
    ELSE IF f # NoFile /\ r.offset < Len(f)
         THEN IF End(r) <= Len(f) /\ SubSeq(f, r.offset + 1, End(r)) = Body(r)
              THEN "duplicate" ELSE "refused"
    ELSE IF f # NoFile /\ r.offset # Len(f) THEN "refused"
    ELSE "append"

\* Opening creates the file.
Opened(f) == IF f = NoFile THEN <<>> ELSE f

\* n bytes of the request, written at its offset.
Written(f, r, n) ==
    SubSeq(f, 1, r.offset) \o SubSeq(Body(r), 1, n)
        \o SubSeq(f, r.offset + n + 1, Len(f))

\* GET: the range from the offset, cut at the end of the file; NoFile for
\* an answer other than 200.
GetBlob(f, offset, length) ==
    IF f = NoFile THEN NoFile
    ELSE IF offset > Len(f) THEN NoFile
    ELSE SubSeq(f, offset + 1, IF offset + length > Len(f) THEN Len(f) ELSE offset + length)
=============================================================================
