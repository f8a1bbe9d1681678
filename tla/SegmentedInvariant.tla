------------------------- MODULE SegmentedInvariant -------------------------
(***************************************************************************)
(* The inductive invariants of Segmented: how a stream is framed while no  *)
(* write has failed, and what a reader can rely on, also in a stream that  *)
(* a failed write is in.                                                   *)
(***************************************************************************)
EXTENDS Segmented

Tokens == [kind : {"signature", "size", "head", "byte", "sum", "torn"}, of : Int]
States == {"idle", "write", "close", "unclosed", "closed"}
Writers ==
    [state : States, todo : Nat, buf : Seq(Tokens), bytesLeft : Nat,
     wroteSignature : BOOLEAN, compressedBytes : Nat, failures : Nat]

WriterTypeOK == stream \in Seq(Tokens) /\ w \in Writers /\ given \in Int
CallTypeOK == call \in [nested : BOOLEAN, n : Int, short : BOOLEAN]

(* What has gone to zlib is a head and the bytes the chunk has taken.      *)
Filling ==
    /\ \A i \in 1..Len(w.buf) : w.buf[i].kind # "size"
    /\ \/ w.buf = <<>> /\ w.bytesLeft = ChunkSize
       \/ w.bytesLeft \in 1..ChunkSize - 1 /\ Len(w.buf) = ChunkSize - w.bytesLeft + 1

(* Only Close writes a chunk that is not full, and nothing comes after it. *)
Follow(s, i) == i + s[i].of + 1
Chained(s, short) ==
    \A i \in 1..Len(s) : s[i].kind = "size" =>
        /\ s[i].of - 2 \in 1..ChunkSize
        /\ s[i].of - 2 = ChunkSize \/ (short /\ Follow(s, i) = Len(s) + 1)
        /\ \/ Follow(s, i) = Len(s) + 1
           \/ Follow(s, i) \in 1..Len(s) /\ s[Follow(s, i)].kind = "size"

Written ==
    IF w.wroteSignature
    THEN BytesWritten = Len(stream) /\ Chained(stream, w.state = "closed")
    ELSE stream = <<>> /\ w.buf = <<>> /\ w.compressedBytes = 0 /\ w.state # "closed"

FramingInvariant == WriterTypeOK /\ (w.failures = 0 => Filling /\ Written)
-----------------------------------------------------------------------------
(* What a reader relies on.                                                *)

IsByte(s, i) == s[i].kind = "byte"
Closes(s, i) == s[i] = Signature \/ s[i] = Sum

\* The last byte before a checksum, of which there may be two, or before the
\* first chunk.
LastByte(s, i) ==
    IF s[i] = Signature THEN 0
    ELSE IF s[i - 1] = Sum THEN s[i - 2].of ELSE s[i - 1].of

\* A chunk begins at p, and where its size says that it ends.
Begins(s, p)   == s[p].kind = "size" /\ p + 1 <= Len(s) /\ s[p + 1] = ZlibHead
ChunkEnd(s, p) == p + s[p].of

\* Bytes that follow each other have been given one after the other.
Running(s) ==
    \A i, j \in 1..Len(s) :
        i <= j /\ (\A k \in i..j : IsByte(s, k)) => s[j].of = s[i].of + (j - i)

\* So have the last byte of a chunk that is whole and the first of the next.
Continuing(s) ==
    \A p \in 2..Len(s) - 2 : Begins(s, p) /\ IsByte(s, p + 2) /\ Closes(s, p - 1) =>
        s[p + 2].of = LastByte(s, p - 1) + 1

\* A checksum that is reached is the last of the chunk, or the one before.
Ending(s) ==
    \A p, i \in 1..Len(s) :
        /\ Begins(s, p) /\ p + 3 <= i /\ s[i] = Sum
        /\ \A k \in p + 2..i - 1 : IsByte(s, k)
        => /\ ChunkEnd(s, p) \in {i, i + 1} /\ ChunkEnd(s, p) <= Len(s)
           /\ s[ChunkEnd(s, p)] = Sum

Summed(s) ==
    \A i \in 1..Len(s) : s[i] = Sum => i > 1 /\ (IsByte(s, i - 1) \/ s[i - 1] = Sum)

Laws(s) == Running(s) /\ Continuing(s) /\ Ending(s) /\ Summed(s)

\* Without a failure there is more: every chunk is whole.
Whole(s) ==
    /\ s # <<>> => s[1] = Signature
    /\ \A p \in 1..Len(s) : s[p].kind = "size" =>
          /\ Begins(s, p) /\ s[p].of >= 3 /\ ChunkEnd(s, p) <= Len(s)
          /\ \A k \in p + 2..ChunkEnd(s, p) - 1 : IsByte(s, k)
          /\ s[ChunkEnd(s, p)] = Sum
    /\ \A i \in 1..Len(s) - 1 : Closes(s, i) => s[i + 1].kind = "size"

\* The bytes that have gone to zlib.
Done == given - w.todo

\* The buffer: m tokens for the bytes up to the last one, and a checksum if it
\* could not be written.
Filled(buf, m, last) ==
    /\ m \in 2..Len(buf) /\ Len(buf) - m \in {0, 1}
    /\ buf[1] = ZlibHead
    /\ \A k \in 2..m : buf[k] = Byte(last - m + k)
    /\ Len(buf) > m => buf[Len(buf)] = Sum

EmptyBuffer ==
    /\ w.bytesLeft = ChunkSize
    /\ w.wroteSignature => /\ stream # <<>> /\ Closes(stream, Len(stream))
                           /\ LastByte(stream, Len(stream)) = Done
    /\ ~w.wroteSignature => Done = 0

FullBuffer(m) ==
    /\ Filled(w.buf, m, Done) /\ w.wroteSignature /\ stream # <<>>
    /\ Closes(stream, Len(stream)) => LastByte(stream, Len(stream)) = Done - m + 1
    /\ Len(w.buf) = m => w.bytesLeft > 0
    /\ Len(w.buf) > m => w.failures = 1 /\ (w.bytesLeft = 0 \/ w.state \in {"unclosed", "close"})

Buffer == IF w.buf = <<>> THEN EmptyBuffer ELSE \E m \in Nat : FullBuffer(m)

UpToDone(s, last) == \A i \in 1..Len(s) : IsByte(s, i) => s[i].of <= last

Writing ==
    /\ Laws(stream) /\ Buffer
    /\ w.failures = 0 => Whole(stream)
    /\ Done \in Nat /\ UpToDone(stream, Done)
    /\ w.state # "write" => w.todo = 0
    /\ w.state = "closed" => w.wroteSignature /\ w.buf = <<>>

Readers ==
    [state : {"none", "open", "ended", "error", "astray"}, cut : Nat, torn : BOOLEAN,
     at : Int, limit : Int, got : Seq(Int)]

\* Where a reader stands that has returned n bytes: between two chunks, or in
\* the chunk that begins at p.
Between(at, n) == Closes(stream, at - 1) /\ LastByte(stream, at - 1) = n
Inside(p, at, limit, n) ==
    /\ p \in 1..at - 3 /\ Begins(stream, p) /\ limit = ChunkEnd(stream, p)
    /\ \A k \in p + 2..at - 1 : IsByte(stream, k)
    /\ stream[at - 1].of = n
Reached(at, limit, n) ==
    /\ at - 1 \in 1..r.cut
    /\ IF limit = 0 THEN Between(at, n) ELSE \E p \in Nat : Inside(p, at, limit, n)

Reading ==
    /\ r \in Readers
    /\ Len(r.got) <= Done /\ \A i \in 1..Len(r.got) : r.got[i] = i
    /\ r.state # "none" => w.state \notin {"write", "close"}
    /\ r.state = "none" => r.got = <<>> /\ r.limit = 0 /\ r.cut = 0 /\ ~r.torn
    /\ r.cut <= Len(stream) /\ (r.torn => r.cut < Len(stream))
    /\ r.state \in {"open", "ended"} => Reached(r.at, r.limit, Len(r.got))
    /\ r.state = "ended" => r.limit = 0 /\ r.at = r.cut + 1 /\ ~r.torn
    /\ r.state = "error" /\ w.failures = 0 => r.cut < Len(stream) \/ stream = <<>>
    /\ r.state = "astray" => w.failures # 0

\* One write may have failed, and not two: the second failure may leave a chunk
\* on the stream that lacks only the second of two checksums, which a reader
\* does not miss, and the chunk is written again.  Nor has Write returned less
\* than it took: what it does not tell of is given again.
Told == w.failures <= 1 /\ ~call.short
ReadingInvariant == Told => Writing /\ Reading
=============================================================================
