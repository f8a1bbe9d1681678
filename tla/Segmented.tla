------------------------------ MODULE Segmented ------------------------------
(***************************************************************************)
(* Segmented data (src/compress/segmented/data.go): DataWriter cuts what it*)
(* is given into chunks of ChunkSize bytes and compresses each by itself;  *)
(* DataReader reads the chunks back.                                       *)
(*                                                                         *)
(* The stream is a sequence of tokens: the signature, and for a chunk its  *)
(* size and its zlib stream, which is a head, the bytes, and a checksum.   *)
(* zlib is external; its reader gives bytes in pieces of any length, and   *)
(* tells the end of its stream with the last piece or behind it.  The bytes*)
(* written are 1, 2, 3, ...                                                *)
(***************************************************************************)
EXTENDS Integers, Sequences, SequencesExt, FiniteSetsExt

CONSTANTS
    ChunkSize,  \* uncompressed bytes of a chunk
    MaxData,    \* bound: bytes that are written
    MaxRead,    \* bound: bytes that one Read asks for
    MaxFailures,\* bound: writes to the stream that fail
    MayBeCut    \* the stream may have lost its end when it is read

ASSUME ChunkAssumption == ChunkSize \in Nat \ {0} /\ MaxData \in Nat /\ MaxRead \in Nat \ {0}
ASSUME FaultAssumption == MaxFailures \in Nat /\ MayBeCut \in BOOLEAN

VARIABLES
    stream,  \* what the DataWriter's baseWriter has been given
    w,       \* DataWriter, its call that runs, and the bytes that call still
             \* has to do; failures is a history
    given,   \* bytes that callers have given to Write, and take as written
    call,    \* Write's outermost level, once it has taken its bytes: callers
             \* give what is behind n again, if a level in it fails; short
             \* is a history: one has, and Write returned less than it took
    r        \* DataReader, and what it has returned

vars == <<stream, w, given, call, r>>

Token(kind, of) == [kind |-> kind, of |-> of]
Signature == Token("signature", 0)
Size(n) == Token("size", n)
ZlibHead == Token("head", 0)
Byte(i) == Token("byte", i)
Sum == Token("sum", 0)
Torn == Token("torn", 0)
End == Token("end", 0)

\* Mutant: the chunk is forgotten when its write fails.
Forgotten(state, buf, left) ==
    [w EXCEPT !.state = state, !.todo = 0, !.buf = <<>>, !.bytesLeft = ChunkSize, !.failures = @ + 1]

(* A write to the stream fails with a part of it written.                  *)
Failed(state, buf, left) ==
    [w EXCEPT !.state = state, !.todo = 0, !.buf = buf, !.bytesLeft = left, !.failures = @ + 1]
PartOf(tokens) ==
    {SubSeq(tokens, 1, n) \o rest : n \in 0..Len(tokens) - 1, rest \in {<<>>, <<Torn>>}}

(* flushChunk closes zlib, which appends the checksum, and puts the size   *)
(* and the buffer on the stream.  When that fails, zlib has been closed and*)
(* the chunk is still in the buffer: the next flushChunk closes zlib again,*)
(* and a second checksum is appended.                                      *)
FlushChunk(buf, left, todo, state, failedState) ==
    LET closed == Append(buf, Sum)
        chunk  == <<Size(Len(closed))>> \o closed
    IN  \/ /\ stream' = stream \o chunk
           /\ w' = [w EXCEPT !.state = state, !.todo = todo, !.buf = <<>>,
                             !.bytesLeft = ChunkSize, !.compressedBytes = @ + Len(chunk)]
        \/ /\ w.failures < MaxFailures
           /\ \E part \in PartOf(chunk) : stream' = stream \o part
           /\ w' = Failed(failedState, closed, left)

(* Write and Close are called while no other call runs.  A Close that has  *)
(* failed is called again, or the writer is given up; one that has not is  *)
(* the last call.                                                          *)
CallWrite ==
    /\ w.state = "idle" /\ r.state = "none"
    /\ \E n \in 0..MaxData - given :
          w' = [w EXCEPT !.state = "write", !.todo = n] /\ given' = given + n
    /\ call' = [call EXCEPT !.nested = FALSE]
    /\ UNCHANGED <<stream, r>>

CallClose ==
    /\ w.state \in {"idle", "unclosed"} /\ r.state = "none"
    /\ w' = [w EXCEPT !.state = "close"]
    /\ UNCHANGED <<stream, given, call, r>>

(* A call that fails here returns 0: nothing was given.                    *)
WriteSignature ==
    /\ w.state \in {"write", "close"} /\ ~w.wroteSignature
    /\ \/ /\ stream' = Append(stream, Signature)
          /\ w' = [w EXCEPT !.wroteSignature = TRUE]
       \/ /\ w.failures < MaxFailures
          /\ \E part \in PartOf(<<Signature>>) : stream' = stream \o part
          /\ w' = Failed(IF w.state = "close" THEN "unclosed" ELSE "idle", w.buf, w.bytesLeft)
    /\ given' = given - (w.todo - w'.todo)
    /\ UNCHANGED <<call, r>>

(* One level of Write's recursion: what the chunk has room for goes to     *)
(* zlib, which writes its head before the first bytes, and a full chunk is *)
(* flushed.  When that fails, the level returns what it took, and the      *)
(* levels around it what they took themselves, without it.                 *)
\* Mutant: a chunk takes whatever it is given.
TakesAll == w.todo

Taken == Min({w.bytesLeft, w.todo})

Buffered ==
    (IF w.buf = <<>> THEN <<ZlibHead>> ELSE w.buf)
        \o [i \in 1..Taken |-> Byte(given - w.todo + i)]

Outermost == IF call.nested THEN call.n ELSE given - w.todo + Taken
Fails == w'.state = "idle"

WriteChunk ==
    /\ w.state = "write" /\ w.wroteSignature /\ w.todo > 0
    /\ IF w.bytesLeft - Taken <= 0
       THEN FlushChunk(Buffered, w.bytesLeft - Taken, w.todo - Taken, "write", "idle")
       ELSE /\ w' = [w EXCEPT !.buf = Buffered, !.bytesLeft = @ - Taken, !.todo = 0]
            /\ UNCHANGED stream
    /\ call' = [nested |-> TRUE, n |-> Outermost, short |-> call.short \/ (Fails /\ call.nested)]
    /\ given' = IF Fails THEN Outermost ELSE given
    /\ UNCHANGED r

EndWrite ==
    /\ w.state = "write" /\ w.wroteSignature /\ w.todo = 0
    /\ w' = [w EXCEPT !.state = "idle"]
    /\ UNCHANGED <<stream, given, call, r>>

\* Mutant: the last chunk is not flushed.
NothingLeft == FALSE

Unfinished == w.buf # <<>>

Close ==
    /\ w.state = "close" /\ w.wroteSignature
    /\ IF Unfinished THEN FlushChunk(w.buf, w.bytesLeft, 0, "closed", "unclosed")
       ELSE w' = [w EXCEPT !.state = "closed"] /\ UNCHANGED stream
    /\ UNCHANGED <<given, call, r>>

BytesWritten == w.compressedBytes + 1

(* NewDataReader.  The stream may have been cut, between two tokens or in  *)
(* one.                                                                    *)
Present(i) ==
    IF i <= r.cut THEN stream[i]
    ELSE IF r.torn THEN Torn ELSE End

NewDataReader ==
    /\ w.state \in {"idle", "unclosed", "closed"} /\ r.state = "none"
    /\ \E cut \in IF MayBeCut THEN 0..Len(stream) ELSE {Len(stream)}, torn \in BOOLEAN :
          /\ torn => cut < Len(stream)
          /\ r' = [r EXCEPT !.state = IF cut > 0 /\ stream[1] = Signature THEN "open"
                                      ELSE "error",
                            !.cut = cut, !.torn = torn, !.at = 2]
    /\ UNCHANGED <<stream, w, given, call>>

(* Read: a new chunk is begun, if none is open; then zlib is asked.        *)
Opens == r.limit = 0 /\ Present(r.at).kind = "size" /\ Present(r.at + 1) = ZlibHead
First == IF r.limit = 0 THEN r.at + 2 ELSE r.at
Limit == IF r.limit = 0 THEN r.at + Present(r.at).of ELSE r.limit
InLimit(i) == i <= Limit

(* The bytes that follow, as many as can be read.                          *)
Pieces ==
    {n \in 1..MaxRead : \A i \in First..First + n - 1 :
        InLimit(i) /\ Present(i).kind = "byte"}
Gives(n) == r.got \o [i \in 1..n |-> Present(First + i - 1).of]

(* The chunk ends: what is left of it, which a second checksum is, has been*)
(* read ahead, or it has not.                                              *)
EndsAt(i) == InLimit(i) /\ Present(i) = Sum
\* Mutant: the zlib reader is kept, and tells the end again.
ZlibKept(i) == {[r EXCEPT !.at = i, !.limit = Limit]}

Ended(i) == {[r EXCEPT !.at = next, !.limit = 0] : next \in {i + 1, Min({Limit, r.cut}) + 1}}

Reads == r.state = "open" /\ (Opens \/ r.limit # 0)

ReadBytes ==
    /\ Reads
    /\ \E n \in Pieces :
          \/ r' = [r EXCEPT !.got = Gives(n), !.at = First + n, !.limit = Limit]
          \/ /\ EndsAt(First + n)
             /\ \E ended \in Ended(First + n) : r' = [ended EXCEPT !.got = Gives(n)]
    /\ UNCHANGED <<stream, w, given, call>>

ReadNothing ==
    /\ Reads /\ EndsAt(First)
    /\ r' \in Ended(First)
    /\ UNCHANGED <<stream, w, given, call>>

\* Mutant: the size of a chunk that is not there to its end is the end.
NoSize == r.limit = 0 /\ Present(r.at) \in {End, Torn}

AtEnd == r.limit = 0 /\ Present(r.at) = End

ReadEOF ==
    /\ r.state = "open" /\ AtEnd
    /\ r' = [r EXCEPT !.state = "ended"]
    /\ UNCHANGED <<stream, w, given, call>>

(* The tokens that zlib comes to: bytes, and the first that is none.       *)
Ahead == {i \in First..Limit : \A j \in First..i - 1 : Present(j).kind = "byte"}

(* The stream ends in a chunk: zlib may have given its bytes before, or    *)
(* some of them.                                                           *)
Broken ==
    \/ r.limit = 0 /\ ~AtEnd /\ r.at >= r.cut
    \/ Reads /\ \E i \in Ahead : i > r.cut

ReadError ==
    /\ r.state = "open" /\ Broken
    /\ r' = [r EXCEPT !.state = "error"]
    /\ UNCHANGED <<stream, w, given, call>>

(* What comes is not a chunk, or not the rest of one, but what was written *)
(* after a write had failed.  The reader takes it for one: from here on it *)
(* may return any bytes, until it comes to an error or to the end.         *)
Astray ==
    \/ r.limit = 0 /\ ~Opens /\ r.at < r.cut
    \/ Reads /\ \A i \in Ahead : i <= r.cut /\ Present(i) # Sum

ReadAstray ==
    /\ r.state = "open" /\ Astray
    /\ r' = [r EXCEPT !.state = "astray"]
    /\ UNCHANGED <<stream, w, given, call>>

Init ==
    /\ stream = <<>> /\ given = 0
    /\ w = [state |-> "idle", todo |-> 0, buf |-> <<>>, bytesLeft |-> ChunkSize,
            wroteSignature |-> FALSE, compressedBytes |-> 0, failures |-> 0]
    /\ call = [nested |-> FALSE, n |-> 0, short |-> FALSE]
    /\ r = [state |-> "none", cut |-> 0, torn |-> FALSE, at |-> 0, limit |-> 0, got |-> <<>>]

Calls == WriteSignature \/ WriteChunk \/ EndWrite \/ Close
Read == ReadBytes \/ ReadNothing \/ ReadEOF \/ ReadError \/ ReadAstray
Next == CallWrite \/ CallClose \/ Calls \/ NewDataReader \/ Read

(* A call that runs goes on, and a reader is read to its end.              *)
Spec == Init /\ [][Next]_vars /\ WF_vars(Calls) /\ WF_vars(Read)
-----------------------------------------------------------------------------
(* A reader gives the bytes that were given to the writer, in their order, *)
(* and all of them, if the writer was closed and the stream is not cut:    *)
(* also when a write has failed and the caller has gone on behind the n    *)
(* that Write returned, up to where the stream is torn, unless it was a    *)
(* level in Write that failed, whose bytes are not in that n.              *)
StreamReadsBack ==
    w.failures <= 1 /\ ~call.short =>
        /\ Len(r.got) <= given
        /\ \A i \in 1..Len(r.got) : r.got[i] = i
        /\ r.state = "ended" /\ w.state = "closed" /\ r.cut = Len(stream) => Len(r.got) = given

(* Whatever fails, bytes may be repeated, and none is left out: each byte  *)
(* that is read, till the reader goes astray, follows the one before or is *)
(* one that was there already, and a stream that is closed and read to its *)
(* end has all that was given.                                             *)
NothingSkipped ==
    /\ \A i \in 1..Len(r.got) : r.got[i] \in 1..(IF i = 1 THEN 1 ELSE r.got[i - 1] + 1)
    /\ r.state = "ended" /\ w.state = "closed" /\ r.cut = Len(stream) => 1..given \subseteq Range(r.got)

(* A stream written without a failure that has lost its end is told by an  *)
(* error, but if it ends with a chunk; one that has lost nothing gives no  *)
(* error; and a reader takes nothing in either for a chunk that is none.   *)
TruncationTold ==
    w.failures = 0 =>
        /\ r.state = "ended" => ~r.torn /\ stream[r.cut] \in {Signature, Sum}
        /\ r.state = "error" => r.cut < Len(stream) \/ stream = <<>>
        /\ r.state # "astray"

(* Chunks are full, but for the last one, which is not empty; and the      *)
(* number of bytes that is reported is that of the stream.                 *)
Sizes == {i \in 1..Len(stream) : stream[i].kind = "size"}
Framed ==
    w.failures = 0 /\ w.wroteSignature =>
        /\ BytesWritten = Len(stream)
        /\ \A i \in Sizes :
              LET bytes == stream[i].of - 2
                  next  == i + stream[i].of + 1
              IN  /\ bytes \in 1..ChunkSize
                  /\ bytes = ChunkSize \/ next = Len(stream) + 1
                  /\ next \in Sizes \cup {Len(stream) + 1}

(* Every call ends, and a reader comes to the end of any stream.           *)
ReadsEnd ==
    /\ w.state \in {"write", "close"} ~> w.state \notin {"write", "close"}
    /\ r.state = "open" ~> r.state # "open"
=============================================================================
