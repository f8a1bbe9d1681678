--------------------------- MODULE SegmentedProofs ---------------------------
(***************************************************************************)
(* For every size of a chunk and any amount of data: while no write has    *)
(* failed, the chunks of a stream are framed and its end is told; while no *)
(* more than one has, what is read back is what was written.               *)
(***************************************************************************)
EXTENDS SegmentedInvariant, TLAPS

-----------------------------------------------------------------------------
LEMMA TokenTypes ==
    /\ Signature \in Tokens /\ ZlibHead \in Tokens /\ Sum \in Tokens /\ Torn \in Tokens
    /\ \A n \in Int : Size(n) \in Tokens /\ Byte(n) \in Tokens
BY DEF Tokens, Token, Signature, ZlibHead, Sum, Torn, Size, Byte

LEMMA Kinds ==
    /\ \A n \in Int : Size(n).kind = "size" /\ Size(n).of = n /\ Byte(n).kind # "size"
    /\ Sum.kind # "size" /\ ZlibHead.kind # "size" /\ Signature.kind # "size"
BY DEF Token, Signature, ZlibHead, Sum, Size, Byte

LEMMA Joined ==
    ASSUME NEW S, NEW a \in Seq(S), NEW b \in Seq(S)
    PROVE  /\ a \o b \in Seq(S) /\ Len(a \o b) = Len(a) + Len(b)
           /\ \A i \in 1..Len(a) : (a \o b)[i] = a[i]
           /\ \A i \in Len(a) + 1..Len(a) + Len(b) : (a \o b)[i] = b[i - Len(a)]
OBVIOUS

LEMMA TakenFits ==
    ASSUME NEW a \in Nat, NEW b \in Nat
    PROVE  Min({a, b}) \in Nat /\ Min({a, b}) <= a /\ Min({a, b}) <= b /\ Min({a, b}) \in {a, b}
<1>1. \E x \in {a, b} : \A y \in {a, b} : x <= y OBVIOUS
<1> QED BY <1>1 DEF Min

LEMMA PartType ==
    ASSUME NEW s \in Seq(Tokens), NEW part \in PartOf(s)
    PROVE  part \in Seq(Tokens)
<1> DEFINE P(n, rest) == SubSeq(s, 1, n) \o rest
<1>1. PartOf(s) = {P(n, rest) : n \in 0..Len(s) - 1, rest \in {<<>>, <<Torn>>}} BY DEF PartOf
<1> HIDE DEF P
<1>2. PICK n \in 0..Len(s) - 1, rest \in {<<>>, <<Torn>>} : part = P(n, rest) BY <1>1
<1>3. rest \in Seq(Tokens)
  <2>1. <<Torn>> \in Seq(Tokens) BY TokenTypes
  <2>2. <<>> \in Seq(Tokens) OBVIOUS
  <2> QED BY <1>2, <2>1, <2>2
<1>4. SubSeq(s, 1, n) \in Seq(Tokens)
  <2>1. \A i \in 1..n : s[i] \in Tokens OBVIOUS
  <2> QED BY <2>1
<1>5. P(n, rest) \in Seq(Tokens) BY <1>3, <1>4, Joined DEF P
<1> QED BY <1>2, <1>5

(* A chunk as flushChunk writes it.                                        *)
ChunkOf(buf) == <<Size(Len(buf) + 1)>> \o Append(buf, Sum)

LEMMA ChunkType ==
    ASSUME NEW buf \in Seq(Tokens)
    PROVE  /\ ChunkOf(buf) \in Seq(Tokens) /\ Append(buf, Sum) \in Seq(Tokens)
           /\ Len(ChunkOf(buf)) = Len(buf) + 2
           /\ ChunkOf(buf)[1] = Size(Len(buf) + 1)
           /\ \A i \in 2..Len(buf) + 1 : ChunkOf(buf)[i] = buf[i - 1]
           /\ ChunkOf(buf)[Len(buf) + 2] = Sum
<1>1. Size(Len(buf) + 1) \in Tokens /\ Sum \in Tokens BY TokenTypes
<1> QED BY <1>1 DEF ChunkOf

LEMMA FlushType ==
    ASSUME WriterTypeOK, NEW buf \in Seq(Tokens), NEW left \in Nat, NEW todo \in Nat,
           NEW state \in States, NEW failedState \in States,
           FlushChunk(buf, left, todo, state, failedState)
    PROVE  stream' \in Seq(Tokens) /\ w' \in Writers
<1>1. Len(Append(buf, Sum)) = Len(buf) + 1 BY TokenTypes
<1> DEFINE chunk == <<Size(Len(Append(buf, Sum)))>> \o Append(buf, Sum)
<1>2. chunk = ChunkOf(buf) BY <1>1 DEF ChunkOf
<1>3. CASE /\ stream' = stream \o chunk
           /\ w' = [w EXCEPT !.state = state, !.todo = todo, !.buf = <<>>,
                             !.bytesLeft = ChunkSize, !.compressedBytes = @ + Len(chunk)]
  <2>1. stream' \in Seq(Tokens) BY <1>2, <1>3, ChunkType, Joined DEF WriterTypeOK
  <2>2. Len(chunk) \in Nat BY <1>2, ChunkType
  <2> HIDE DEF chunk
  <2>3. w' = [w EXCEPT !.state = state, !.todo = todo, !.buf = <<>>, !.bytesLeft = ChunkSize,
                       !.compressedBytes = w.compressedBytes + Len(chunk)]
    BY <1>3
  <2>4. <<>> \in Seq(Tokens) OBVIOUS
  <2>5. w.compressedBytes + Len(chunk) \in Nat BY <2>2 DEF WriterTypeOK, Writers
  <2>6. w' \in Writers BY <2>3, <2>4, <2>5, ChunkAssumption DEF WriterTypeOK, Writers
  <2> QED BY <2>1, <2>6
<1>4. CASE /\ \E part \in PartOf(chunk) : stream' = stream \o part
           /\ w' = Failed(failedState, Append(buf, Sum), left)
  <2>1. PICK part \in PartOf(chunk) : stream' = stream \o part BY <1>4
  <2>2. part \in Seq(Tokens) BY <1>2, <2>1, ChunkType, PartType
  <2>3. stream' \in Seq(Tokens) BY <2>1, <2>2, Joined DEF WriterTypeOK
  <2>4. Append(buf, Sum) \in Seq(Tokens) BY ChunkType
  <2>5. w.failures + 1 \in Nat BY DEF WriterTypeOK, Writers
  <2>6. w' = [w EXCEPT !.state = failedState, !.todo = 0, !.buf = Append(buf, Sum),
                       !.bytesLeft = left, !.failures = w.failures + 1]
    BY <1>4 DEF Failed
  <2>7. w' \in Writers BY <2>4, <2>5, <2>6 DEF WriterTypeOK, Writers
  <2> QED BY <2>3, <2>7
<1> QED BY <1>3, <1>4 DEF FlushChunk

(* A chunk behind full chunks leaves the stream framed.                    *)
LEMMA ChunkChained ==
    ASSUME NEW s \in Seq(Tokens), NEW buf \in Seq(Tokens), NEW short \in BOOLEAN,
           Chained(s, FALSE), Len(buf) - 1 \in 1..ChunkSize,
           Len(buf) - 1 = ChunkSize \/ short,
           \A i \in 1..Len(buf) : buf[i].kind # "size"
    PROVE  Chained(s \o ChunkOf(buf), short)
<1> DEFINE c == ChunkOf(buf)
           t == s \o c
<1>1. c \in Seq(Tokens) /\ Len(c) = Len(buf) + 2 /\ t \in Seq(Tokens) BY ChunkType, Joined
<1>2. Len(t) = Len(s) + Len(c) BY <1>1, Joined
<1>3. \A i \in 1..Len(s) : t[i] = s[i] BY <1>1, Joined
<1>7. \A i \in Len(s) + 1..Len(t) : t[i] = c[i - Len(s)] BY <1>1, Joined
<1>4. t[Len(s) + 1] = c[1] BY <1>1, <1>2, <1>7
<1>5. c[1].kind = "size" /\ c[1].of = Len(buf) + 1
  <2> HIDE DEF c
  <2>1. c[1] = Size(Len(buf) + 1) BY ChunkType DEF c
  <2>2. Len(buf) + 1 \in Int OBVIOUS
  <2> QED BY <2>1, <2>2, Kinds
<1>6. \A i \in 2..Len(c) : c[i].kind # "size"
  <2> SUFFICES ASSUME NEW i \in 2..Len(c) PROVE c[i].kind # "size" OBVIOUS
  <2>1. CASE i = Len(buf) + 2 BY <2>1, ChunkType, Kinds
  <2>2. CASE i \in 2..Len(buf) + 1
    <3>1. c[i] = buf[i - 1] BY <2>2, ChunkType
    <3>2. i - 1 \in 1..Len(buf) BY <2>2
    <3> QED BY <3>1, <3>2
  <2> QED BY <2>1, <2>2, <1>1
<1> HIDE DEF c, t
<1>8. SUFFICES Chained(t, short) BY DEF t, c
<1>9. SUFFICES ASSUME NEW i \in 1..Len(t), t[i].kind = "size"
               PROVE  /\ t[i].of - 2 \in 1..ChunkSize
                      /\ t[i].of - 2 = ChunkSize \/ (short /\ Follow(t, i) = Len(t) + 1)
                      /\ \/ Follow(t, i) = Len(t) + 1
                         \/ Follow(t, i) \in 1..Len(t) /\ t[Follow(t, i)].kind = "size"
  BY DEF Chained
<1>10. CASE i \in 1..Len(s)
  <2>1. t[i] = s[i] /\ Follow(t, i) = Follow(s, i) BY <1>3, <1>10 DEF Follow
  <2>2. /\ s[i].of - 2 \in 1..ChunkSize /\ s[i].of - 2 = ChunkSize
        /\ \/ Follow(s, i) = Len(s) + 1
           \/ Follow(s, i) \in 1..Len(s) /\ s[Follow(s, i)].kind = "size"
    BY <1>9, <1>10, <2>1 DEF Chained
  <2>3. CASE Follow(s, i) = Len(s) + 1
    BY <2>1, <2>2, <2>3, <1>1, <1>2, <1>4, <1>5
  <2>4. CASE Follow(s, i) \in 1..Len(s) /\ s[Follow(s, i)].kind = "size"
    BY <2>1, <2>2, <2>4, <1>1, <1>2, <1>3
  <2> QED BY <2>2, <2>3, <2>4
<1>11. CASE i = Len(s) + 1
  <2>1. t[i].of = Len(buf) + 1 BY <1>4, <1>5, <1>11
  <2>2. Follow(t, i) = Len(t) + 1 BY <2>1, <1>1, <1>2, <1>11 DEF Follow
  <2> QED BY <2>1, <2>2
<1>12. CASE i \in Len(s) + 2..Len(t)
  <2>1. i - Len(s) \in 2..Len(c) BY <1>1, <1>2, <1>12
  <2>2. t[i] = c[i - Len(s)] BY <1>7, <1>12
  <2> QED BY <1>6, <1>9, <2>1, <2>2
<1> QED BY <1>10, <1>11, <1>12

-----------------------------------------------------------------------------
(* FlushChunk keeps the invariant, if the chunk is full or the last one.   *)
LEMMA FlushFrames ==
    ASSUME WriterTypeOK, NEW buf \in Seq(Tokens), NEW left \in Nat, NEW todo \in Nat,
           NEW state \in States, NEW failedState \in States,
           FlushChunk(buf, left, todo, state, failedState), given' \in Int,
           w.wroteSignature, w.failures = 0 => BytesWritten = Len(stream) /\ Chained(stream, FALSE),
           w.failures = 0 => \A i \in 1..Len(buf) : buf[i].kind # "size",
           w.failures = 0 => Len(buf) - 1 \in 1..ChunkSize,
           w.failures = 0 => Len(buf) - 1 = ChunkSize \/ state = "closed"
    PROVE  FramingInvariant'
<1>1. WriterTypeOK' BY FlushType DEF WriterTypeOK
<1> SUFFICES ASSUME w'.failures = 0 PROVE Filling' /\ Written' BY <1>1 DEF FramingInvariant
<1> DEFINE chunk == <<Size(Len(Append(buf, Sum)))>> \o Append(buf, Sum)
<1>2. chunk = ChunkOf(buf)
  <2>1. Len(Append(buf, Sum)) = Len(buf) + 1 BY TokenTypes
  <2> QED BY <2>1 DEF ChunkOf
<1>3. w.failures \in Nat /\ w \in Writers BY DEF WriterTypeOK, Writers
<1>4. w' # Failed(failedState, Append(buf, Sum), left)
  <2>1. Failed(failedState, Append(buf, Sum), left).failures = w.failures + 1
    BY <1>3 DEF Failed, Writers
  <2> QED BY <1>3, <2>1
<1>5. /\ stream' = stream \o chunk
      /\ w' = [w EXCEPT !.state = state, !.todo = todo, !.buf = <<>>,
                        !.bytesLeft = ChunkSize, !.compressedBytes = @ + Len(chunk)]
  BY <1>4 DEF FlushChunk
<1> HIDE DEF chunk
<1>6. /\ w'.state = state /\ w'.buf = <<>> /\ w'.bytesLeft = ChunkSize
      /\ w'.wroteSignature = w.wroteSignature /\ w'.failures = w.failures
      /\ w'.compressedBytes = w.compressedBytes + Len(chunk)
  BY <1>3, <1>5 DEF Writers
<1>7. Filling' BY <1>6 DEF Filling
<1>8. Chained(stream', state = "closed")
  <2>1. Chained(stream, FALSE) BY <1>6
  <2>2. stream \in Seq(Tokens) BY DEF WriterTypeOK
  <2>3. Len(buf) - 1 = ChunkSize \/ (state = "closed") BY <1>6
  <2>4. (state = "closed") \in BOOLEAN OBVIOUS
  <2> QED BY <1>2, <1>5, <1>6, <2>1, <2>2, <2>3, <2>4, ChunkChained
<1>9. BytesWritten' = Len(stream')
  <2>1. Len(stream') = Len(stream) + Len(chunk) BY <1>2, <1>5, ChunkType, Joined DEF WriterTypeOK
  <2>2. Len(stream) = w.compressedBytes + 1 BY <1>6 DEF BytesWritten
  <2>3. Len(chunk) \in Nat /\ w.compressedBytes \in Nat BY <1>2, <1>3, ChunkType DEF Writers
  <2> QED BY <1>6, <2>1, <2>2, <2>3 DEF BytesWritten
<1> QED BY <1>6, <1>7, <1>8, <1>9 DEF Written

LEMMA FramingInit == Init => FramingInvariant
<1> SUFFICES ASSUME Init PROVE FramingInvariant OBVIOUS
<1>1. WriterTypeOK BY ChunkAssumption DEF Init, WriterTypeOK, Writers, States
<1>2. Filling /\ Written BY DEF Init, Filling, Written
<1> QED BY <1>1, <1>2 DEF FramingInvariant

LEMMA FramingSignature == FramingInvariant /\ WriteSignature => FramingInvariant'
<1> SUFFICES ASSUME FramingInvariant, WriteSignature PROVE FramingInvariant' OBVIOUS
<1>1. stream \in Seq(Tokens) /\ w \in Writers /\ given \in Int
  BY DEF FramingInvariant, WriterTypeOK
<1>2. <<Signature>> \in Seq(Tokens) /\ Append(stream, Signature) \in Seq(Tokens)
  BY <1>1, TokenTypes
<1>3. CASE /\ stream' = Append(stream, Signature)
           /\ w' = [w EXCEPT !.wroteSignature = TRUE]
  <2>1. w' \in Writers BY <1>1, <1>3 DEF Writers
  <2>2. given' \in Int BY <1>1, <2>1 DEF WriteSignature, Writers
  <2>3. /\ w'.buf = w.buf /\ w'.bytesLeft = w.bytesLeft /\ w'.state = w.state
        /\ w'.failures = w.failures /\ w'.compressedBytes = w.compressedBytes
        /\ w'.wroteSignature
    BY <1>1, <1>3 DEF Writers
  <2>4. ASSUME w'.failures = 0 PROVE Filling' /\ Written'
    <3>1. Filling /\ Written BY <2>3, <2>4 DEF FramingInvariant
    <3>2. stream = <<>> /\ w.compressedBytes = 0 BY <3>1 DEF Written, WriteSignature
    <3>3. Len(stream') = 1 /\ stream'[1] = Signature BY <1>3, <3>2
    <3>4. Chained(stream', w'.state = "closed")
      <4>1. stream'[1].kind # "size" BY <3>3, Kinds
      <4>2. \A i \in 1..Len(stream') : stream'[i].kind # "size" BY <3>3, <4>1
      <4> QED BY <4>2 DEF Chained
    <3>5. Written' BY <2>3, <3>2, <3>3, <3>4 DEF Written, BytesWritten
    <3>6. Filling' BY <2>3, <3>1 DEF Filling
    <3> QED BY <3>5, <3>6
  <2> QED BY <1>2, <1>3, <2>1, <2>2, <2>4 DEF FramingInvariant, WriterTypeOK
<1>4. CASE /\ \E part \in PartOf(<<Signature>>) : stream' = stream \o part
           /\ w' = Failed(IF w.state = "close" THEN "unclosed" ELSE "idle", w.buf, w.bytesLeft)
  <2>1. stream' \in Seq(Tokens) BY <1>1, <1>2, <1>4, PartType, Joined
  <2>2. w' \in Writers /\ w'.failures # 0
    <3> DEFINE s == IF w.state = "close" THEN "unclosed" ELSE "idle"
    <3>1. s \in States BY DEF States
    <3>2. w.failures \in Nat /\ w.failures + 1 \in Nat /\ w.failures + 1 # 0
      BY <1>1 DEF Writers
    <3> HIDE DEF s
    <3>3. w' = [w EXCEPT !.state = s, !.todo = 0, !.buf = w.buf, !.bytesLeft = w.bytesLeft,
                         !.failures = w.failures + 1]
      BY <1>4 DEF Failed, s
    <3>4. w' \in Writers BY <1>1, <3>1, <3>2, <3>3 DEF Writers
    <3>5. w'.failures = w.failures + 1 BY <1>1, <3>3 DEF Writers
    <3> QED BY <3>2, <3>4, <3>5
  <2>3. given' \in Int BY <1>1, <2>2 DEF WriteSignature, Writers
  <2> QED BY <2>1, <2>2, <2>3 DEF FramingInvariant, WriterTypeOK
<1> QED BY <1>3, <1>4 DEF WriteSignature

LEMMA BufferedType ==
    ASSUME FramingInvariant
    PROVE  /\ Taken \in Nat /\ Taken <= w.bytesLeft /\ Taken <= w.todo
           /\ Taken \in {w.bytesLeft, w.todo} /\ Buffered \in Seq(Tokens)
           /\ w.failures = 0 => \A i \in 1..Len(Buffered) : Buffered[i].kind # "size"
           /\ w.failures = 0 => Len(Buffered) - 1 = ChunkSize - (w.bytesLeft - Taken)
<1> DEFINE old == IF w.buf = <<>> THEN <<ZlibHead>> ELSE w.buf
           new == [i \in 1..Taken |-> Byte(given - w.todo + i)]
<1>1. w.bytesLeft \in Nat /\ w.todo \in Nat /\ w.buf \in Seq(Tokens) /\ given \in Int
  BY DEF FramingInvariant, WriterTypeOK, Writers
<1>2. /\ Taken \in Nat /\ Taken <= w.bytesLeft /\ Taken <= w.todo
      /\ Taken \in {w.bytesLeft, w.todo}
  BY <1>1, TakenFits DEF Taken
<1> HIDE DEF old, new
<1>3. old \in Seq(Tokens) /\ (w.buf = <<>> => Len(old) = 1 /\ old[1] = ZlibHead) /\ (w.buf # <<>> => old = w.buf)
  <2>1. <<ZlibHead>> \in Seq(Tokens) BY TokenTypes
  <2> QED BY <1>1, <2>1 DEF old
<1>4. new \in Seq(Tokens) /\ Len(new) = Taken /\ \A i \in 1..Taken : new[i].kind # "size"
  <2>1. \A i \in 1..Taken : given - w.todo + i \in Int BY <1>1, <1>2
  <2>2. \A i \in 1..Taken : Byte(given - w.todo + i) \in Tokens BY <2>1, TokenTypes
  <2>3. \A i \in 1..Taken : Byte(given - w.todo + i).kind # "size" BY <2>1, Kinds
  <2> QED BY <1>2, <2>2, <2>3 DEF new
<1>5. Buffered = old \o new BY DEF Buffered, old, new
<1>6. /\ Buffered \in Seq(Tokens) /\ Len(Buffered) = Len(old) + Taken
      /\ \A i \in 1..Len(old) : Buffered[i] = old[i]
      /\ \A i \in Len(old) + 1..Len(old) + Taken : Buffered[i] = new[i - Len(old)]
  BY <1>3, <1>4, <1>5, Joined
<1>7. ASSUME w.failures = 0 PROVE \A i \in 1..Len(Buffered) : Buffered[i].kind # "size"
  <2>1. Filling BY <1>7 DEF FramingInvariant
  <2>2. \A i \in 1..Len(old) : old[i].kind # "size" BY <1>3, <2>1, Kinds DEF Filling
  <2> TAKE i \in 1..Len(Buffered)
  <2>3. CASE i \in 1..Len(old) BY <1>6, <2>2, <2>3
  <2>4. CASE i \in Len(old) + 1..Len(old) + Taken
    <3>1. i - Len(old) \in 1..Taken BY <1>2, <1>3, <2>4
    <3> QED BY <1>4, <1>6, <2>4, <3>1
  <2> QED BY <1>2, <1>3, <1>6, <2>3, <2>4
<1>8. ASSUME w.failures = 0 PROVE Len(Buffered) - 1 = ChunkSize - (w.bytesLeft - Taken)
  <2>1. Filling BY <1>8 DEF FramingInvariant
  <2>2. Len(old) = ChunkSize - w.bytesLeft + 1
    <3>1. CASE w.buf = <<>> /\ w.bytesLeft = ChunkSize BY <1>3, <3>1, ChunkAssumption
    <3>2. CASE w.bytesLeft \in 1..ChunkSize - 1 /\ Len(w.buf) = ChunkSize - w.bytesLeft + 1
      <4>1. Len(w.buf) # 0 BY <3>2, ChunkAssumption
      <4>2. w.buf # <<>> BY <4>1
      <4> QED BY <1>3, <3>2, <4>2
    <3> QED BY <2>1, <3>1, <3>2 DEF Filling
  <2>3. Len(Buffered) = ChunkSize - w.bytesLeft + 1 + Taken BY <1>6, <2>2
  <2>4. ChunkSize \in Nat /\ Taken \in Nat /\ w.bytesLeft \in Nat BY <1>1, <1>2, ChunkAssumption
  <2> QED BY <2>3, <2>4
<1> QED BY <1>2, <1>6, <1>7, <1>8

LEMMA OutermostType ==
    FramingInvariant /\ CallTypeOK /\ WriteChunk => Outermost \in Int
<1> SUFFICES ASSUME FramingInvariant, CallTypeOK, WriteChunk PROVE Outermost \in Int OBVIOUS
<1>1. given \in Int /\ w.todo \in Nat /\ Taken \in Nat
  BY BufferedType DEF FramingInvariant, WriterTypeOK, Writers
<1>2. call.n \in Int BY DEF CallTypeOK
<1>3. given - w.todo + Taken \in Int BY <1>1
<1> QED BY <1>2, <1>3 DEF Outermost

LEMMA FramingChunk == FramingInvariant /\ CallTypeOK /\ WriteChunk => FramingInvariant'
<1> SUFFICES ASSUME FramingInvariant, CallTypeOK, WriteChunk PROVE FramingInvariant' OBVIOUS
<1>1. stream \in Seq(Tokens) /\ w \in Writers /\ given \in Int
  BY DEF FramingInvariant, WriterTypeOK
<1>2. w.state = "write" /\ w.wroteSignature /\ w.todo \in Nat /\ w.todo > 0
      /\ w.bytesLeft \in Nat /\ w.failures \in Nat
  BY <1>1 DEF WriteChunk, Writers
<1>3. w.failures = 0 => Filling /\ BytesWritten = Len(stream) /\ Chained(stream, FALSE)
  BY <1>2 DEF FramingInvariant, Written
<1> DEFINE left == w.bytesLeft - Taken
           rest == w.todo - Taken
<1>4. left \in Nat /\ rest \in Nat BY <1>2, BufferedType
<1>5. given' \in Int BY <1>1, OutermostType DEF WriteChunk
<1>6. CASE left <= 0
  <2>1. FlushChunk(Buffered, left, rest, "write", "idle") BY <1>6 DEF WriteChunk
  <2>2. left = 0 BY <1>4, <1>6
  <2>3. w.failures = 0 => Len(Buffered) - 1 = ChunkSize BY <2>2, BufferedType, ChunkAssumption
  <2>4. Buffered \in Seq(Tokens) /\ w.failures = 0 => \A i \in 1..Len(Buffered) : Buffered[i].kind # "size"
    BY BufferedType
  <2>5. WriterTypeOK /\ "write" \in States /\ "idle" \in States BY DEF FramingInvariant, States
  <2>6. Buffered \in Seq(Tokens) BY BufferedType
  <2>7. w.failures = 0 => Len(Buffered) - 1 \in 1..ChunkSize BY <2>3, ChunkAssumption
  <2> HIDE DEF left, rest
  <2> QED BY <1>2, <1>3, <1>4, <1>5, <2>1, <2>3, <2>4, <2>5, <2>6, <2>7, FlushFrames
<1>7. CASE ~(left <= 0)
  <2>1. w' = [w EXCEPT !.buf = Buffered, !.bytesLeft = left, !.todo = 0] /\ stream' = stream
    BY <1>1, <1>7 DEF WriteChunk
  <2>2. Buffered \in Seq(Tokens) BY BufferedType
  <2> HIDE DEF left
  <2>3. w' \in Writers BY <1>1, <1>4, <2>1, <2>2 DEF Writers
  <2>4. /\ w'.buf = Buffered /\ w'.bytesLeft = left /\ w'.state = w.state
        /\ w'.failures = w.failures /\ w'.compressedBytes = w.compressedBytes
        /\ w'.wroteSignature = w.wroteSignature
    BY <1>1, <2>1 DEF Writers
  <2>5. ASSUME w.failures = 0 PROVE Filling' /\ Written'
    <3>1. Len(Buffered) - 1 = ChunkSize - left BY <2>5, BufferedType DEF left
    <3>2. \A i \in 1..Len(Buffered) : Buffered[i].kind # "size" BY <2>5, BufferedType
    <3>3. Taken = w.todo /\ left < ChunkSize
      <4>1. Taken # w.bytesLeft BY <1>2, <1>7, BufferedType DEF left
      <4>2. Taken = w.todo BY <4>1, BufferedType
      <4>3. w.bytesLeft <= ChunkSize BY <1>2, <1>3, <2>5, ChunkAssumption DEF Filling
      <4> QED BY <1>2, <4>2, <4>3, ChunkAssumption DEF left
    <3>4. Filling' BY <1>4, <1>7, <2>2, <2>4, <3>1, <3>2, <3>3, ChunkAssumption DEF Filling
    <3>5. Written' BY <1>2, <1>3, <2>1, <2>4, <2>5 DEF Written, BytesWritten
    <3> QED BY <3>4, <3>5
  <2> QED BY <1>1, <1>5, <2>1, <2>3, <2>4, <2>5 DEF FramingInvariant, WriterTypeOK
<1> QED BY <1>6, <1>7

LEMMA FramingClose == FramingInvariant /\ Close => FramingInvariant'
<1> SUFFICES ASSUME FramingInvariant, Close PROVE FramingInvariant' OBVIOUS
<1>1. stream \in Seq(Tokens) /\ w \in Writers /\ given \in Int /\ given' = given
  BY DEF FramingInvariant, WriterTypeOK, Close
<1>2. w.state = "close" /\ w.wroteSignature /\ w.bytesLeft \in Nat /\ w.buf \in Seq(Tokens)
  BY <1>1 DEF Close, Writers
<1>3. w.failures = 0 => Filling /\ BytesWritten = Len(stream) /\ Chained(stream, FALSE)
  BY <1>2 DEF FramingInvariant, Written
<1>4. CASE Unfinished
  <2>1. FlushChunk(w.buf, w.bytesLeft, 0, "closed", "unclosed") BY <1>4 DEF Close
  <2>2. w.failures = 0 => Len(w.buf) - 1 \in 1..ChunkSize
    BY <1>2, <1>3, <1>4, ChunkAssumption DEF Filling, Unfinished
  <2>3. w.failures = 0 => \A i \in 1..Len(w.buf) : w.buf[i].kind # "size" BY <1>3 DEF Filling
  <2>4. WriterTypeOK /\ "closed" \in States /\ "unclosed" \in States BY DEF FramingInvariant, States
  <2> QED BY <1>1, <1>2, <1>3, <2>1, <2>2, <2>3, <2>4, FlushFrames
<1>5. CASE ~Unfinished
  <2>1. w' = [w EXCEPT !.state = "closed"] /\ stream' = stream BY <1>5 DEF Close
  <2>2. w' \in Writers BY <1>1, <2>1 DEF Writers, States
  <2>3. /\ w'.buf = w.buf /\ w'.bytesLeft = w.bytesLeft /\ w'.failures = w.failures
        /\ w'.compressedBytes = w.compressedBytes /\ w'.wroteSignature = w.wroteSignature
    BY <1>1, <2>1 DEF Writers
  <2>4. ASSUME w.failures = 0 PROVE Filling' /\ Written'
    <3>1. Filling' BY <1>3, <2>3, <2>4 DEF Filling
    <3>2. \A short \in BOOLEAN : Chained(stream, short) BY <1>3, <2>4 DEF Chained
    <3>3. Written' BY <1>2, <1>3, <2>1, <2>3, <2>4, <3>2 DEF Written, BytesWritten
    <3> QED BY <3>1, <3>3
  <2> QED BY <1>1, <2>1, <2>2, <2>3, <2>4 DEF FramingInvariant, WriterTypeOK
<1> QED BY <1>4, <1>5

(* The other steps leave the stream alone, and what of w matters.          *)
LEMMA FramingKept ==
    ASSUME FramingInvariant, w' \in Writers, given' \in Int, stream' = stream,
           w'.buf = w.buf, w'.bytesLeft = w.bytesLeft, w'.failures = w.failures,
           w'.compressedBytes = w.compressedBytes, w'.wroteSignature = w.wroteSignature,
           w'.state = "closed" <=> w.state = "closed"
    PROVE  FramingInvariant'
<1>1. w.failures = 0 => Filling' BY DEF FramingInvariant, Filling
<1>2. (w'.state = "closed") = (w.state = "closed") OBVIOUS
<1>3. w.failures = 0 => Written' BY <1>2 DEF FramingInvariant, Written, BytesWritten
<1> QED BY <1>1, <1>3 DEF FramingInvariant, WriterTypeOK

LEMMA FramingStep == FramingInvariant /\ CallTypeOK /\ [Next]_vars => FramingInvariant'
<1> SUFFICES ASSUME FramingInvariant, CallTypeOK, [Next]_vars PROVE FramingInvariant' OBVIOUS
<1>1. w \in Writers /\ given \in Int BY DEF FramingInvariant, WriterTypeOK
<1>2. CASE CallWrite
  <2>1. PICK n \in 0..MaxData - given :
            w' = [w EXCEPT !.state = "write", !.todo = n] /\ given' = given + n
    BY <1>2 DEF CallWrite
  <2>2. w' \in Writers /\ given' \in Int
    <3>1. n \in Nat BY <1>1, ChunkAssumption
    <3>2. "write" \in States BY DEF States
    <3>3. w' \in Writers BY <1>1, <2>1, <3>1, <3>2 DEF Writers
    <3> QED BY <1>1, <2>1, <3>1, <3>3
  <2>3. w.state # "closed" /\ w'.state # "closed" /\ stream' = stream
    BY <1>1, <1>2, <2>1 DEF CallWrite, Writers
  <2>4. /\ w'.buf = w.buf /\ w'.bytesLeft = w.bytesLeft /\ w'.failures = w.failures
        /\ w'.compressedBytes = w.compressedBytes /\ w'.wroteSignature = w.wroteSignature
    BY <1>1, <2>1 DEF Writers
  <2> QED BY <2>2, <2>3, <2>4, FramingKept
<1>3. CASE CallClose \/ EndWrite
  <2>1. PICK s \in {"close", "idle"} : w' = [w EXCEPT !.state = s]
    BY <1>3 DEF CallClose, EndWrite
  <2>2. w' \in Writers BY <1>1, <2>1 DEF Writers, States
  <2>3. w.state # "closed" /\ w'.state # "closed" /\ stream' = stream /\ given' = given
    BY <1>1, <1>3, <2>1 DEF CallClose, EndWrite, Writers
  <2>4. /\ w'.buf = w.buf /\ w'.bytesLeft = w.bytesLeft /\ w'.failures = w.failures
        /\ w'.compressedBytes = w.compressedBytes /\ w'.wroteSignature = w.wroteSignature
    BY <1>1, <2>1 DEF Writers
  <2> QED BY <1>1, <2>2, <2>3, <2>4, FramingKept
<1>4. CASE WriteSignature BY <1>4, FramingSignature
<1>5. CASE WriteChunk BY <1>5, FramingChunk
<1>6. CASE Close BY <1>6, FramingClose
<1>7. CASE NewDataReader \/ Read \/ UNCHANGED vars
  <2>1. stream' = stream /\ w' = w /\ given' = given
    BY <1>7 DEF NewDataReader, Read, ReadBytes, ReadNothing, ReadEOF, ReadError, ReadAstray, vars
  <2> QED BY <1>1, <2>1, FramingKept
<1> QED BY <1>2, <1>3, <1>4, <1>5, <1>6, <1>7 DEF Next, Calls

(* What Write is to return; a count that was short once stays so.          *)
LEMMA CallStep ==
    FramingInvariant /\ CallTypeOK /\ [Next]_vars => CallTypeOK' /\ (call.short => call'.short)
<1> SUFFICES ASSUME FramingInvariant, CallTypeOK, [Next]_vars
             PROVE  CallTypeOK' /\ (call.short => call'.short)
  OBVIOUS
<1>1. CASE CallWrite
  <2>1. call' = [call EXCEPT !.nested = FALSE] BY <1>1 DEF CallWrite
  <2> QED BY <2>1 DEF CallTypeOK
<1>2. CASE WriteChunk
  <2> DEFINE short == call.short \/ (Fails /\ call.nested)
  <2>1. call' = [nested |-> TRUE, n |-> Outermost, short |-> short] BY <1>2 DEF WriteChunk
  <2>2. short \in BOOLEAN /\ (call.short => short) OBVIOUS
  <2>3. Outermost \in Int BY <1>2, OutermostType
  <2> HIDE DEF short
  <2>4. call'.short = short BY <2>1
  <2> QED BY <2>1, <2>2, <2>3, <2>4 DEF CallTypeOK
<1>3. CASE call' = call BY <1>3 DEF CallTypeOK
<1> QED BY <1>1, <1>2, <1>3
     DEF Next, CallClose, Calls, WriteSignature, EndWrite, Close, NewDataReader,
         Read, ReadBytes, ReadNothing, ReadEOF, ReadError, ReadAstray, vars

LEMMA FramingHolds == Spec => [](FramingInvariant /\ CallTypeOK)
<1>1. Init => FramingInvariant /\ CallTypeOK BY FramingInit DEF Init, CallTypeOK
<1>2. FramingInvariant /\ CallTypeOK /\ [Next]_vars => (FramingInvariant /\ CallTypeOK)'
  BY FramingStep, CallStep
<1> QED BY <1>1, <1>2, PTL DEF Spec

LEMMA ChainsFrame == FramingInvariant => Framed
<1> SUFFICES ASSUME FramingInvariant, w.failures = 0, w.wroteSignature PROVE Framed
  BY DEF Framed
<1>1. BytesWritten = Len(stream) /\ Chained(stream, w.state = "closed")
  BY DEF FramingInvariant, Written
<1>2. stream \in Seq(Tokens) BY DEF FramingInvariant, WriterTypeOK
<1>3. ASSUME NEW i \in Sizes
      PROVE  /\ stream[i].of - 2 \in 1..ChunkSize
             /\ stream[i].of - 2 = ChunkSize \/ i + stream[i].of + 1 = Len(stream) + 1
             /\ i + stream[i].of + 1 \in Sizes \cup {Len(stream) + 1}
  <2>1. i \in 1..Len(stream) /\ stream[i].kind = "size" BY DEF Sizes
  <2> QED BY <1>1, <1>2, <2>1 DEF Chained, Follow, Sizes
<1> QED BY <1>1, <1>3 DEF Framed

(* While no write has failed, every chunk but the last one is full, the    *)
(* last one is not empty, the sizes lead from chunk to chunk to the end,   *)
(* and BytesWritten is the length of the stream (data.go:41-130).          *)
THEOREM StreamsAreFramed == Spec => []Framed
BY FramingHolds, ChainsFrame, PTL
-----------------------------------------------------------------------------
(* What is put behind a stream keeps its laws.                             *)

LEMMA TokenKinds ==
    /\ Signature.kind = "signature" /\ Sum.kind = "sum" /\ ZlibHead.kind = "head"
    /\ Torn.kind = "torn" /\ End.kind = "end"
    /\ \A n \in Int : Size(n).kind = "size" /\ Size(n).of = n
                      /\ Byte(n).kind = "byte" /\ Byte(n).of = n
BY DEF Token, Signature, Sum, ZlibHead, Torn, End, Size, Byte

(* The last byte is told by tokens of the stream itself.                   *)
LEMMA LastByteKept ==
    ASSUME NEW s \in Seq(Tokens), NEW t \in Seq(Tokens), Summed(s), Len(s) <= Len(t),
           \A k \in 1..Len(s) : t[k] = s[k], NEW i \in 1..Len(s), Closes(s, i)
    PROVE  Closes(t, i) /\ LastByte(t, i) = LastByte(s, i)
<1>1. CASE s[i] = Signature BY <1>1 DEF Closes, LastByte
<1>2. CASE s[i] # Signature
  <2>1. s[i] = Sum /\ t[i] = Sum BY <1>2 DEF Closes
  <2>2. i - 1 \in 1..Len(s) /\ (IsByte(s, i - 1) \/ s[i - 1] = Sum) BY <2>1 DEF Summed
  <2>3. t[i - 1] = s[i - 1] BY <2>2
  <2>4. CASE s[i - 1] = Sum
    <3>1. i - 2 \in 1..Len(s) BY <2>2, <2>4 DEF Summed
    <3>2. t[i - 2] = s[i - 2] BY <3>1
    <3> QED BY <1>2, <2>1, <2>3, <2>4, <3>2 DEF Closes, LastByte
  <2>5. CASE s[i - 1] # Sum BY <1>2, <2>1, <2>3, <2>5 DEF Closes, LastByte
  <2> QED BY <2>4, <2>5
<1> QED BY <1>1, <1>2

LEMMA LawsKept ==
    ASSUME NEW s \in Seq(Tokens), Laws(s), NEW d \in Seq(Tokens), NEW b \in Int,
           d # <<>> => d[1].kind \in {"size", "torn", "signature"},
           \A k \in 1..Len(d) : IsByte(d, k) => d[k].of = b + k,
           \A k \in 1..Len(d) : d[k].kind = "size" => k = 1,
           s # <<>> /\ Closes(s, Len(s)) /\ 3 \in 1..Len(d) => b + 3 = LastByte(s, Len(s)) + 1,
           Summed(d), Ending(d)
    PROVE  Laws(s \o d)
<1> DEFINE t == s \o d
           n == Len(s)
<1>1. t \in Seq(Tokens) /\ Len(t) = n + Len(d) /\ n \in Nat /\ Len(d) \in Nat
  BY Joined
<1>2. \A i \in 1..n : t[i] = s[i] BY Joined
<1>3. \A i \in n + 1..Len(t) : t[i] = d[i - n] /\ i - n \in 1..Len(d) BY <1>1, Joined
<1>4. \A k \in 1..Len(d) : t[n + k] = d[k] /\ n + k \in n + 1..Len(t)
  <2> SUFFICES ASSUME NEW k \in 1..Len(d) PROVE t[n + k] = d[k] /\ n + k \in n + 1..Len(t)
    OBVIOUS
  <2>1. n + k \in n + 1..Len(t) /\ (n + k) - n = k BY <1>1
  <2> QED BY <1>3, <2>1
<1>5. \A i \in n + 1..Len(t) : i = n + 1 => t[i].kind \in {"size", "torn", "signature"}
  <2> SUFFICES ASSUME n + 1 \in n + 1..Len(t) PROVE t[n + 1].kind \in {"size", "torn", "signature"}
    OBVIOUS
  <2>1. 1 \in 1..Len(d) /\ d # <<>> BY <1>1
  <2> QED BY <1>4, <2>1
<1> HIDE DEF t, n
<1>6. SUFFICES Laws(t) BY DEF t
<1>7. Running(s) /\ Continuing(s) /\ Ending(s) /\ Summed(s) BY DEF Laws
<1>8. Running(t)
  <2> SUFFICES ASSUME NEW i \in 1..Len(t), NEW j \in 1..Len(t), i <= j,
                      \A k \in i..j : IsByte(t, k)
               PROVE  t[j].of = t[i].of + (j - i)
    BY DEF Running
  <2>1. CASE j <= n
    <3>1. i \in 1..n /\ j \in 1..n BY <1>1, <2>1
    <3>2. \A k \in i..j : k \in 1..n /\ IsByte(s, k) BY <1>1, <1>2, <3>1 DEF IsByte
    <3>3. s[j].of = s[i].of + (j - i) BY <1>7, <3>1, <3>2 DEF Running, n
    <3> QED BY <1>2, <3>1, <3>3
  <2>2. CASE i > n
    <3>1. i \in n + 1..Len(t) /\ j \in n + 1..Len(t) BY <1>1, <2>2
    <3>2. IsByte(t, i) /\ IsByte(t, j) OBVIOUS
    <3>3. t[i].of = b + (i - n) /\ t[j].of = b + (j - n) BY <1>3, <3>1, <3>2 DEF IsByte
    <3> QED BY <1>1, <3>1, <3>3
  <2>3. CASE i <= n /\ j > n
    <3>1. n + 1 \in i..j /\ n + 1 \in n + 1..Len(t) BY <1>1, <2>3
    <3> QED BY <1>5, <3>1 DEF IsByte
  <2> QED BY <1>1, <2>1, <2>2, <2>3
<1>9. Continuing(t)
  <2> SUFFICES ASSUME NEW p \in 2..Len(t) - 2, Begins(t, p), IsByte(t, p + 2), Closes(t, p - 1)
               PROVE  t[p + 2].of = LastByte(t, p - 1) + 1
    BY DEF Continuing
  <2>1. t[p].kind = "size" /\ p + 1 <= Len(t) /\ t[p + 1] = ZlibHead BY DEF Begins
  <2>2. CASE p <= n - 2
    <3>1. p \in 2..n - 2 /\ p - 1 \in 1..n /\ p \in 1..n /\ p + 1 \in 1..n /\ p + 2 \in 1..n
      BY <1>1, <2>2
    <3>2. t[p] = s[p] /\ t[p - 1] = s[p - 1] /\ t[p + 1] = s[p + 1] /\ t[p + 2] = s[p + 2]
      BY <1>2, <3>1
    <3>3. Begins(s, p) /\ IsByte(s, p + 2) /\ Closes(s, p - 1)
      <4>1. p + 1 <= n BY <1>1, <3>1
      <4>2. Begins(s, p) BY <2>1, <3>2, <4>1 DEF Begins, n
      <4>3. IsByte(s, p + 2) BY <3>2 DEF IsByte
      <4>4. Closes(s, p - 1) BY <3>2 DEF Closes
      <4> QED BY <4>2, <4>3, <4>4
    <3>4. s[p + 2].of = LastByte(s, p - 1) + 1 BY <1>7, <3>1, <3>3 DEF Continuing, n
    <3>5. LastByte(t, p - 1) = LastByte(s, p - 1)
      <4>1. p - 1 \in 1..Len(s) /\ Closes(s, p - 1) /\ Summed(s) BY <1>7, <3>1, <3>3 DEF n
      <4>2. Len(s) <= Len(t) /\ \A k \in 1..Len(s) : t[k] = s[k] BY <1>1, <1>2 DEF n
      <4> QED BY <1>1, <4>1, <4>2, LastByteKept
    <3> QED BY <3>2, <3>4, <3>5
  <2>3. CASE p = n - 1
    <3>1. p + 2 \in n + 1..Len(t) /\ p + 2 = n + 1 BY <1>1, <2>3
    <3> QED BY <1>5, <3>1 DEF IsByte
  <2>4. CASE p = n
    <3>1. p + 1 \in n + 1..Len(t) /\ p + 1 = n + 1 BY <1>1, <2>4
    <3> QED BY <1>5, <2>1, <3>1, TokenKinds
  <2>5. CASE p > n
    <3>1. p \in n + 1..Len(t) BY <1>1, <2>5
    <3>2. p = n + 1
      <4>1. t[p] = d[p - n] /\ p - n \in 1..Len(d) BY <1>3, <3>1
      <4>2. d[p - n].kind = "size" BY <2>1, <4>1
      <4>3. p - n = 1 BY <4>1, <4>2
      <4> QED BY <1>1, <4>3
    <3>3. n \in 1..n /\ p - 1 = n /\ s # <<>> /\ 3 \in 1..Len(d) /\ p + 2 = n + 3
      BY <1>1, <3>2 DEF n
    <3>4. t[p + 2] = d[3] /\ t[n] = s[n] BY <1>2, <1>4, <3>3
    <3>5. d[3].of = b + 3 BY <3>3, <3>4 DEF IsByte
    <3>6. Closes(s, n) BY <3>3, <3>4 DEF Closes
    <3>7. LastByte(t, n) = LastByte(s, n)
      BY <1>1, <1>2, <1>7, <3>3, <3>6, LastByteKept DEF n
    <3> QED BY <3>3, <3>4, <3>5, <3>6, <3>7 DEF n
  <2>6. p <= n - 2 \/ p = n - 1 \/ p = n \/ p > n BY <1>1
  <2> QED BY <2>2, <2>3, <2>4, <2>5, <2>6
<1>10. Ending(t)
  <2> SUFFICES ASSUME NEW p \in 1..Len(t), NEW i \in 1..Len(t),
                      Begins(t, p), p + 3 <= i, t[i] = Sum, \A k \in p + 2..i - 1 : IsByte(t, k)
               PROVE  /\ ChunkEnd(t, p) \in {i, i + 1} /\ ChunkEnd(t, p) <= Len(t)
                      /\ t[ChunkEnd(t, p)] = Sum
    BY DEF Ending
  <2>1. t[p].kind = "size" /\ p + 1 <= Len(t) /\ t[p + 1] = ZlibHead BY DEF Begins
  <2>2. CASE i <= n
    <3>1. p \in 1..n /\ i \in 1..n /\ p + 1 \in 1..n BY <1>1, <2>2
    <3>2. t[p] = s[p] /\ t[i] = s[i] /\ t[p + 1] = s[p + 1] BY <1>2, <3>1
    <3>3. \A k \in p + 2..i - 1 : k \in 1..n /\ IsByte(s, k) BY <1>1, <1>2, <3>1 DEF IsByte
    <3>4. Begins(s, p) BY <2>1, <3>1, <3>2 DEF Begins, n
    <3>5. /\ ChunkEnd(s, p) \in {i, i + 1} /\ ChunkEnd(s, p) <= n /\ s[ChunkEnd(s, p)] = Sum
      BY <1>7, <3>1, <3>2, <3>3, <3>4 DEF Ending, n
    <3>6. ChunkEnd(t, p) = ChunkEnd(s, p) BY <3>2 DEF ChunkEnd
    <3>7. ChunkEnd(s, p) \in 1..n BY <1>1, <3>1, <3>5
    <3>8. t[ChunkEnd(s, p)] = s[ChunkEnd(s, p)] BY <1>2, <3>7
    <3> QED BY <1>1, <3>5, <3>6, <3>7, <3>8
  <2>3. CASE p > n
    <3>1. p \in n + 1..Len(t) /\ i \in n + 1..Len(t) BY <1>1, <2>3
    <3>2. p = n + 1 /\ t[p] = d[1]
      <4>1. t[p] = d[p - n] /\ p - n \in 1..Len(d) BY <1>3, <3>1
      <4>2. d[p - n].kind = "size" BY <2>1, <4>1
      <4>3. p - n = 1 BY <4>1, <4>2
      <4> QED BY <1>1, <4>1, <4>3
    <3> DEFINE j == i - n
    <3>3. j \in 1..Len(d) /\ 1 \in 1..Len(d) /\ d[j] = Sum /\ 1 + 3 <= j /\ i = n + j
      BY <1>1, <1>3, <3>1, <3>2
    <3>4. ASSUME NEW k \in 1 + 2..j - 1 PROVE IsByte(d, k)
      <4>1. n + k \in p + 2..i - 1 /\ k \in 1..Len(d) BY <1>1, <3>2, <3>3
      <4> QED BY <1>4, <4>1 DEF IsByte
    <3>5. Begins(d, 1)
      <4>1. 1 + 1 \in 1..Len(d) /\ p + 1 = n + (1 + 1) BY <1>1, <3>2, <3>3
      <4>2. t[p + 1] = d[1 + 1] BY <1>4, <4>1
      <4> QED BY <2>1, <3>2, <4>1, <4>2 DEF Begins
    <3> HIDE DEF j
    <3>6. /\ ChunkEnd(d, 1) \in {j, j + 1} /\ ChunkEnd(d, 1) <= Len(d) /\ d[ChunkEnd(d, 1)] = Sum
      BY <3>3, <3>4, <3>5 DEF Ending
    <3>7. ChunkEnd(t, p) = n + ChunkEnd(d, 1)
      <4>1. d[1] \in Tokens BY <3>3
      <4>2. d[1].of \in Int BY <4>1 DEF Tokens
      <4> QED BY <1>1, <3>2, <4>2 DEF ChunkEnd
    <3>8. ChunkEnd(d, 1) \in 1..Len(d) BY <1>1, <3>3, <3>6
    <3>9. t[ChunkEnd(t, p)] = Sum BY <1>4, <3>6, <3>7, <3>8
    <3>10. ChunkEnd(t, p) \in {i, i + 1} /\ ChunkEnd(t, p) <= Len(t)
      <4> DEFINE e == ChunkEnd(d, 1)
      <4>1. e \in {j, j + 1} /\ e \in 1..Len(d) BY <3>6, <3>8
      <4> HIDE DEF e
      <4>2. n + e \in {n + j, n + j + 1} /\ n + e <= Len(t) BY <1>1, <3>3, <4>1
      <4> QED BY <3>3, <3>7, <4>2 DEF e
    <3> QED BY <3>9, <3>10
  <2>4. CASE p <= n /\ i > n
    <3>1. n + 1 \in n + 1..Len(t) BY <1>1, <2>4
    <3>2. CASE i = n + 1 BY <1>5, <3>1, <3>2, TokenKinds
    <3>3. CASE i > n + 1 /\ p = n BY <1>5, <2>1, <3>1, <3>3, TokenKinds
    <3>4. CASE i > n + 1 /\ p < n
      <4>1. n + 1 \in p + 2..i - 1 BY <1>1, <3>4
      <4> QED BY <1>5, <3>1, <4>1 DEF IsByte
    <3> QED BY <1>1, <2>4, <3>2, <3>3, <3>4
  <2> QED BY <1>1, <2>2, <2>3, <2>4
<1>11. Summed(t)
  <2> SUFFICES ASSUME NEW i \in 1..Len(t), t[i] = Sum
               PROVE  i > 1 /\ (IsByte(t, i - 1) \/ t[i - 1] = Sum)
    BY DEF Summed
  <2>1. CASE i <= n
    <3>1. i \in 1..n /\ s[i] = Sum BY <1>1, <1>2, <2>1
    <3>2. i > 1 /\ (IsByte(s, i - 1) \/ s[i - 1] = Sum) BY <1>7, <3>1 DEF Summed, n
    <3>3. t[i - 1] = s[i - 1] BY <1>1, <1>2, <3>1, <3>2
    <3> QED BY <3>2, <3>3 DEF IsByte
  <2>2. CASE i > n
    <3> DEFINE j == i - n
    <3>1. j \in 1..Len(d) /\ d[j] = Sum /\ i = n + j
      <4>1. i \in n + 1..Len(t) BY <1>1, <2>2
      <4> QED BY <1>1, <1>3, <4>1
    <3> HIDE DEF j
    <3>2. j > 1 /\ (IsByte(d, j - 1) \/ d[j - 1] = Sum) BY <3>1 DEF Summed
    <3>3. j - 1 \in 1..Len(d) /\ n + (j - 1) = i - 1 BY <1>1, <3>1, <3>2
    <3>4. t[i - 1] = d[j - 1] BY <1>4, <3>3
    <3> QED BY <1>1, <3>1, <3>2, <3>4 DEF IsByte
  <2> QED BY <1>1, <2>1, <2>2
<1> QED BY <1>8, <1>9, <1>10, <1>11 DEF Laws

LEMMA WholeKept ==
    ASSUME NEW s \in Seq(Tokens), Whole(s), s # <<>>, NEW d \in Seq(Tokens), Len(d) >= 4,
           d[1] = Size(Len(d) - 1), d[2] = ZlibHead, d[Len(d)] = Sum,
           \A k \in 3..Len(d) - 1 : IsByte(d, k)
    PROVE  Whole(s \o d)
<1> DEFINE t == s \o d
           n == Len(s)
<1>1. t \in Seq(Tokens) /\ Len(t) = n + Len(d) /\ n \in Nat \ {0} /\ Len(d) \in Nat
  BY Joined
<1>2. \A i \in 1..n : t[i] = s[i] BY Joined
<1>3. \A k \in 1..Len(d) : t[n + k] = d[k]
  <2> SUFFICES ASSUME NEW k \in 1..Len(d) PROVE t[n + k] = d[k] OBVIOUS
  <2>1. n + k \in n + 1..Len(t) /\ (n + k) - n = k BY <1>1
  <2> QED BY <1>1, <2>1, Joined
<1>4. d[1].kind = "size" /\ d[1].of = Len(d) - 1 BY <1>1, TokenKinds
<1>5. \A k \in 2..Len(d) : d[k].kind # "size"
  <2> SUFFICES ASSUME NEW k \in 2..Len(d) PROVE d[k].kind # "size" OBVIOUS
  <2>1. k = 2 \/ k = Len(d) \/ k \in 3..Len(d) - 1 BY <1>1
  <2> QED BY <2>1, TokenKinds DEF IsByte
<1> HIDE DEF t, n
<1>6. SUFFICES Whole(t) BY DEF t
<1>7. t # <<>> /\ t[1] = Signature
  <2>1. 1 \in 1..n /\ s[1] = Signature BY <1>1 DEF Whole
  <2> QED BY <1>1, <1>2, <2>1
<1>8. ASSUME NEW p \in 1..Len(t), t[p].kind = "size"
      PROVE  /\ Begins(t, p) /\ t[p].of >= 3 /\ ChunkEnd(t, p) <= Len(t)
             /\ \A k \in p + 2..ChunkEnd(t, p) - 1 : IsByte(t, k)
             /\ t[ChunkEnd(t, p)] = Sum
  <2>1. CASE p <= n
    <3>1. p \in 1..n /\ t[p] = s[p] BY <1>1, <1>2, <2>1
    <3>2. /\ Begins(s, p) /\ s[p].of >= 3 /\ ChunkEnd(s, p) <= n
          /\ \A k \in p + 2..ChunkEnd(s, p) - 1 : IsByte(s, k)
          /\ s[ChunkEnd(s, p)] = Sum
      BY <1>8, <3>1 DEF Whole, n
    <3>3. s[p].of \in Int
      <4>1. s[p] \in Tokens BY <3>1 DEF n
      <4> QED BY <4>1 DEF Tokens
    <3>4. ChunkEnd(t, p) = ChunkEnd(s, p) /\ ChunkEnd(s, p) \in 1..n /\ ChunkEnd(s, p) \in Int
      BY <1>1, <3>1, <3>2, <3>3 DEF ChunkEnd
    <3>5. p + 1 \in 1..n BY <1>1, <3>1, <3>2 DEF Begins, n
    <3>6. Begins(t, p) BY <1>1, <1>2, <3>1, <3>2, <3>5 DEF Begins
    <3>7. ASSUME NEW k \in p + 2..ChunkEnd(s, p) - 1 PROVE IsByte(t, k)
      <4>1. k \in 1..n /\ IsByte(s, k) BY <1>1, <3>1, <3>2, <3>4
      <4> QED BY <1>2, <4>1 DEF IsByte
    <3>8. t[ChunkEnd(s, p)] = Sum BY <1>2, <3>2, <3>4
    <3>9. ChunkEnd(s, p) <= Len(t) BY <1>1, <3>4
    <3> QED BY <3>1, <3>2, <3>4, <3>6, <3>7, <3>8, <3>9
  <2>2. CASE p > n
    <3> DEFINE j == p - n
    <3>1. j \in 1..Len(d) /\ p = n + j BY <1>1, <2>2
    <3> HIDE DEF j
    <3>2. t[p] = d[j] BY <1>3, <3>1
    <3>3. j = 1
      <4>1. j \notin 2..Len(d) BY <1>5, <1>8, <3>2
      <4> QED BY <3>1, <4>1
    <3>4. ChunkEnd(t, p) = Len(t)
      <4>1. t[p].of = Len(d) - 1 /\ p = n + 1 BY <1>4, <3>1, <3>2, <3>3
      <4> QED BY <1>1, <4>1 DEF ChunkEnd
    <3>5. t[p + 1] = d[2] /\ t[Len(t)] = d[Len(d)] /\ p + 1 <= Len(t)
      <4>1. 2 \in 1..Len(d) /\ Len(d) \in 1..Len(d) /\ p + 1 = n + 2 BY <1>1, <3>1, <3>3
      <4>2. t[n + 2] = d[2] /\ t[n + Len(d)] = d[Len(d)] BY <1>3, <4>1
      <4>3. p + 1 <= Len(t) BY <1>1, <4>1
      <4> QED BY <1>1, <4>1, <4>2, <4>3
    <3>6. ASSUME NEW k \in p + 2..Len(t) - 1 PROVE IsByte(t, k)
      <4>1. k - n \in 3..Len(d) - 1 /\ k - n \in 1..Len(d) /\ n + (k - n) = k BY <1>1, <3>1, <3>3
      <4>2. t[k] = d[k - n] BY <1>3, <4>1
      <4> QED BY <4>1, <4>2 DEF IsByte
    <3> QED BY <1>1, <1>4, <1>8, <3>2, <3>3, <3>4, <3>5, <3>6 DEF Begins
  <2> QED BY <1>1, <2>1, <2>2
<1>9. ASSUME NEW i \in 1..Len(t) - 1, Closes(t, i) PROVE t[i + 1].kind = "size"
  <2>1. CASE i < n
    <3>1. i \in 1..n - 1 /\ i \in 1..n /\ i + 1 \in 1..n BY <1>1, <2>1
    <3>2. t[i] = s[i] /\ t[i + 1] = s[i + 1] BY <1>2, <3>1
    <3> QED BY <1>9, <3>1, <3>2 DEF Closes, Whole, n
  <2>2. CASE i = n
    <3>1. 1 \in 1..Len(d) BY <1>1
    <3> QED BY <1>3, <1>4, <2>2, <3>1
  <2>3. CASE i > n
    <3> DEFINE j == i - n
    <3>1. j \in 1..Len(d) - 1 /\ j \in 1..Len(d) /\ i = n + j BY <1>1, <2>3
    <3> HIDE DEF j
    <3>2. t[i] = d[j] BY <1>3, <3>1
    <3>3. j = 1 \/ j = 2 \/ j \in 3..Len(d) - 1 BY <3>1
    <3>4. d[j].kind \notin {"signature", "sum"} BY <1>4, <3>3, TokenKinds DEF IsByte
    <3> QED BY <1>9, <3>2, <3>4, TokenKinds DEF Closes
  <2> QED BY <1>1, <2>1, <2>2, <2>3
<1> QED BY <1>7, <1>8, <1>9 DEF Whole

-----------------------------------------------------------------------------
(* The chunk of a filled buffer, and a part of it.                         *)

LEMMA ChunkIs ==
    ASSUME NEW buf \in Seq(Tokens), NEW m, NEW last \in Int, Filled(buf, m, last)
    PROVE  LET d == ChunkOf(buf)
           IN  /\ d \in Seq(Tokens) /\ Len(d) = Len(buf) + 2 /\ Len(d) >= 4
               /\ m \in Nat /\ m >= 2 /\ Len(d) - m \in {2, 3}
               /\ d[1] = Size(Len(d) - 1) /\ d[2] = ZlibHead
               /\ \A k \in 3..m + 1 : d[k] = Byte(last - m - 1 + k)
               /\ \A k \in m + 2..Len(d) : d[k] = Sum
<1> DEFINE d == ChunkOf(buf)
<1>1. /\ d \in Seq(Tokens) /\ Len(d) = Len(buf) + 2
      /\ d[1] = Size(Len(buf) + 1)
      /\ \A i \in 2..Len(buf) + 1 : d[i] = buf[i - 1]
      /\ d[Len(buf) + 2] = Sum
  BY ChunkType
<1> HIDE DEF d
<1>2. /\ m \in 2..Len(buf) /\ Len(buf) - m \in {0, 1} /\ buf[1] = ZlibHead
      /\ \A k \in 2..m : buf[k] = Byte(last - m + k)
      /\ Len(buf) > m => buf[Len(buf)] = Sum
  BY DEF Filled
<1>3. Len(buf) \in Nat /\ m \in Nat BY <1>2
<1>4. d[2] = ZlibHead
  <2>1. 2 \in 2..Len(buf) + 1 /\ 2 - 1 = 1 BY <1>2, <1>3
  <2> QED BY <1>1, <1>2, <2>1
<1>5. ASSUME NEW k \in 3..m + 1 PROVE d[k] = Byte(last - m - 1 + k)
  <2>1. k \in 2..Len(buf) + 1 /\ k - 1 \in 2..m BY <1>2, <1>3
  <2>2. d[k] = buf[k - 1] /\ buf[k - 1] = Byte(last - m + (k - 1)) BY <1>1, <1>2, <2>1
  <2>3. last - m + (k - 1) = last - m - 1 + k BY <1>3
  <2> QED BY <2>2, <2>3
<1>6. ASSUME NEW k \in m + 2..Len(d) PROVE d[k] = Sum
  <2>1. k = Len(buf) + 2 \/ (k = Len(buf) + 1 /\ Len(buf) > m) BY <1>1, <1>2, <1>3
  <2>2. CASE k = Len(buf) + 1 /\ Len(buf) > m
    <3>1. k \in 2..Len(buf) + 1 /\ k - 1 = Len(buf) BY <1>2, <1>3, <2>2
    <3>2. d[k] = buf[Len(buf)] BY <1>1, <3>1
    <3> QED BY <1>2, <2>2, <3>2
  <2> QED BY <1>1, <2>1, <2>2
<1>7. Len(d) - 1 = Len(buf) + 1 /\ Len(d) >= 4 /\ m >= 2 /\ Len(d) - m \in {2, 3}
  BY <1>1, <1>2, <1>3
<1>8. d[1] = Size(Len(d) - 1) BY <1>1, <1>7
<1> QED BY <1>1, <1>3, <1>4, <1>5, <1>6, <1>7, <1>8 DEF d

LEMMA ChunkLaws ==
    ASSUME NEW buf \in Seq(Tokens), NEW m, NEW last \in Int, Filled(buf, m, last),
           NEW d, d = ChunkOf(buf)
    PROVE  /\ \A k \in 1..Len(d) : IsByte(d, k) => k <= m + 1 /\ d[k].of = (last - m - 1) + k
           /\ \A k \in 1..Len(d) : d[k].kind = "size" => k = 1
           /\ Summed(d) /\ Ending(d)
<1>1. /\ d \in Seq(Tokens) /\ Len(d) >= 4
      /\ m \in Nat /\ m >= 2 /\ Len(d) - m \in {2, 3}
      /\ d[1] = Size(Len(d) - 1) /\ d[2] = ZlibHead
      /\ \A k \in 3..m + 1 : d[k] = Byte(last - m - 1 + k)
      /\ \A k \in m + 2..Len(d) : d[k] = Sum
  BY ChunkIs
<1>2. Len(d) \in Nat BY <1>1
<1>3. \A k \in 1..Len(d) : k = 1 \/ k = 2 \/ k \in 3..m + 1 \/ k \in m + 2..Len(d)
  BY <1>1, <1>2
<1>4. d[1].kind = "size" /\ d[1].of = Len(d) - 1 /\ d[2].kind = "head" BY <1>1, <1>2, TokenKinds
<1>5. \A k \in 3..m + 1 : d[k].kind = "byte" /\ d[k].of = (last - m - 1) + k
  <2> TAKE k \in 3..m + 1
  <2>1. last - m - 1 + k \in Int BY <1>1
  <2> QED BY <1>1, <2>1, TokenKinds
<1>6. \A k \in m + 2..Len(d) : d[k].kind = "sum" BY <1>1, TokenKinds
<1>7. \A k \in 1..Len(d) : IsByte(d, k) => k \in 3..m + 1
  BY <1>3, <1>4, <1>6 DEF IsByte
<1>8. \A k \in 1..Len(d) : d[k] = Sum => k \in m + 2..Len(d)
  BY <1>3, <1>4, <1>5, TokenKinds
<1>9. \A k \in 1..Len(d) : d[k].kind = "size" => k = 1 BY <1>3, <1>4, <1>5, <1>6
<1>10. Summed(d)
  <2> SUFFICES ASSUME NEW i \in 1..Len(d), d[i] = Sum
               PROVE  i > 1 /\ (IsByte(d, i - 1) \/ d[i - 1] = Sum)
    BY DEF Summed
  <2>1. i \in m + 2..Len(d) BY <1>8
  <2>2. CASE i = m + 2
    <3>1. i - 1 \in 3..m + 1 /\ i > 1 BY <1>1, <2>2
    <3> QED BY <1>5, <3>1 DEF IsByte
  <2>3. CASE i # m + 2
    <3>1. i - 1 \in m + 2..Len(d) /\ i > 1 BY <1>1, <1>2, <2>1, <2>3
    <3> QED BY <1>1, <3>1
  <2> QED BY <2>2, <2>3
<1>11. Ending(d)
  <2> SUFFICES ASSUME NEW p \in 1..Len(d), NEW i \in 1..Len(d),
                      Begins(d, p), p + 3 <= i, d[i] = Sum, \A k \in p + 2..i - 1 : IsByte(d, k)
               PROVE  /\ ChunkEnd(d, p) \in {i, i + 1} /\ ChunkEnd(d, p) <= Len(d)
                      /\ d[ChunkEnd(d, p)] = Sum
    BY DEF Ending
  <2>1. p = 1 BY <1>9 DEF Begins
  <2>2. ChunkEnd(d, p) = Len(d) BY <1>2, <1>4, <2>1 DEF ChunkEnd
  <2>3. i \in m + 2..Len(d) BY <1>8
  <2>4. i = m + 2
    <3>1. CASE i # m + 2
      <4>1. m + 2 \in p + 2..i - 1 /\ m + 2 \in 1..Len(d) BY <1>1, <1>2, <2>1, <2>3, <3>1
      <4>2. m + 2 \in 3..m + 1 BY <1>7, <4>1
      <4> QED BY <1>1, <4>2
    <3> QED BY <3>1
  <2>5. Len(d) \in {i, i + 1} BY <1>1, <1>2, <2>4
  <2>6. d[Len(d)] = Sum
    <3>1. Len(d) \in m + 2..Len(d) BY <1>1, <1>2
    <3> QED BY <1>1, <3>1
  <2> QED BY <1>2, <2>2, <2>5, <2>6
<1> QED BY <1>1, <1>5, <1>7, <1>9, <1>10, <1>11

LEMMA PartIs ==
    ASSUME NEW s \in Seq(Tokens), NEW part \in PartOf(s)
    PROVE  /\ part \in Seq(Tokens)
           /\ \A k \in 1..Len(part) : part[k] = Torn \/ (k < Len(s) /\ k \in 1..Len(s) /\ part[k] = s[k])
<1>1. part \in Seq(Tokens) BY PartType
<1> DEFINE P(n, rest) == SubSeq(s, 1, n) \o rest
<1>2. PartOf(s) = {P(n, rest) : n \in 0..Len(s) - 1, rest \in {<<>>, <<Torn>>}} BY DEF PartOf
<1> HIDE DEF P
<1>3. PICK n \in 0..Len(s) - 1, rest \in {<<>>, <<Torn>>} : part = P(n, rest) BY <1>2
<1>4. rest \in Seq(Tokens) /\ Len(rest) \in {0, 1} /\ \A k \in 1..Len(rest) : rest[k] = Torn
  <2>1. <<Torn>> \in Seq(Tokens) BY TokenTypes
  <2>2. CASE rest = <<Torn>> BY <2>1, <2>2
  <2>3. CASE rest = <<>> BY <2>3
  <2> QED BY <1>3, <2>2, <2>3
<1> DEFINE a == SubSeq(s, 1, n)
<1>5. a \in Seq(Tokens) /\ Len(a) = n /\ \A k \in 1..n : a[k] = s[k]
  <2>1. \A i \in 1..n : s[i] \in Tokens OBVIOUS
  <2> QED BY <2>1
<1>6. part = a \o rest BY <1>3 DEF P
<1> HIDE DEF a
<1>7. ASSUME NEW k \in 1..Len(part)
      PROVE  part[k] = Torn \/ (k < Len(s) /\ k \in 1..Len(s) /\ part[k] = s[k])
  <2>1. Len(part) = n + Len(rest) BY <1>4, <1>5, <1>6, Joined
  <2>2. CASE k \in 1..n
    <3>1. part[k] = a[k] BY <1>4, <1>5, <1>6, <2>2, Joined
    <3>2. k < Len(s) /\ k \in 1..Len(s) BY <2>2
    <3> QED BY <1>5, <2>2, <3>1, <3>2
  <2>3. CASE k \notin 1..n
    <3>1. k \in n + 1..n + Len(rest) BY <2>1, <2>3, <1>4
    <3>2. part[k] = rest[k - n] BY <1>4, <1>5, <1>6, <3>1, Joined
    <3>3. k - n \in 1..Len(rest) BY <1>4, <3>1
    <3> QED BY <1>4, <3>2, <3>3
  <2> QED BY <2>2, <2>3
<1> QED BY <1>1, <1>7

(* A part of a chunk ends in no checksum, so that it is never taken for a  *)
(* whole one.                                                              *)
LEMMA PartLaws ==
    ASSUME NEW buf \in Seq(Tokens), NEW m, NEW last \in Int, Filled(buf, m, last), Len(buf) = m,
           NEW d \in PartOf(ChunkOf(buf))
    PROVE  /\ d \in Seq(Tokens)
           /\ d # <<>> => d[1].kind \in {"size", "torn", "signature"}
           /\ \A k \in 1..Len(d) : IsByte(d, k) => d[k].of = (last - m - 1) + k
           /\ \A k \in 1..Len(d) : IsByte(d, k) => d[k].of <= last
           /\ \A k \in 1..Len(d) : d[k].kind = "size" => k = 1
           /\ \A k \in 1..Len(d) : d[k] # Sum /\ d[k] # Signature
           /\ Summed(d) /\ Ending(d)
<1> DEFINE c == ChunkOf(buf)
<1>1. /\ c \in Seq(Tokens) /\ Len(c) = m + 2 /\ m \in Nat /\ m >= 2
      /\ c[1] = Size(Len(c) - 1) /\ c[2] = ZlibHead
      /\ \A k \in 3..m + 1 : c[k] = Byte(last - m - 1 + k)
  BY ChunkIs
<1>2. \A k \in 1..Len(c) : IsByte(c, k) => k <= m + 1 /\ c[k].of = (last - m - 1) + k
  BY ChunkLaws
<1>3. \A k \in 1..Len(c) : c[k].kind = "size" => k = 1 BY ChunkLaws
<1> HIDE DEF c
<1>4. /\ d \in Seq(Tokens)
      /\ \A k \in 1..Len(d) : d[k] = Torn \/ (k < Len(c) /\ k \in 1..Len(c) /\ d[k] = c[k])
  BY <1>1, PartIs DEF c
<1>5. ASSUME NEW k \in 1..Len(d)
      PROVE  /\ d[k] # Sum /\ d[k] # Signature
             /\ IsByte(d, k) => d[k].of = (last - m - 1) + k /\ d[k].of <= last
             /\ d[k].kind = "size" => k = 1
             /\ k = 1 => d[k].kind \in {"size", "torn", "signature"}
  <2>1. CASE d[k] = Torn BY <2>1, TokenKinds DEF IsByte
  <2>2. CASE k < Len(c) /\ k \in 1..Len(c) /\ d[k] = c[k]
    <3>1. k = 1 \/ k = 2 \/ k \in 3..m + 1 BY <1>1, <2>2
    <3>2. c[k].kind \in {"size", "head", "byte"} /\ (k = 1 => c[k].kind = "size")
      <4>1. CASE k = 1
        <5>1. Len(c) - 1 \in Int BY <1>1
        <5> QED BY <1>1, <4>1, <5>1, TokenKinds
      <4>2. CASE k = 2 BY <1>1, <4>2, TokenKinds
      <4>3. CASE k \in 3..m + 1
        <5>1. last - m - 1 + k \in Int BY <1>1
        <5> QED BY <1>1, <4>3, <5>1, TokenKinds
      <4> QED BY <3>1, <4>1, <4>2, <4>3
    <3>3. d[k] # Sum /\ d[k] # Signature BY <2>2, <3>2, TokenKinds
    <3>4. IsByte(d, k) => d[k].of = (last - m - 1) + k /\ k <= m + 1 BY <1>2, <2>2 DEF IsByte
    <3>5. (last - m - 1) + k <= last \/ ~(k <= m + 1) BY <1>1
    <3> QED BY <1>3, <2>2, <3>2, <3>3, <3>4, <3>5
  <2> QED BY <1>4, <2>1, <2>2
<1>6. Summed(d) /\ Ending(d) BY <1>5 DEF Summed, Ending
<1>7. d # <<>> => 1 \in 1..Len(d) BY <1>4
<1> QED BY <1>4, <1>5, <1>6, <1>7

-----------------------------------------------------------------------------
(* The writer keeps the laws, as long as at most one write has failed.     *)

(* What flushChunk can be given, and what it makes of the stream and of the *)
(* buffer.                                                                 *)
Flushable(buf, m, last) ==
    /\ Laws(stream) /\ stream # <<>> /\ UpToDone(stream, last)
    /\ w.failures = 0 => Whole(stream)
    /\ Filled(buf, m, last) /\ (Len(buf) > m => w.failures = 1)
    /\ Closes(stream, Len(stream)) => LastByte(stream, Len(stream)) = last - m + 1

Flushed(m, last, left, todo, state, failedState) ==
    /\ Laws(stream') /\ stream' # <<>> /\ UpToDone(stream', last)
    /\ w'.failures = 0 => Whole(stream')
    /\ w'.wroteSignature = w.wroteSignature
    /\ \/ /\ w'.buf = <<>> /\ w'.bytesLeft = ChunkSize
          /\ w'.state = state /\ w'.todo = todo
          /\ Closes(stream', Len(stream')) /\ LastByte(stream', Len(stream')) = last
       \/ /\ w'.buf # <<>> /\ w'.bytesLeft = left /\ w'.state = failedState
          /\ w'.todo = 0 /\ w'.failures = 1
          /\ Filled(w'.buf, m, last) /\ Len(w'.buf) > m
          /\ Closes(stream', Len(stream')) => LastByte(stream', Len(stream')) = last - m + 1

LEMMA FlushReads ==
    ASSUME WriterTypeOK, w.failures <= 1, w'.failures <= 1,
           NEW buf \in Seq(Tokens), NEW m, NEW last \in Nat, Flushable(buf, m, last),
           NEW left, NEW todo, NEW state, NEW failedState,
           FlushChunk(buf, left, todo, state, failedState)
    PROVE  Flushed(m, last, left, todo, state, failedState)
<1>a. /\ Laws(stream) /\ stream # <<>> /\ UpToDone(stream, last)
      /\ w.failures = 0 => Whole(stream)
      /\ Filled(buf, m, last) /\ (Len(buf) > m => w.failures = 1)
      /\ Closes(stream, Len(stream)) => LastByte(stream, Len(stream)) = last - m + 1
  BY DEF Flushable
<1> USE <1>a
<1>1. stream \in Seq(Tokens) /\ w \in Writers /\ w.failures \in Nat
  BY DEF WriterTypeOK, Writers
<1> DEFINE closed == Append(buf, Sum)
           chunk  == <<Size(Len(closed))>> \o closed
<1>2. chunk = ChunkOf(buf) /\ closed \in Seq(Tokens) /\ Len(closed) = Len(buf) + 1
  <2>1. Len(closed) = Len(buf) + 1 /\ closed \in Seq(Tokens) BY TokenTypes
  <2> QED BY <2>1 DEF ChunkOf
<1> DEFINE done == /\ stream' = stream \o chunk
                   /\ w' = [w EXCEPT !.state = state, !.todo = todo, !.buf = <<>>,
                                     !.bytesLeft = ChunkSize, !.compressedBytes = @ + Len(chunk)]
           failed == /\ \E part \in PartOf(chunk) : stream' = stream \o part
                     /\ w' = Failed(failedState, closed, left)
<1>3. done \/ failed BY DEF FlushChunk
<1> HIDE DEF closed, chunk
<1>4. /\ chunk \in Seq(Tokens) /\ Len(chunk) = Len(buf) + 2 /\ Len(chunk) >= 4
      /\ m \in Nat /\ m >= 2 /\ Len(chunk) - m \in {2, 3}
      /\ chunk[1] = Size(Len(chunk) - 1) /\ chunk[2] = ZlibHead
      /\ \A k \in 3..m + 1 : chunk[k] = Byte(last - m - 1 + k)
      /\ \A k \in m + 2..Len(chunk) : chunk[k] = Sum
  BY <1>2, ChunkIs
<1>5. stream # <<>> /\ Closes(stream, Len(stream)) =>
         (last - m - 1) + 3 = LastByte(stream, Len(stream)) + 1
  BY <1>4
<1>6. last - m - 1 \in Int BY <1>4
<1>7. CASE done
  <2>1. /\ \A k \in 1..Len(chunk) : IsByte(chunk, k) => k <= m + 1 /\ chunk[k].of = (last - m - 1) + k
        /\ \A k \in 1..Len(chunk) : chunk[k].kind = "size" => k = 1
        /\ Summed(chunk) /\ Ending(chunk)
    BY <1>2, ChunkLaws
  <2>2. chunk[1].kind = "size"
    <3>1. Len(chunk) - 1 \in Int BY <1>4
    <3> QED BY <1>4, <3>1, TokenKinds
  <2>3. Laws(stream \o chunk) BY <1>1, <1>4, <1>5, <1>6, <2>1, <2>2, LawsKept
  <2>4. /\ stream' = stream \o chunk
        /\ w'.buf = <<>> /\ w'.bytesLeft = ChunkSize /\ w'.state = state /\ w'.todo = todo
        /\ w'.failures = w.failures /\ w'.wroteSignature = w.wroteSignature
    BY <1>1, <1>7 DEF Writers
  <2> DEFINE t == stream \o chunk
             n == Len(stream)
  <2>5. /\ Len(t) = n + Len(chunk) /\ n \in Nat /\ Len(chunk) \in Nat
        /\ \A i \in 1..n : t[i] = stream[i]
        /\ \A i \in n + 1..n + Len(chunk) : t[i] = chunk[i - n]
    <3>1. chunk \in Seq(Tokens) BY <1>4
    <3> QED BY <1>1, <3>1, Joined
  <2> HIDE DEF t, n
  <2>6. t # <<>> /\ Len(t) >= 4 BY <1>4, <2>5
  <2>7. UpToDone(t, last)
    <3> SUFFICES ASSUME NEW i \in 1..Len(t), IsByte(t, i) PROVE t[i].of <= last BY DEF UpToDone
    <3>1. CASE i <= n
      <4>1. i \in 1..n /\ t[i] = stream[i] BY <2>5, <3>1
      <4> QED BY <4>1 DEF UpToDone, IsByte, n
    <3>2. CASE i > n
      <4>1. i \in n + 1..n + Len(chunk) /\ i - n \in 1..Len(chunk) BY <2>5, <3>2
      <4>2. t[i] = chunk[i - n] BY <2>5, <4>1
      <4>3. i - n <= m + 1 /\ t[i].of = (last - m - 1) + (i - n) BY <2>1, <4>1, <4>2 DEF IsByte
      <4> DEFINE k == i - n
      <4>4. k \in Int BY <4>1
      <4> HIDE DEF k
      <4>5. k <= m + 1 => (last - m - 1) + k <= last BY <1>4, <4>4
      <4> QED BY <4>3, <4>5 DEF k
    <3> QED BY <2>5, <3>1, <3>2
  <2>8. ASSUME w.failures = 0 PROVE Whole(t)
    <3>1. Len(chunk) = m + 2 BY <1>4, <2>4, <1>1, <2>8
    <3>2. \A k \in 3..Len(chunk) - 1 : IsByte(chunk, k)
      <4> TAKE k \in 3..Len(chunk) - 1
      <4>1. k \in 3..m + 1 /\ last - m - 1 + k \in Int BY <1>4, <3>1
      <4> QED BY <1>4, <4>1, TokenKinds DEF IsByte
    <3>3. chunk[Len(chunk)] = Sum
      <4>1. Len(chunk) \in m + 2..Len(chunk) BY <1>4, <3>1
      <4> QED BY <1>4, <4>1
    <3> QED BY <1>1, <1>4, <2>8, <3>2, <3>3, WholeKept DEF t
  <2>9. Closes(t, Len(t)) /\ LastByte(t, Len(t)) = last
    <3>1. \A k \in 1..Len(chunk) : t[n + k] = chunk[k]
      <4> TAKE k \in 1..Len(chunk)
      <4>1. n + k \in n + 1..n + Len(chunk) /\ (n + k) - n = k BY <2>5
      <4> QED BY <2>5, <4>1
    <3>2. t[n + Len(chunk)] = Sum
      <4>1. Len(chunk) \in 1..Len(chunk) /\ Len(chunk) \in m + 2..Len(chunk) BY <1>4
      <4>2. t[n + Len(chunk)] = chunk[Len(chunk)] BY <3>1, <4>1
      <4> QED BY <1>4, <4>1, <4>2
    <3>3. t[n + m + 1].of = last /\ t[n + m + 1] # Sum
      <4>1. m + 1 \in 3..m + 1 /\ m + 1 \in 1..Len(chunk) /\ last - m - 1 + (m + 1) = last
        BY <1>4
      <4>2. n + (m + 1) = n + m + 1 BY <1>4, <2>5
      <4>3. t[n + (m + 1)] = chunk[m + 1] BY <3>1, <4>1
      <4>4. chunk[m + 1] = Byte(last - m - 1 + (m + 1)) BY <1>4, <4>1
      <4>5. t[n + m + 1] = Byte(last) BY <4>1, <4>2, <4>3, <4>4
      <4> QED BY <4>5, TokenKinds
    <3>4. Sum # Signature BY TokenKinds
    <3>5. CASE Len(chunk) = m + 2
      <4>1. (n + Len(chunk)) - 1 = n + m + 1
        <5>1. m \in Int /\ n \in Int /\ Len(chunk) = m + 2 BY <1>4, <2>5, <3>5
        <5> QED BY <5>1
      <4> QED BY <2>5, <3>2, <3>3, <3>4, <4>1 DEF Closes, LastByte
    <3>6. CASE Len(chunk) = m + 3
      <4>1. (n + Len(chunk)) - 1 = n + (m + 2) /\ (n + Len(chunk)) - 2 = n + m + 1
        <5>1. m \in Int /\ n \in Int /\ Len(chunk) = m + 3 BY <1>4, <2>5, <3>6
        <5> QED BY <5>1
      <4>2. m + 2 \in 1..Len(chunk) /\ m + 2 \in m + 2..Len(chunk) BY <1>4, <3>6
      <4>3. t[n + (m + 2)] = Sum BY <1>4, <3>1, <4>2
      <4> QED BY <2>5, <3>2, <3>3, <3>4, <4>1, <4>3 DEF Closes, LastByte
    <3>7. Len(chunk) = m + 2 \/ Len(chunk) = m + 3 BY <1>4
    <3> QED BY <3>5, <3>6, <3>7
  <2> QED BY <2>3, <2>4, <2>6, <2>7, <2>8, <2>9 DEF t, Flushed
<1>8. CASE failed
  <2>1. PICK part \in PartOf(chunk) : stream' = stream \o part BY <1>8
  <2>2. /\ w'.buf = closed /\ w'.bytesLeft = left /\ w'.state = failedState /\ w'.todo = 0
        /\ w'.failures = w.failures + 1 /\ w'.wroteSignature = w.wroteSignature
    BY <1>1, <1>8 DEF Failed, Writers
  <2>3. w.failures = 0 /\ w'.failures = 1 BY <1>1, <2>2
  <2>4. Len(buf) = m BY <1>4, <2>3
  <2>5. /\ part \in Seq(Tokens)
        /\ part # <<>> => part[1].kind \in {"size", "torn", "signature"}
        /\ \A k \in 1..Len(part) : IsByte(part, k) => part[k].of = (last - m - 1) + k
        /\ \A k \in 1..Len(part) : IsByte(part, k) => part[k].of <= last
        /\ \A k \in 1..Len(part) : part[k].kind = "size" => k = 1
        /\ \A k \in 1..Len(part) : part[k] # Sum /\ part[k] # Signature
        /\ Summed(part) /\ Ending(part)
    BY <1>2, <2>1, <2>4, PartLaws
  <2>6. Laws(stream \o part) BY <1>1, <1>5, <1>6, <2>5, LawsKept
  <2> DEFINE t == stream \o part
             n == Len(stream)
  <2>7. /\ Len(t) = n + Len(part) /\ n \in Nat /\ n # 0 /\ Len(part) \in Nat
        /\ t \in Seq(Tokens)
        /\ \A i \in 1..n : t[i] = stream[i]
        /\ \A i \in n + 1..n + Len(part) : t[i] = part[i - n]
    BY <1>1, <2>5, Joined
  <2> HIDE DEF t, n
  <2>8. UpToDone(t, last)
    <3> SUFFICES ASSUME NEW i \in 1..Len(t), IsByte(t, i) PROVE t[i].of <= last BY DEF UpToDone
    <3>1. CASE i <= n
      <4>1. i \in 1..n /\ t[i] = stream[i] BY <2>7, <3>1
      <4> QED BY <4>1 DEF UpToDone, IsByte, n
    <3>2. CASE i > n
      <4>1. i \in n + 1..n + Len(part) /\ i - n \in 1..Len(part) BY <2>7, <3>2
      <4>2. t[i] = part[i - n] BY <2>7, <4>1
      <4> QED BY <2>5, <4>1, <4>2 DEF IsByte
    <3> QED BY <2>7, <3>1, <3>2
  <2>9. ASSUME Closes(t, Len(t)) PROVE LastByte(t, Len(t)) = last - m + 1
    <3>1. CASE part = <<>>
      <4>1. Len(t) = n /\ n \in 1..n /\ t[n] = stream[n] BY <2>7, <3>1
      <4>2. Closes(stream, n) BY <2>9, <4>1 DEF Closes
      <4>3. Summed(stream) BY DEF Laws
      <4>4. LastByte(t, n) = LastByte(stream, n)
        BY <1>1, <2>7, <4>1, <4>2, <4>3, LastByteKept DEF n
      <4> QED BY <4>1, <4>2, <4>4 DEF n
    <3>2. CASE part # <<>>
      <4>1. Len(part) \in 1..Len(part) BY <2>5, <3>2
      <4>2. Len(t) \in n + 1..n + Len(part) /\ Len(t) - n = Len(part) BY <2>7, <4>1
      <4>3. t[Len(t)] = part[Len(part)] BY <2>7, <4>2
      <4> QED BY <2>5, <2>9, <4>1, <4>3 DEF Closes
    <3> QED BY <3>1, <3>2
  <2>10. Filled(closed, m, last) /\ Len(closed) > m /\ closed # <<>>
    <3>1. /\ m \in 2..Len(buf) /\ buf[1] = ZlibHead
          /\ \A k \in 2..m : buf[k] = Byte(last - m + k)
      BY DEF Filled
    <3>2. Len(closed) = m + 1 /\ closed[m + 1] = Sum /\ \A k \in 1..m : closed[k] = buf[k]
      BY <1>2, <2>4 DEF closed
    <3> QED BY <1>4, <3>1, <3>2 DEF Filled
  <2>11. t # <<>> BY <2>7
  <2> QED BY <2>1, <2>2, <2>3, <2>6, <2>8, <2>9, <2>10, <2>11 DEF t, Flushed
<1> QED BY <1>3, <1>7, <1>8

(* The steps that put nothing on the stream.                               *)
LEMMA WritingKept ==
    ASSUME Writing, stream' = stream, w'.buf = w.buf, w'.bytesLeft = w.bytesLeft,
           w'.failures = w.failures, w'.wroteSignature = w.wroteSignature, Done' = Done,
           w'.state # "write" => w'.todo = 0,
           w'.state = "closed" => w.wroteSignature /\ w.buf = <<>>,
           w.state \in {"unclosed", "close"} => w'.state \in {"unclosed", "close"} \/ w.buf = <<>>
    PROVE  Writing'
<1>1. EmptyBuffer => EmptyBuffer' BY DEF EmptyBuffer
<1>2. ASSUME NEW m \in Nat, FullBuffer(m), w.buf # <<>> PROVE FullBuffer(m)'
  <2>1. Filled(w'.buf, m, Done') BY <1>2 DEF FullBuffer
  <2> QED BY <1>2, <2>1 DEF FullBuffer
<1>3. Buffer'
  <2>1. CASE w.buf = <<>> BY <1>1, <2>1 DEF Writing, Buffer
  <2>2. CASE w.buf # <<>>
    <3>1. PICK m \in Nat : FullBuffer(m) BY <2>2 DEF Writing, Buffer
    <3>2. FullBuffer(m)' BY <1>2, <2>2, <3>1
    <3> QED BY <2>2, <3>2 DEF Buffer
  <2> QED BY <2>1, <2>2
<1> QED BY <1>3 DEF Writing

LEMMA WritingInit == Init => Writing
<1> SUFFICES ASSUME Init PROVE Writing OBVIOUS
<1>1. /\ stream = <<>> /\ Len(stream) = 0 /\ Done = 0 /\ w.buf = <<>> /\ w.bytesLeft = ChunkSize
      /\ ~w.wroteSignature /\ w.state = "idle" /\ w.todo = 0
  BY DEF Init, Done
<1>2. Laws(stream)
  BY <1>1 DEF Laws, Running, Continuing, Ending, Summed
<1>3. Whole(stream) /\ UpToDone(stream, Done) BY <1>1 DEF Whole, UpToDone
<1>4. Buffer BY <1>1 DEF Buffer, EmptyBuffer
<1> QED BY <1>1, <1>2, <1>3, <1>4 DEF Writing

LEMMA WritingSignature ==
    ASSUME FramingInvariant, Writing, WriteSignature, w'.failures <= 1
    PROVE  Writing'
<1>1. stream \in Seq(Tokens) /\ w \in Writers /\ given \in Int
      /\ w.failures \in Nat /\ w.todo \in Nat /\ w.state \in States
  BY DEF FramingInvariant, WriterTypeOK, Writers
<1>2. w.buf = <<>> /\ Done = 0 /\ w.bytesLeft = ChunkSize /\ ~w.wroteSignature
  BY DEF Writing, Buffer, EmptyBuffer, FullBuffer, WriteSignature
<1>3. Laws(stream) /\ UpToDone(stream, Done) BY DEF Writing
<1>4. w.failures = 0 => stream = <<>> BY <1>2 DEF FramingInvariant, Written
<1>5. <<Signature>> \in Seq(Tokens) /\ Len(<<Signature>>) = 1 BY TokenTypes
(* Tokens that are no bytes keep the laws.                                 *)
<1>6. ASSUME NEW d \in Seq(Tokens), \A k \in 1..Len(d) : d[k] \in {Torn, Signature}, Len(d) <= 2
      PROVE  Laws(stream \o d) /\ UpToDone(stream \o d, 0)
  <2>1. \A k \in 1..Len(d) : d[k].kind \in {"torn", "signature"} BY <1>6, TokenKinds
  <2>2. d # <<>> => d[1].kind \in {"size", "torn", "signature"}
    <3>1. d # <<>> => 1 \in 1..Len(d) BY <1>6
    <3> QED BY <2>1, <3>1
  <2>3. Summed(d) /\ Ending(d)
    <3>1. \A k \in 1..Len(d) : d[k] # Sum BY <2>1, TokenKinds
    <3> QED BY <3>1 DEF Summed, Ending
  <2>4. Len(d) \in Nat /\ 3 \notin 1..Len(d) /\ 0 \in Int BY <1>6
  <2>5. Laws(stream \o d) BY <1>1, <1>3, <2>1, <2>2, <2>3, <2>4, LawsKept DEF IsByte
  <2>6. UpToDone(stream \o d, 0)
    <3> DEFINE t == stream \o d
    <3>1. /\ Len(t) = Len(stream) + Len(d)
          /\ \A i \in 1..Len(stream) : t[i] = stream[i]
          /\ \A i \in Len(stream) + 1..Len(stream) + Len(d) : t[i] = d[i - Len(stream)]
      BY <1>1, Joined
    <3> HIDE DEF t
    <3>2. ASSUME NEW i \in 1..Len(t), IsByte(t, i) PROVE t[i].of <= 0
      <4>1. CASE i <= Len(stream)
        <5>1. i \in 1..Len(stream) BY <1>1, <3>1, <4>1
        <5> QED BY <1>2, <1>3, <3>1, <3>2, <5>1 DEF UpToDone, IsByte
      <4>2. CASE i > Len(stream)
        <5>1. i \in Len(stream) + 1..Len(stream) + Len(d) /\ i - Len(stream) \in 1..Len(d)
          BY <1>1, <2>4, <3>1, <4>2
        <5> QED BY <2>1, <3>1, <3>2, <5>1 DEF IsByte
      <4> QED BY <1>1, <4>1, <4>2
    <3> QED BY <3>2 DEF UpToDone, t
  <2> QED BY <2>5, <2>6
<1>7. ASSUME Laws(stream'), UpToDone(stream', 0), w'.failures = 0 => Whole(stream'), Done' = 0,
             w'.buf = <<>>, w'.bytesLeft = ChunkSize,
             w'.wroteSignature => stream' # <<>> /\ Closes(stream', Len(stream'))
                                  /\ LastByte(stream', Len(stream')) = 0,
             w'.state # "write" => w'.todo = 0, w'.state # "closed"
      PROVE  Writing'
  <2>1. EmptyBuffer' BY <1>7 DEF EmptyBuffer
  <2> QED BY <1>7, <2>1 DEF Writing, Buffer
<1>8. CASE /\ stream' = Append(stream, Signature)
           /\ w' = [w EXCEPT !.wroteSignature = TRUE]
  <2>1. stream' = stream \o <<Signature>> BY <1>1, <1>8, TokenTypes
  <2>2. /\ w'.buf = <<>> /\ w'.bytesLeft = ChunkSize /\ w'.state = w.state
        /\ w'.todo = w.todo /\ w'.failures = w.failures
    BY <1>1, <1>2, <1>8 DEF Writers
  <2>3. Laws(stream') /\ UpToDone(stream', 0)
    <3>1. /\ \A k \in 1..Len(<<Signature>>) : <<Signature>>[k] \in {Torn, Signature}
          /\ Len(<<Signature>>) <= 2
      OBVIOUS
    <3>2. Laws(stream \o <<Signature>>) /\ UpToDone(stream \o <<Signature>>, 0)
      BY <1>5, <1>6, <3>1
    <3> QED BY <2>1, <3>2
  <2>4. Done' = 0
    <3>1. given' = given - (w.todo - w'.todo) BY DEF WriteSignature
    <3>2. given - (w.todo - w.todo) = given BY <1>1
    <3> QED BY <1>2, <2>2, <3>1, <3>2 DEF Done
  <2>5. w'.failures = 0 => Whole(stream')
    <3> SUFFICES ASSUME stream = <<>> PROVE Whole(stream') BY <1>4, <2>2
    <3>1. stream' = <<Signature>> BY <1>8
    <3>2. Len(stream') = 1 /\ stream'[1] = Signature BY <3>1
    <3>3. \A p \in 1..Len(stream') : stream'[p].kind # "size" BY <3>2, TokenKinds
    <3> QED BY <3>2, <3>3 DEF Whole
  <2>6. stream' # <<>> /\ Closes(stream', Len(stream')) /\ LastByte(stream', Len(stream')) = 0
    <3>1. stream'[Len(stream')] = Signature /\ stream' # <<>> BY <1>1, <1>8, TokenTypes
    <3> QED BY <3>1 DEF Closes, LastByte
  <2>7. (w'.state # "write" => w'.todo = 0) /\ w'.state # "closed"
    BY <2>2 DEF Writing, WriteSignature
  <2> QED BY <1>7, <2>2, <2>3, <2>4, <2>5, <2>6, <2>7
<1>9. CASE /\ \E part \in PartOf(<<Signature>>) : stream' = stream \o part
           /\ w' = Failed(IF w.state = "close" THEN "unclosed" ELSE "idle", w.buf, w.bytesLeft)
  <2>1. PICK part \in PartOf(<<Signature>>) : stream' = stream \o part BY <1>9
  <2>2. /\ w'.buf = <<>> /\ w'.bytesLeft = ChunkSize /\ w'.todo = 0
        /\ w'.state \in {"unclosed", "idle"}
        /\ w'.failures = w.failures + 1 /\ w'.wroteSignature = w.wroteSignature
    BY <1>1, <1>2, <1>9 DEF Failed, Writers
  <2>3. part \in Seq(Tokens) /\ \A k \in 1..Len(part) : part[k] = Torn
    <3>1. /\ part \in Seq(Tokens)
          /\ \A k \in 1..Len(part) : part[k] = Torn \/ (k < 1 /\ k \in 1..1)
      BY <1>5, PartIs
    <3> QED BY <3>1
  <2>4. Len(part) <= 2
    <3> DEFINE P(n, rest) == SubSeq(<<Signature>>, 1, n) \o rest
    <3>1. PartOf(<<Signature>>) = {P(n, rest) : n \in 0..0, rest \in {<<>>, <<Torn>>}}
      BY <1>5 DEF PartOf
    <3> HIDE DEF P
    <3>2. PICK n \in 0..0, rest \in {<<>>, <<Torn>>} : part = P(n, rest) BY <3>1
    <3>3. part = SubSeq(<<Signature>>, 1, 0) \o rest BY <3>2 DEF P
    <3>4. SubSeq(<<Signature>>, 1, 0) = <<>> OBVIOUS
    <3>5. Len(<<>> \o <<>>) = 0 /\ Len(<<>> \o <<Torn>>) = 1 OBVIOUS
    <3>6. Len(part) \in {0, 1} BY <3>2, <3>3, <3>4, <3>5
    <3> QED BY <3>6
  <2>5. Laws(stream') /\ UpToDone(stream', 0) BY <1>6, <2>1, <2>3, <2>4
  <2>6. w'.failures # 0 BY <1>1, <2>2
  <2>7. Done' = 0
    <3>1. given' = given - (w.todo - w'.todo) BY DEF WriteSignature
    <3>2. given - (w.todo - 0) = 0 /\ 0 - 0 = 0 BY <1>1, <1>2 DEF Done
    <3> QED BY <2>2, <3>1, <3>2 DEF Done
  <2> QED BY <1>2, <1>7, <2>2, <2>5, <2>6, <2>7
<1> QED BY <1>8, <1>9 DEF WriteSignature

(* The buffer as zlib has filled it, when a chunk takes what it has room   *)
(* for.                                                                    *)
LEMMA BufferedFills ==
    ASSUME FramingInvariant, Writing, WriteChunk, w.failures <= 1,
           NEW last \in Nat, last = Done + Taken
    PROVE  \E m \in Nat :
              /\ Filled(Buffered, m, last)
              /\ stream # <<>>
              /\ Closes(stream, Len(stream)) =>
                    LastByte(stream, Len(stream)) = last - m + 1
              /\ Len(Buffered) > m => w.failures = 1 /\ w.bytesLeft = 0
<1>1. /\ w.bytesLeft \in Nat /\ w.todo \in Nat /\ w.buf \in Seq(Tokens) /\ given \in Int
      /\ w.todo > 0 /\ w.state = "write" /\ w.wroteSignature /\ Done \in Nat /\ Done = given - w.todo
  BY DEF FramingInvariant, WriterTypeOK, Writers, WriteChunk, Writing, Done
<1>2. /\ Taken \in Nat /\ Taken <= w.bytesLeft /\ Taken <= w.todo
      /\ Taken \in {w.bytesLeft, w.todo}
  BY <1>1, TakenFits DEF Taken
<1> DEFINE old == IF w.buf = <<>> THEN <<ZlibHead>> ELSE w.buf
           new == [i \in 1..Taken |-> Byte(given - w.todo + i)]
<1>3. old \in Seq(Tokens)
  <2>1. <<ZlibHead>> \in Seq(Tokens) BY TokenTypes
  <2> QED BY <1>1, <2>1
<1>4. new \in Seq(Tokens) /\ Len(new) = Taken /\ \A i \in 1..Taken : new[i] = Byte(Done + i)
  <2>1. \A i \in 1..Taken : given - w.todo + i \in Int BY <1>1, <1>2
  <2>2. \A i \in 1..Taken : Byte(given - w.todo + i) \in Tokens BY <2>1, TokenTypes
  <2> QED BY <1>1, <1>2, <2>2
<1>5. Buffered = old \o new BY DEF Buffered
<1> HIDE DEF old, new
<1>6. /\ Buffered \in Seq(Tokens) /\ Len(Buffered) = Len(old) + Taken /\ Len(old) \in Nat
      /\ \A i \in 1..Len(old) : Buffered[i] = old[i]
      /\ \A i \in Len(old) + 1..Len(old) + Taken : Buffered[i] = Byte(Done + (i - Len(old)))
  <2>1. /\ Buffered \in Seq(Tokens) /\ Len(Buffered) = Len(old) + Taken
        /\ \A i \in 1..Len(old) : Buffered[i] = old[i]
        /\ \A i \in Len(old) + 1..Len(old) + Taken : Buffered[i] = new[i - Len(old)]
    BY <1>3, <1>4, <1>5, Joined
  <2>2. Len(old) \in Nat BY <1>3
  <2>3. ASSUME NEW i \in Len(old) + 1..Len(old) + Taken
        PROVE  Buffered[i] = Byte(Done + (i - Len(old)))
    <3>1. i - Len(old) \in 1..Taken BY <1>2, <2>2
    <3> QED BY <1>4, <2>1, <3>1
  <2> QED BY <2>1, <2>2, <2>3
<1>7. CASE w.buf = <<>>
  <2>1. EmptyBuffer BY <1>7 DEF Writing, Buffer
  <2>2. w.bytesLeft > 0 BY <2>1, ChunkAssumption DEF EmptyBuffer
  <2>3. Taken >= 1 BY <1>1, <1>2, <2>2
  <2>4. Len(old) = 1 /\ old[1] = ZlibHead BY <1>7 DEF old
  <2> PICK m \in Nat : m = 1 + Taken BY <1>2
  <2>5. m \in 2..Len(Buffered) /\ Len(Buffered) - m \in {0, 1} /\ ~(Len(Buffered) > m)
    BY <1>2, <1>6, <2>3, <2>4
  <2>6. Buffered[1] = ZlibHead BY <1>6, <2>4
  <2>7. ASSUME NEW k \in 2..m PROVE Buffered[k] = Byte(last - m + k)
    <3>1. k \in Len(old) + 1..Len(old) + Taken BY <1>2, <2>4
    <3>2. Done + (k - 1) = last - m + k
      <4>1. k \in Int /\ Done \in Int /\ Taken \in Int BY <1>1, <1>2
      <4> QED BY <4>1
    <3> QED BY <1>6, <2>4, <3>1, <3>2
  <2>8. Filled(Buffered, m, last) BY <2>5, <2>6, <2>7 DEF Filled
  <2>9. stream # <<>> /\ LastByte(stream, Len(stream)) = last - m + 1
    <3>1. last - m + 1 = Done
      <4>1. Done \in Int /\ Taken \in Int BY <1>1, <1>2
      <4> QED BY <4>1
    <3> QED BY <1>1, <2>1, <3>1 DEF EmptyBuffer
  <2> QED BY <2>5, <2>8, <2>9
<1>8. CASE w.buf # <<>>
  <2>1. PICK m \in Nat : FullBuffer(m) BY <1>8 DEF Writing, Buffer
  <2>2. /\ m \in 2..Len(w.buf) /\ Len(w.buf) - m \in {0, 1} /\ w.buf[1] = ZlibHead
        /\ \A k \in 2..m : w.buf[k] = Byte(Done - m + k)
        /\ Len(w.buf) > m => w.buf[Len(w.buf)] = Sum
    BY <2>1 DEF FullBuffer, Filled
  <2>3. old = w.buf BY <1>8 DEF old
  <2>4. stream # <<>> /\ (Closes(stream, Len(stream)) => LastByte(stream, Len(stream)) = Done - m + 1)
    BY <2>1 DEF FullBuffer
  <2>5. CASE Len(w.buf) = m
    <3>1. w.bytesLeft > 0 BY <2>1, <2>5 DEF FullBuffer
    <3> PICK l \in Nat : l = m + Taken BY <1>2
    <3>2. l \in 2..Len(Buffered) /\ Len(Buffered) - l \in {0, 1} /\ ~(Len(Buffered) > l)
      BY <1>2, <1>6, <2>2, <2>3, <2>5
    <3>3. Buffered[1] = ZlibHead
      <4>1. 1 \in 1..Len(old) BY <2>2, <2>3
      <4> QED BY <1>6, <2>2, <2>3, <4>1
    <3>4. ASSUME NEW k \in 2..l PROVE Buffered[k] = Byte(last - l + k)
      <4>1. last - l = Done - m /\ k \in Int
        <5>1. Done \in Int /\ Taken \in Int BY <1>1, <1>2
        <5> QED BY <5>1
      <4>2. CASE k <= m
        <5>1. k \in 2..m /\ k \in 1..Len(old) BY <2>3, <2>5, <4>2
        <5>2. Buffered[k] = w.buf[k] /\ w.buf[k] = Byte(Done - m + k) BY <1>6, <2>2, <2>3, <5>1
        <5> QED BY <4>1, <5>2
      <4>3. CASE k > m
        <5>1. k \in Len(old) + 1..Len(old) + Taken BY <1>2, <2>3, <2>5, <4>3
        <5>2. Buffered[k] = Byte(Done + (k - Len(old))) BY <1>6, <5>1
        <5>3. Done + (k - m) = (Done - m) + k
          <6>1. Done \in Int BY <1>1
          <6> QED BY <4>1, <6>1
        <5> QED BY <2>3, <2>5, <4>1, <5>2, <5>3
      <4> QED BY <4>2, <4>3
    <3>5. Filled(Buffered, l, last) BY <3>2, <3>3, <3>4 DEF Filled
    <3>6. last - l + 1 = Done - m + 1
      <4>1. Done \in Int /\ Taken \in Int BY <1>1, <1>2
      <4> QED BY <4>1
    <3> QED BY <2>4, <3>2, <3>5, <3>6
  <2>6. CASE Len(w.buf) > m
    <3>1. w.failures = 1 /\ w.bytesLeft = 0 BY <1>1, <2>1, <2>6 DEF FullBuffer
    <3>2. Taken = 0 /\ last = Done BY <1>1, <1>2, <3>1
    <3>3. Len(Buffered) = Len(w.buf) /\ \A i \in 1..Len(w.buf) : Buffered[i] = w.buf[i]
      BY <1>6, <2>3, <3>2
    <3>4. 1 \in 1..Len(w.buf) /\ Len(w.buf) \in 1..Len(w.buf) /\ \A k \in 2..m : k \in 1..Len(w.buf)
      BY <2>2
    <3>5. Filled(Buffered, m, last)
      BY <2>2, <3>2, <3>3, <3>4 DEF Filled
    <3> QED BY <2>4, <3>1, <3>2, <3>5
  <2>7. Len(w.buf) = m \/ Len(w.buf) > m
    <3>1. Len(w.buf) \in Nat BY <1>1
    <3> QED BY <2>2, <3>1
  <2> QED BY <2>5, <2>6, <2>7
<1> QED BY <1>7, <1>8

LEMMA WritingChunk ==
    ASSUME FramingInvariant, CallTypeOK, Writing, WriteChunk, w'.failures <= 1, w.failures <= 1,
           ~call'.short
    PROVE  Writing'
<1>1. /\ stream \in Seq(Tokens) /\ w \in Writers /\ given \in Int
      /\ w.bytesLeft \in Nat /\ w.todo \in Nat /\ w.failures \in Nat
      /\ w.state = "write" /\ w.wroteSignature /\ Done \in Nat /\ Done = given - w.todo
      /\ WriterTypeOK
  BY DEF FramingInvariant, WriterTypeOK, Writers, WriteChunk, Writing, Done
<1>2. /\ Taken \in Nat /\ Taken <= w.bytesLeft /\ Taken <= w.todo
      /\ Taken \in {w.bytesLeft, w.todo} /\ Buffered \in Seq(Tokens)
  BY BufferedType
<1> PICK last \in Nat : last = Done + Taken BY <1>1, <1>2
<1> PICK left \in Nat : left = w.bytesLeft - Taken BY <1>1, <1>2
<1> PICK rest \in Nat : rest = w.todo - Taken BY <1>1, <1>2
<1>3. PICK m \in Nat :
         /\ Filled(Buffered, m, last) /\ stream # <<>>
         /\ Closes(stream, Len(stream)) => LastByte(stream, Len(stream)) = last - m + 1
         /\ Len(Buffered) > m => w.failures = 1 /\ w.bytesLeft = 0
  BY BufferedFills
<1>4. Done <= last BY <1>1, <1>2
<1>5. UpToDone(stream, last)
  <2> SUFFICES ASSUME NEW i \in 1..Len(stream), IsByte(stream, i) PROVE stream[i].of <= last
    BY DEF UpToDone
  <2>1. stream[i].of \in Int
    <3>1. stream[i] \in Tokens BY <1>1
    <3> QED BY <3>1 DEF Tokens
  <2>2. stream[i].of <= Done BY DEF Writing, UpToDone
  <2> QED BY <1>1, <1>4, <2>1, <2>2
<1>6. w'.todo = (IF Fails THEN 0 ELSE rest) => Done' = last
  <2> SUFFICES ASSUME w'.todo = IF Fails THEN 0 ELSE rest PROVE Done' = last OBVIOUS
  <2>1. CASE Fails
    <3>1. ~call.nested
      <4>1. call' = [nested |-> TRUE, n |-> Outermost, short |-> call.short \/ (Fails /\ call.nested)]
        BY DEF WriteChunk
      <4>2. call'.short <=> (call.short \/ (Fails /\ call.nested)) BY <4>1
      <4> QED BY <2>1, <4>2
    <3>2. given' = given - w.todo + Taken BY <2>1, <3>1 DEF WriteChunk, Outermost
    <3>3. Done' = given' - w'.todo /\ Done = given - w.todo BY DEF Done
    <3>4. w'.todo = 0 BY <2>1
    <3>5. \A g, t, k \in Int : (g - t + k) - 0 = (g - t) + k OBVIOUS
    <3>6. given \in Int /\ w.todo \in Int /\ Taken \in Int BY <1>1, <1>2
    <3>7. Done' = (given - w.todo) + Taken BY <3>2, <3>3, <3>4, <3>5, <3>6
    <3> QED BY <3>3, <3>7
  <2>2. CASE ~Fails
    <3>1. given' = given BY <2>2 DEF WriteChunk
    <3>2. Done' = given - (w.todo - Taken) BY <2>2, <3>1 DEF Done
    <3>3. \A g, t, k \in Int : g - (t - k) = (g - t) + k OBVIOUS
    <3>4. given \in Int /\ w.todo \in Int /\ Taken \in Int BY <1>1, <1>2
    <3>5. Done' = (given - w.todo) + Taken BY <3>2, <3>3, <3>4
    <3>6. Done = given - w.todo BY DEF Done
    <3> QED BY <3>5, <3>6
  <2> QED BY <2>1, <2>2
<1>7. Laws(stream) /\ (w.failures = 0 => Whole(stream)) BY DEF Writing
<1>8. CASE left <= 0
  <2>1. FlushChunk(Buffered, left, rest, "write", "idle") BY <1>1, <1>8 DEF WriteChunk
  <2>2. left = 0 BY <1>4, <1>8
  <2>3. "write" \in States /\ "idle" \in States BY DEF States
  <2>4. Flushed(m, last, left, rest, "write", "idle")
    <3>1. Flushable(Buffered, m, last) BY <1>3, <1>5, <1>7 DEF Flushable
    <3> QED BY <1>1, <1>2, <2>1, <3>1, FlushReads
  <2>5. Done' = last
    <3>1. \/ w'.state = "write" /\ w'.todo = rest
          \/ w'.state = "idle" /\ w'.todo = 0
      BY <2>4 DEF Flushed
    <3> QED BY <1>6, <3>1 DEF Fails
  <2>6. Buffer'
    <3>1. CASE w'.buf = <<>>
      <4>1. EmptyBuffer' BY <1>1, <2>4, <2>5, <3>1 DEF EmptyBuffer, Flushed
      <4> QED BY <3>1, <4>1 DEF Buffer
    <3>2. CASE w'.buf # <<>>
      <4>1. Len(w'.buf) # m
        <5>1. Len(w'.buf) > m BY <2>4, <3>2 DEF Flushed
        <5> QED BY <5>1
      <4>2. FullBuffer(m)' BY <1>1, <2>2, <2>4, <2>5, <3>2, <4>1 DEF FullBuffer, Flushed
      <4> QED BY <3>2, <4>2 DEF Buffer
    <3> QED BY <3>1, <3>2
  <2>7. (w'.state # "write" => w'.todo = 0) /\ w'.state # "closed" BY <2>4 DEF Flushed
  <2> QED BY <1>4, <2>4, <2>5, <2>6, <2>7 DEF Writing, Flushed
<1>9. CASE ~(left <= 0)
  <2>1. w' = [w EXCEPT !.buf = Buffered, !.bytesLeft = left, !.todo = 0] /\ stream' = stream
    BY <1>1, <1>9 DEF WriteChunk
  <2>2. /\ w'.buf = Buffered /\ w'.bytesLeft = left /\ w'.todo = 0 /\ w'.state = w.state
        /\ w'.failures = w.failures /\ w'.wroteSignature = w.wroteSignature
    BY <1>1, <2>1 DEF Writers
  <2>3. Done' = last
    <3>1. rest = 0
      <4>1. Taken # w.bytesLeft BY <1>1, <1>2, <1>9
      <4>2. Taken = w.todo BY <1>2, <4>1
      <4> QED BY <1>1, <4>2
    <3>2. ~Fails BY <1>1, <2>2 DEF Fails
    <3> QED BY <1>6, <2>2, <3>1, <3>2
  <2>4. ~(Len(Buffered) > m)
    <3>1. w.bytesLeft # 0 BY <1>1, <1>2, <1>9
    <3> QED BY <1>3, <3>1
  <2>5. left > 0 BY <1>4, <1>9
  <2>6. Buffered # <<>>
    <3>1. m \in 2..Len(Buffered) BY <1>3 DEF Filled
    <3>2. Len(Buffered) # 0 BY <1>2, <3>1
    <3> QED BY <3>2
  <2>7. FullBuffer(m)' BY <1>1, <1>3, <2>1, <2>2, <2>3, <2>4, <2>5 DEF FullBuffer
  <2>8. Buffer' BY <2>2, <2>6, <2>7 DEF Buffer
  <2> QED BY <1>1, <1>4, <1>5, <1>7, <2>1, <2>2, <2>3, <2>8 DEF Writing
<1> QED BY <1>8, <1>9

LEMMA WritingClose ==
    ASSUME FramingInvariant, Writing, Close, w'.failures <= 1, w.failures <= 1
    PROVE  Writing'
<1>1. /\ stream \in Seq(Tokens) /\ w \in Writers /\ given \in Int /\ given' = given
      /\ w.bytesLeft \in Nat /\ w.buf \in Seq(Tokens) /\ WriterTypeOK
      /\ w.state = "close" /\ w.wroteSignature /\ Done \in Nat /\ w.todo = 0
  BY DEF FramingInvariant, WriterTypeOK, Writers, Close, Writing
<1>2. CASE Unfinished
  <2>1. PICK m \in Nat : FullBuffer(m) BY <1>2 DEF Writing, Buffer, Unfinished
  <2>2. FlushChunk(w.buf, w.bytesLeft, 0, "closed", "unclosed") BY <1>2 DEF Close
  <2>3. /\ "closed" \in States /\ "unclosed" \in States /\ 0 \in Nat
        /\ Laws(stream) /\ (w.failures = 0 => Whole(stream)) /\ UpToDone(stream, Done)
    BY DEF States, Writing
  <2>4. Flushed(m, Done, w.bytesLeft, 0, "closed", "unclosed")
    <3>1. Flushable(w.buf, m, Done) BY <2>1, <2>3 DEF FullBuffer, Flushable
    <3> QED BY <1>1, <2>2, <3>1, FlushReads
  <2>5. Done' = Done BY <1>1, <2>4 DEF Done, Flushed
  <2>6. Buffer'
    <3>1. CASE w'.buf = <<>>
      <4>1. EmptyBuffer' BY <1>1, <2>4, <2>5, <3>1 DEF EmptyBuffer, Flushed
      <4> QED BY <3>1, <4>1 DEF Buffer
    <3>2. CASE w'.buf # <<>>
      <4>1. Len(w'.buf) # m
        <5>1. Len(w'.buf) > m BY <2>4, <3>2 DEF Flushed
        <5> QED BY <5>1
      <4>2. FullBuffer(m)' BY <1>1, <2>4, <2>5, <3>2, <4>1 DEF FullBuffer, Flushed
      <4> QED BY <3>2, <4>2 DEF Buffer
    <3> QED BY <3>1, <3>2
  <2> QED BY <1>1, <2>4, <2>5, <2>6 DEF Writing, Flushed
<1>3. CASE ~Unfinished
  <2>1. w' = [w EXCEPT !.state = "closed"] /\ stream' = stream BY <1>3 DEF Close
  <2>2. /\ w'.buf = w.buf /\ w'.bytesLeft = w.bytesLeft /\ w'.todo = w.todo
        /\ w'.failures = w.failures /\ w'.wroteSignature = w.wroteSignature
    BY <1>1, <2>1 DEF Writers
  <2>3. Done' = Done BY <1>1, <2>2 DEF Done
  <2>4. w.buf = <<>> BY <1>3 DEF Unfinished
  <2> QED BY <1>1, <2>1, <2>2, <2>3, <2>4, WritingKept
<1> QED BY <1>2, <1>3

-----------------------------------------------------------------------------
(* The reader: where it stands, and what it returns.                       *)

LEMMA PresentIs ==
    ASSUME stream \in Seq(Tokens), r \in Readers, r.cut <= Len(stream), NEW i \in Nat \ {0}
    PROVE  /\ \/ Present(i).kind \in {"byte", "size"}
              \/ Present(i) = Sum \/ Present(i) = ZlibHead
              => i \in 1..r.cut /\ i \in 1..Len(stream) /\ Present(i) = stream[i]
           /\ i <= r.cut => i \in 1..Len(stream) /\ Present(i) = stream[i]
           /\ Present(i) = End => i > r.cut /\ ~r.torn
           /\ i > r.cut /\ ~r.torn => Present(i) = End
<1>1. r.cut \in Nat /\ r.torn \in BOOLEAN BY DEF Readers
<1>2. CASE i <= r.cut
  <2>1. Present(i) = stream[i] /\ i \in 1..Len(stream) /\ i \in 1..r.cut
    BY <1>1, <1>2 DEF Present
  <2>2. stream[i] \in Tokens BY <2>1
  <2>3. stream[i].kind # "end" BY <2>2 DEF Tokens
  <2> QED BY <1>1, <1>2, <2>1, <2>3, TokenKinds
<1>3. CASE ~(i <= r.cut)
  <2>1. Present(i) = IF r.torn THEN Torn ELSE End BY <1>3 DEF Present
  <2>2. Present(i).kind \in {"torn", "end"} BY <2>1, TokenKinds
  <2>3. Present(i) # Sum /\ Present(i) # ZlibHead /\ Present(i).kind \notin {"byte", "size"}
    BY <2>2, TokenKinds
  <2>4. Torn # End BY TokenKinds
  <2>5. i > r.cut BY <1>1, <1>3
  <2> QED BY <1>3, <2>1, <2>3, <2>4, <2>5
<1> QED BY <1>2, <1>3

(* A reader that is asked for more stands in a chunk, behind its head or   *)
(* behind some of its bytes.                                               *)
InChunk(p) ==
    /\ Begins(stream, p) /\ Limit = ChunkEnd(stream, p)
    /\ First \in Nat /\ p + 2 <= First /\ First - 1 <= r.cut
    /\ \A k \in p + 2..First - 1 : IsByte(stream, k)
    /\ First > p + 2 => stream[First - 1].of = Len(r.got)
    /\ First = p + 2 => p >= 2 /\ Between(p, Len(r.got))

LEMMA ReadsInChunk ==
    ASSUME stream \in Seq(Tokens), Reading, Reads
    PROVE  \E p \in Nat \ {0} : InChunk(p)
<1>1. /\ r \in Readers /\ r.cut \in Nat /\ r.cut <= Len(stream) /\ r.at \in Int
      /\ Reached(r.at, r.limit, Len(r.got)) /\ Len(stream) \in Nat
  BY DEF Reading, Readers, Reads
<1>2. r.at - 1 \in 1..r.cut BY <1>1 DEF Reached
<1>3. CASE r.limit = 0
  <2>1. r.at \in Nat \ {0} /\ r.at + 1 \in Nat \ {0} /\ r.at >= 2 BY <1>1, <1>2
  <2>2. Present(r.at).kind = "size" /\ Present(r.at + 1) = ZlibHead BY <1>3 DEF Reads, Opens
  <2>3. Present(r.at) = stream[r.at] /\ r.at + 1 \in 1..r.cut /\ Present(r.at + 1) = stream[r.at + 1]
    BY <1>1, <2>1, <2>2, PresentIs
  <2>4. First = r.at + 2 /\ Limit = ChunkEnd(stream, r.at)
    BY <1>3, <2>3 DEF First, Limit, ChunkEnd
  <2>5. Begins(stream, r.at) BY <1>1, <2>2, <2>3 DEF Begins
  <2>6. Between(r.at, Len(r.got)) BY <1>1, <1>3 DEF Reached
  <2>7. InChunk(r.at)
    <3>1. First \in Nat /\ r.at + 2 <= First /\ First - 1 <= r.cut /\ ~(First > r.at + 2)
      BY <1>1, <2>1, <2>3, <2>4
    <3>2. \A k \in r.at + 2..First - 1 : IsByte(stream, k) BY <2>1, <2>4
    <3> QED BY <2>1, <2>4, <2>5, <2>6, <3>1, <3>2 DEF InChunk
  <2> QED BY <2>1, <2>7
<1>4. CASE r.limit # 0
  <2>1. PICK p \in Nat : Inside(p, r.at, r.limit, Len(r.got)) BY <1>1, <1>4 DEF Reached
  <2>2. First = r.at /\ Limit = r.limit BY <1>4 DEF First, Limit
  <2>3. p \in 1..r.at - 3 BY <2>1 DEF Inside
  <2>4. First \in Nat /\ p + 2 <= First /\ First - 1 <= r.cut /\ First # p + 2 /\ p # 0
    BY <1>1, <1>2, <2>2, <2>3
  <2>5. InChunk(p) BY <2>1, <2>2, <2>4 DEF InChunk, Inside
  <2> QED BY <2>4, <2>5
<1> QED BY <1>3, <1>4

(* The end of a chunk that has given bytes.                                *)
LEMMA EndsBetween ==
    ASSUME stream \in Seq(Tokens), Laws(stream), r \in Readers, r.cut <= Len(stream),
           NEW p \in Nat \ {0}, Begins(stream, p), Limit = ChunkEnd(stream, p),
           NEW i \in Nat, p + 3 <= i, EndsAt(i), \A k \in p + 2..i - 1 : IsByte(stream, k),
           NEW ended \in Ended(i)
    PROVE  /\ \E next \in Int : ended = [r EXCEPT !.at = next, !.limit = 0]
                                /\ Reached(next, 0, stream[i - 1].of)
<1>1. r.cut \in Nat /\ Len(stream) \in Nat BY DEF Readers
<1>2. i \in 1..r.cut /\ i \in 1..Len(stream) /\ stream[i] = Sum
  <2>1. i \in Nat \ {0} /\ Present(i) = Sum BY DEF EndsAt
  <2> QED BY <2>1, PresentIs
<1>3. Limit \in {i, i + 1} /\ Limit <= Len(stream) /\ stream[Limit] = Sum
  <2>1. p \in 1..Len(stream) BY <1>2
  <2> QED BY <1>2, <2>1 DEF Laws, Ending
<1>4. Min({Limit, r.cut}) \in {Limit, r.cut} /\ Min({Limit, r.cut}) <= Limit
      /\ Min({Limit, r.cut}) <= r.cut
  <2>1. Limit \in Nat BY <1>3
  <2> QED BY <1>1, <2>1, TakenFits
<1>5. PICK next \in {i + 1, Min({Limit, r.cut}) + 1} : ended = [r EXCEPT !.at = next, !.limit = 0]
  BY DEF Ended
<1>6. next - 1 \in {i, i + 1} /\ next - 1 \in 1..r.cut /\ stream[next - 1] = Sum
      /\ (next - 1 = i + 1 => Limit = i + 1)
  <2>1. CASE next = i + 1 BY <1>2, <2>1
  <2>2. CASE next = Min({Limit, r.cut}) + 1
    <3> PICK m \in {Limit, r.cut} : m = Min({Limit, r.cut}) BY <1>4
    <3>1. m \in {i, i + 1} /\ m \in 1..r.cut /\ (m = i + 1 => Limit = i + 1)
      BY <1>1, <1>2, <1>3, <1>4
    <3>2. next - 1 = m BY <2>2, <3>1
    <3>3. stream[m] = Sum BY <1>2, <1>3, <3>1
    <3> QED BY <3>1, <3>2, <3>3
  <2> QED BY <1>5, <2>1, <2>2
<1>7. i - 1 \in p + 2..i - 1 /\ stream[i - 1] # Sum
  <2>1. i - 1 \in p + 2..i - 1 OBVIOUS
  <2>2. IsByte(stream, i - 1) BY <2>1
  <2> QED BY <2>1, <2>2, TokenKinds DEF IsByte
<1>8. Closes(stream, next - 1) /\ LastByte(stream, next - 1) = stream[i - 1].of
  <2>1. Sum # Signature BY TokenKinds
  <2>2. CASE next - 1 = i BY <1>6, <1>7, <2>1, <2>2 DEF Closes, LastByte
  <2>3. CASE next - 1 = i + 1
    <3>1. (i + 1) - 1 = i /\ (i + 1) - 2 = i - 1 OBVIOUS
    <3> QED BY <1>2, <1>6, <2>1, <2>3, <3>1 DEF Closes, LastByte
  <2> QED BY <1>6, <2>2, <2>3
<1>9. next \in Int BY <1>2, <1>3, <1>4, <1>1
<1> QED BY <1>5, <1>6, <1>8, <1>9 DEF Reached, Between

(* The bytes that a Read gives are those that come next.                   *)
LEMMA NextBytes ==
    ASSUME stream \in Seq(Tokens), Laws(stream), Reading, NEW p \in Nat \ {0}, InChunk(p),
           NEW n \in Pieces
    PROVE  /\ n \in Nat \ {0} /\ First + n - 1 \in 1..r.cut /\ Limit >= First
           /\ \A k \in p + 2..First + n - 1 : IsByte(stream, k)
           /\ \A j \in 1..n : /\ Present(First + j - 1) = stream[First + j - 1]
                              /\ stream[First + j - 1].of = Len(r.got) + j
<1>1. /\ r \in Readers /\ r.cut \in Nat /\ r.cut <= Len(stream) /\ Len(stream) \in Nat
      /\ Len(r.got) \in Nat
  BY DEF Reading, Readers
<1>2. /\ First \in Nat /\ p + 2 <= First /\ First - 1 <= r.cut /\ Begins(stream, p)
      /\ \A k \in p + 2..First - 1 : IsByte(stream, k)
  BY DEF InChunk
<1>3. /\ n \in Nat \ {0}
      /\ \A i \in First..First + n - 1 : InLimit(i) /\ Present(i).kind = "byte"
  BY ChunkAssumption DEF Pieces
<1>4. ASSUME NEW i \in First..First + n - 1
      PROVE  i \in 1..r.cut /\ i \in 1..Len(stream) /\ Present(i) = stream[i] /\ IsByte(stream, i)
  <2>1. i \in Nat \ {0} /\ Present(i).kind = "byte" BY <1>2, <1>3
  <2> QED BY <1>1, <2>1, PresentIs DEF IsByte
<1>5. ASSUME NEW k \in p + 2..First + n - 1 PROVE IsByte(stream, k) /\ k \in 1..Len(stream)
  <2>1. CASE k < First
    <3>1. k \in p + 2..First - 1 /\ k \in 1..Len(stream) BY <1>1, <1>2, <1>3, <2>1
    <3> QED BY <1>2, <3>1
  <2>2. CASE k >= First
    <3>1. k \in First..First + n - 1 BY <1>2, <1>3, <2>2
    <3> QED BY <1>4, <3>1
  <2> QED BY <1>2, <1>3, <2>1, <2>2
<1>6. Limit >= First /\ First + n - 1 \in 1..r.cut
  <2>1. First \in First..First + n - 1 /\ First + n - 1 \in First..First + n - 1 BY <1>2, <1>3
  <2>2. First <= Limit BY <1>3, <2>1 DEF InLimit
  <2>3. Limit \in Int
    <3>1. p \in 1..Len(stream) BY <1>1, <1>2 DEF Begins
    <3>2. stream[p] \in Tokens BY <3>1
    <3>3. stream[p].of \in Int BY <3>2 DEF Tokens
    <3> QED BY <3>3 DEF InChunk, ChunkEnd
  <2> QED BY <1>2, <1>4, <2>1, <2>2, <2>3
<1>7. \A i, j \in 1..Len(stream) : i <= j /\ (\A k \in i..j : IsByte(stream, k)) =>
          stream[j].of = stream[i].of + (j - i)
  BY DEF Laws, Running
<1>8. ASSUME NEW j \in 1..n
      PROVE  stream[First + j - 1].of = Len(r.got) + j
  <2> DEFINE e == First + j - 1
  <2>1. e \in First..First + n - 1 /\ e \in Int /\ j \in Int BY <1>2, <1>3
  <2>2. e \in 1..Len(stream) BY <1>4, <2>1
  <2>3. j - 1 = e - First BY <1>2, <2>1
  <2> HIDE DEF e
  <2>4. CASE First = p + 2
    <3>1. p \in 2..Len(stream) - 2 /\ Between(p, Len(r.got)) /\ p + 2 \in 1..Len(stream)
      <4>1. p + 2 <= Len(stream) BY <1>1, <1>2, <1>3, <1>6, <2>4
      <4> QED BY <1>1, <2>4, <4>1 DEF InChunk
    <3>2. IsByte(stream, p + 2)
      <4>1. p + 2 \in p + 2..First + n - 1 BY <1>3, <2>4
      <4> QED BY <1>5, <4>1
    <3>3. stream[p + 2].of = Len(r.got) + 1
      BY <1>2, <3>1, <3>2 DEF Laws, Continuing, Between
    <3>4. p + 2 <= e /\ \A k \in p + 2..e : IsByte(stream, k)
      <4>1. \A k \in p + 2..e : k \in p + 2..First + n - 1 BY <1>2, <1>3, <2>1
      <4> QED BY <1>5, <2>1, <2>4, <4>1
    <3>5. stream[e].of = Len(r.got) + 1 + (e - (p + 2)) BY <1>7, <2>2, <3>1, <3>3, <3>4
    <3>6. Len(r.got) + 1 + (e - (p + 2)) = Len(r.got) + j
      <4>1. e - (p + 2) = j - 1 BY <2>3, <2>4
      <4> QED BY <1>1, <2>1, <4>1
    <3> QED BY <3>5, <3>6 DEF e
  <2>5. CASE First > p + 2
    <3>1. First - 1 \in p + 2..First + n - 1 /\ First - 1 <= e BY <1>2, <1>3, <2>1, <2>5
    <3>2. First - 1 \in 1..Len(stream) BY <1>5, <3>1
    <3>3. \A k \in First - 1..e : IsByte(stream, k)
      <4>1. \A k \in First - 1..e : k \in p + 2..First + n - 1 BY <1>2, <1>3, <2>1, <2>5
      <4> QED BY <1>5, <4>1
    <3>4. stream[First - 1].of = Len(r.got) BY <2>5 DEF InChunk
    <3>5. stream[e].of = Len(r.got) + (e - (First - 1)) BY <1>7, <2>2, <3>1, <3>2, <3>3, <3>4
    <3>6. e - (First - 1) = j BY <1>2, <2>1, <2>3
    <3> QED BY <3>5, <3>6 DEF e
  <2> QED BY <1>2, <2>4, <2>5
<1>9. \A j \in 1..n : Present(First + j - 1) = stream[First + j - 1]
  <2> TAKE j \in 1..n
  <2>1. First + j - 1 \in First..First + n - 1 BY <1>2, <1>3
  <2> QED BY <1>4, <2>1
<1> QED BY <1>3, <1>5, <1>6, <1>8, <1>9

(* A reader that has returned more, of a chunk or to the end of one.       *)
LEMMA ReadingGoesOn ==
    ASSUME Writing, Reading, r.state = "open", UNCHANGED <<stream, w, given>>,
           NEW got \in Seq(Int), Len(got) <= Done, \A i \in 1..Len(got) : got[i] = i,
           NEW at \in Int, NEW limit \in Int,
           r' = [r EXCEPT !.got = got, !.at = at, !.limit = limit],
           Reached(at, limit, Len(got))
    PROVE  Reading'
<1>1. r \in Readers BY DEF Reading
<1>2. /\ r' \in Readers /\ r'.got = got /\ r'.at = at /\ r'.limit = limit
      /\ r'.state = "open" /\ r'.cut = r.cut /\ r'.torn = r.torn
  BY <1>1 DEF Readers
<1>3. Done' = Done BY DEF Done
<1>4. Reached(r.at, r.limit, Len(r.got))' BY <1>2 DEF Reached, Between, Inside
<1> QED BY <1>2, <1>3, <1>4 DEF Reading

LEMMA ReadingBytes == ASSUME FramingInvariant, Writing, Reading, ReadBytes PROVE Reading'
<1>1. /\ stream \in Seq(Tokens) /\ r \in Readers /\ r.cut \in Nat /\ r.cut <= Len(stream)
      /\ Len(stream) \in Nat /\ r.got \in Seq(Int) /\ Len(r.got) \in Nat
      /\ Laws(stream) /\ UpToDone(stream, Done) /\ Reads /\ UNCHANGED <<stream, w, given>>
  BY DEF FramingInvariant, WriterTypeOK, Reading, Readers, Writing, ReadBytes
<1>2. PICK p \in Nat \ {0} : InChunk(p) BY <1>1, ReadsInChunk
<1>3. /\ First \in Nat /\ p + 2 <= First /\ Begins(stream, p) /\ Limit = ChunkEnd(stream, p)
  BY <1>2 DEF InChunk
<1>4. PICK n \in Pieces :
          \/ r' = [r EXCEPT !.got = Gives(n), !.at = First + n, !.limit = Limit]
          \/ /\ EndsAt(First + n)
             /\ \E ended \in Ended(First + n) : r' = [ended EXCEPT !.got = Gives(n)]
  BY DEF ReadBytes
<1>5. /\ n \in Nat \ {0} /\ First + n - 1 \in 1..r.cut /\ Limit >= First
      /\ \A k \in p + 2..First + n - 1 : IsByte(stream, k)
      /\ \A j \in 1..n : /\ Present(First + j - 1) = stream[First + j - 1]
                         /\ stream[First + j - 1].of = Len(r.got) + j
  BY <1>1, <1>2, NextBytes
<1> DEFINE new == [i \in 1..n |-> Present(First + i - 1).of]
<1>6. new \in Seq(Int) /\ Len(new) = n /\ \A i \in 1..n : new[i] = Len(r.got) + i
  <2>1. \A i \in 1..n : Present(First + i - 1).of = Len(r.got) + i BY <1>5
  <2>2. \A i \in 1..n : Len(r.got) + i \in Int BY <1>1
  <2>3. new \in [1..n -> Int] /\ \A i \in 1..n : new[i] = Len(r.got) + i BY <2>1, <2>2
  <2> HIDE DEF new
  <2> QED BY <1>5, <2>3
<1> HIDE DEF new
<1> PICK got \in Seq(Int) : got = r.got \o new BY <1>1, <1>6, Joined
<1>7. Gives(n) = got BY DEF Gives, new
<1>8. Len(got) = Len(r.got) + n /\ \A i \in 1..Len(got) : got[i] = i
  <2>1. /\ Len(got) = Len(r.got) + Len(new)
        /\ \A i \in 1..Len(r.got) : got[i] = r.got[i]
        /\ \A i \in Len(r.got) + 1..Len(r.got) + Len(new) : got[i] = new[i - Len(r.got)]
    <3>1. r.got \in Seq(Int) /\ new \in Seq(Int) BY <1>1, <1>6
    <3> QED BY <3>1, Joined
  <2>2. ASSUME NEW i \in 1..Len(got) PROVE got[i] = i
    <3>1. CASE i <= Len(r.got)
      <4>1. i \in 1..Len(r.got) BY <1>1, <3>1
      <4> QED BY <2>1, <4>1 DEF Reading
    <3>2. CASE i > Len(r.got)
      <4>1. /\ i \in Len(r.got) + 1..Len(r.got) + Len(new) /\ i - Len(r.got) \in 1..n
            /\ Len(r.got) + (i - Len(r.got)) = i
        BY <1>1, <1>5, <1>6, <2>1, <3>2
      <4> QED BY <1>6, <2>1, <4>1
    <3> QED BY <1>1, <3>1, <3>2
  <2> QED BY <1>6, <2>1, <2>2
<1>9. stream[First + n - 1].of = Len(got) /\ Len(got) <= Done
  <2>1. n \in 1..n BY <1>5
  <2>2. stream[First + n - 1].of = Len(r.got) + n BY <1>5, <2>1
  <2>3. First + n - 1 \in 1..Len(stream) BY <1>1, <1>5
  <2>4. IsByte(stream, First + n - 1)
    <3>1. First + n - 1 \in p + 2..First + n - 1 BY <1>3, <1>5
    <3> QED BY <1>5, <3>1
  <2> QED BY <1>1, <1>8, <2>2, <2>3, <2>4 DEF UpToDone
<1>10. r.state = "open" /\ Limit \in Int
  <2>1. p \in 1..Len(stream) BY <1>1, <1>3 DEF Begins
  <2>2. stream[p] \in Tokens BY <1>1, <2>1
  <2>3. stream[p].of \in Int BY <2>2 DEF Tokens
  <2> QED BY <1>1, <1>3, <2>3 DEF Reads, ChunkEnd
<1>11. First + n \in Int /\ (First + n) - 1 = First + n - 1 BY <1>3, <1>5
<1>12. CASE r' = [r EXCEPT !.got = Gives(n), !.at = First + n, !.limit = Limit]
  <2>1. Inside(p, First + n, Limit, Len(got))
    <3>1. p \in 1..(First + n) - 3 BY <1>3, <1>5
    <3> QED BY <1>3, <1>5, <1>9, <1>11, <3>1 DEF Inside
  <2>2. Limit # 0 BY <1>3, <1>5, <1>10
  <2>3. Reached(First + n, Limit, Len(got)) BY <1>5, <1>11, <2>1, <2>2 DEF Reached
  <2> QED BY <1>1, <1>7, <1>8, <1>9, <1>10, <1>11, <1>12, <2>3, ReadingGoesOn
<1>13. CASE /\ EndsAt(First + n)
            /\ \E ended \in Ended(First + n) : r' = [ended EXCEPT !.got = Gives(n)]
  <2> PICK i \in Nat : i = First + n BY <1>3, <1>5
  <2>1. PICK ended \in Ended(i) : r' = [ended EXCEPT !.got = got] BY <1>7, <1>13
  <2>2. p + 3 <= i /\ EndsAt(i) /\ i - 1 = First + n - 1
        /\ \A k \in p + 2..i - 1 : IsByte(stream, k)
    <3>1. p + 3 <= i /\ i - 1 = First + n - 1 BY <1>3, <1>5
    <3>2. EndsAt(i) BY <1>13
    <3> QED BY <1>5, <3>1, <3>2
  <2>3. PICK next \in Int : ended = [r EXCEPT !.at = next, !.limit = 0]
                            /\ Reached(next, 0, stream[i - 1].of)
    BY <1>1, <1>3, <2>2, EndsBetween
  <2>4. r' = [r EXCEPT !.got = got, !.at = next, !.limit = 0] BY <1>1, <2>1, <2>3 DEF Readers
  <2>5. Reached(next, 0, Len(got)) BY <1>9, <2>2, <2>3
  <2>6. 0 \in Int OBVIOUS
  <2> QED BY <1>1, <1>8, <1>9, <1>10, <2>4, <2>5, <2>6, ReadingGoesOn
<1> QED BY <1>4, <1>12, <1>13

LEMMA ReadingNothing == ASSUME FramingInvariant, Writing, Reading, ReadNothing PROVE Reading'
<1>1. /\ stream \in Seq(Tokens) /\ r \in Readers /\ r.cut \in Nat /\ r.cut <= Len(stream)
      /\ Len(stream) \in Nat /\ r.got \in Seq(Int) /\ Len(r.got) <= Done
      /\ Laws(stream) /\ Reads /\ r.state = "open" /\ UNCHANGED <<stream, w, given>>
      /\ \A i \in 1..Len(r.got) : r.got[i] = i
  BY DEF FramingInvariant, WriterTypeOK, Reading, Readers, Writing, ReadNothing, Reads
<1>2. PICK p \in Nat \ {0} : InChunk(p) BY <1>1, ReadsInChunk
<1>3. /\ First \in Nat /\ p + 2 <= First /\ Begins(stream, p) /\ Limit = ChunkEnd(stream, p)
      /\ \A k \in p + 2..First - 1 : IsByte(stream, k)
  BY <1>2 DEF InChunk
<1>4. EndsAt(First) /\ r' \in Ended(First) BY DEF ReadNothing
<1>5. First \in 1..Len(stream) /\ stream[First] = Sum
  <2>1. First \in Nat \ {0} /\ Present(First) = Sum BY <1>3, <1>4 DEF EndsAt
  <2> QED BY <1>1, <2>1, PresentIs
<1>6. First # p + 2
  <2> SUFFICES ASSUME First = p + 2 PROVE FALSE OBVIOUS
  <2>1. First - 1 = p + 1 BY <1>3
  <2>2. stream[p + 1] = ZlibHead BY <1>3 DEF Begins
  <2>3. IsByte(stream, p + 1) \/ stream[p + 1] = Sum BY <1>1, <1>5, <2>1 DEF Laws, Summed
  <2> QED BY <2>2, <2>3, TokenKinds DEF IsByte
<1>7. p + 3 <= First /\ stream[First - 1].of = Len(r.got) BY <1>2, <1>3, <1>6 DEF InChunk
<1> PICK i \in Nat : i = First BY <1>3
<1>8. PICK next \in Int : r' = [r EXCEPT !.at = next, !.limit = 0]
                          /\ Reached(next, 0, stream[i - 1].of)
  BY <1>1, <1>3, <1>4, <1>7, EndsBetween
<1>9. r' = [r EXCEPT !.got = r.got, !.at = next, !.limit = 0] BY <1>1, <1>8 DEF Readers
<1>10. Reached(next, 0, Len(r.got)) BY <1>7, <1>8
<1>11. 0 \in Int OBVIOUS
<1> QED BY <1>1, <1>9, <1>10, <1>11, ReadingGoesOn

LEMMA ReadingEOF == ASSUME FramingInvariant, Writing, Reading, ReadEOF PROVE Reading'
<1>1. /\ stream \in Seq(Tokens) /\ r \in Readers /\ r.cut \in Nat /\ r.cut <= Len(stream)
      /\ r.state = "open" /\ UNCHANGED <<stream, w, given>> /\ r.at \in Int
      /\ Reached(r.at, r.limit, Len(r.got))
  BY DEF FramingInvariant, WriterTypeOK, Reading, Readers, ReadEOF
<1>2. r.limit = 0 /\ Present(r.at) = End /\ r' = [r EXCEPT !.state = "ended"]
  BY DEF ReadEOF, AtEnd
<1>3. r.at = r.cut + 1 /\ ~r.torn
  <2>1. r.at - 1 \in 1..r.cut BY <1>1 DEF Reached
  <2>2. r.at \in Nat \ {0} BY <1>1, <2>1
  <2>3. r.at > r.cut /\ ~r.torn BY <1>1, <1>2, <2>2, PresentIs
  <2> QED BY <1>1, <2>1, <2>3
<1>4. /\ r' \in Readers /\ r'.state = "ended" /\ r'.got = r.got /\ r'.at = r.at
      /\ r'.limit = r.limit /\ r'.cut = r.cut /\ r'.torn = r.torn
  BY <1>1, <1>2 DEF Readers
<1>5. Done' = Done BY <1>1 DEF Done
<1>6. Reached(r.at, r.limit, Len(r.got))' BY <1>1, <1>4 DEF Reached, Between, Inside
<1> QED BY <1>1, <1>2, <1>3, <1>4, <1>5, <1>6 DEF Reading

(* Without a failure: what comes at the end of a chunk, and in one.        *)
LEMMA ChunkComes ==
    ASSUME stream \in Seq(Tokens), Reading, r.state = "open", Whole(stream),
           r.limit = 0, r.at <= r.cut
    PROVE  stream[r.at].kind = "size" /\ Begins(stream, r.at)
<1>1. /\ r \in Readers /\ r.cut \in Nat /\ r.cut <= Len(stream) /\ r.at \in Int
      /\ Reached(r.at, r.limit, Len(r.got)) /\ Len(stream) \in Nat
  BY DEF Reading, Readers
<1>2. r.at - 1 \in 1..r.cut /\ Closes(stream, r.at - 1) BY <1>1 DEF Reached, Between
<1>3. r.at - 1 \in 1..Len(stream) - 1 /\ r.at \in 1..Len(stream) /\ (r.at - 1) + 1 = r.at
  BY <1>1, <1>2
<1>4. stream[r.at].kind = "size" BY <1>2, <1>3 DEF Whole
<1> QED BY <1>3, <1>4 DEF Whole

LEMMA ChunkRead ==
    ASSUME stream \in Seq(Tokens), Reading, r.state = "open", Whole(stream), Reads
    PROVE  /\ First \in Nat \ {0} /\ Limit \in 1..Len(stream) /\ First <= Limit
           /\ First - 1 <= r.cut /\ stream[Limit] = Sum
           /\ \A k \in First..Limit - 1 : k \in 1..Len(stream) /\ IsByte(stream, k)
<1>1. /\ r \in Readers /\ r.cut \in Nat /\ r.cut <= Len(stream) /\ Len(stream) \in Nat
  BY DEF Reading, Readers
<1>2. PICK p \in Nat \ {0} : InChunk(p) BY ReadsInChunk
<1>3. /\ First \in Nat /\ p + 2 <= First /\ Begins(stream, p) /\ Limit = ChunkEnd(stream, p)
      /\ First - 1 <= r.cut /\ \A k \in p + 2..First - 1 : IsByte(stream, k)
  BY <1>2 DEF InChunk
<1>4. p \in 1..Len(stream) /\ stream[p].kind = "size" BY <1>1, <1>3 DEF Begins
<1>5. stream[p].of \in Int
  <2>1. stream[p] \in Tokens BY <1>4
  <2> QED BY <2>1 DEF Tokens
<1>6. /\ stream[p].of >= 3 /\ Limit <= Len(stream) /\ stream[Limit] = Sum
      /\ \A k \in p + 2..Limit - 1 : IsByte(stream, k)
  BY <1>3, <1>4 DEF Whole
<1>7. Limit \in Nat \ {0} /\ Limit >= p + 3 /\ Limit \in 1..Len(stream)
  <2>1. Limit = p + stream[p].of BY <1>3 DEF ChunkEnd
  <2> QED BY <1>1, <1>5, <1>6, <2>1
<1>8. First <= Limit
  <2> SUFFICES ASSUME First > Limit PROVE FALSE BY <1>3, <1>7
  <2>1. Limit \in p + 2..First - 1 BY <1>3, <1>7
  <2>2. IsByte(stream, Limit) BY <1>3, <2>1
  <2> QED BY <1>6, <2>2, TokenKinds DEF IsByte
<1>9. ASSUME NEW k \in First..Limit - 1 PROVE k \in 1..Len(stream) /\ IsByte(stream, k)
  <2>1. k \in p + 2..Limit - 1 /\ k \in 1..Len(stream) BY <1>3, <1>7
  <2> QED BY <1>6, <2>1
<1>10. First \in Nat \ {0} BY <1>3
<1> QED BY <1>3, <1>6, <1>7, <1>8, <1>9, <1>10

LEMMA ReadingStrays == ASSUME FramingInvariant, Writing, Reading, ReadAstray PROVE Reading'
<1>1. /\ stream \in Seq(Tokens) /\ r \in Readers /\ r.cut \in Nat /\ r.cut <= Len(stream)
      /\ r.state = "open" /\ UNCHANGED <<stream, w, given>> /\ r.at \in Int /\ r.limit \in Int
      /\ Reached(r.at, r.limit, Len(r.got)) /\ Len(stream) \in Nat
      /\ (w.failures = 0 => Whole(stream)) /\ r.torn \in BOOLEAN
      /\ r' = [r EXCEPT !.state = "astray"] /\ Astray
  BY DEF FramingInvariant, WriterTypeOK, Reading, Readers, ReadAstray, Writing
<1>2. ASSUME w.failures = 0 PROVE FALSE
  <2>1. Whole(stream) BY <1>1, <1>2
  <2>2. ASSUME r.limit = 0, ~Opens, r.at < r.cut PROVE FALSE
    <3>1. r.at - 1 \in 1..r.cut BY <1>1 DEF Reached
    <3>2. /\ r.at \in Nat \ {0} /\ r.at + 1 \in Nat \ {0} /\ r.at <= r.cut /\ r.at + 1 <= r.cut
      BY <1>1, <2>2, <3>1
    <3>3. Present(r.at) = stream[r.at] /\ Present(r.at + 1) = stream[r.at + 1]
      BY <1>1, <3>2, PresentIs
    <3>4. stream[r.at].kind = "size" /\ stream[r.at + 1] = ZlibHead
      BY <1>1, <2>1, <2>2, <3>2, ChunkComes DEF Begins
    <3> QED BY <2>2, <3>3, <3>4 DEF Opens
  <2>3. ASSUME Reads, \A i \in Ahead : i <= r.cut /\ Present(i) # Sum PROVE FALSE
    <3>1. /\ First \in Nat \ {0} /\ Limit \in 1..Len(stream) /\ First <= Limit
          /\ First - 1 <= r.cut /\ stream[Limit] = Sum
          /\ \A k \in First..Limit - 1 : k \in 1..Len(stream) /\ IsByte(stream, k)
      BY <1>1, <2>1, <2>3, ChunkRead
    <3>2. ASSUME NEW j \in First..Limit - 1, j <= r.cut PROVE Present(j).kind = "byte"
      <4>1. j \in Nat \ {0} BY <3>1
      <4>2. Present(j) = stream[j] BY <1>1, <3>2, <4>1, PresentIs
      <4> QED BY <3>1, <4>2 DEF IsByte
    <3>3. CASE Limit <= r.cut
      <4>1. \A j \in First..Limit - 1 : j <= r.cut BY <1>1, <3>1, <3>3
      <4>2. Limit \in First..Limit BY <3>1
      <4>3. Limit \in Ahead BY <3>2, <4>1, <4>2 DEF Ahead
      <4>4. Limit \in Nat \ {0} BY <3>1
      <4>5. Present(Limit) = Sum BY <1>1, <3>1, <3>3, <4>4, PresentIs
      <4> QED BY <2>3, <4>3, <4>5
    <3>4. CASE ~(Limit <= r.cut)
      <4>1. r.cut + 1 \in First..Limit BY <1>1, <3>1, <3>4
      <4>2. \A j \in First..r.cut : j \in First..Limit - 1 /\ j <= r.cut BY <1>1, <3>1, <3>4
      <4>3. (r.cut + 1) - 1 = r.cut BY <1>1
      <4>4. \A j \in First..(r.cut + 1) - 1 : Present(j).kind = "byte" BY <3>2, <4>2, <4>3
      <4>5. r.cut + 1 \in Ahead BY <4>1, <4>4 DEF Ahead
      <4> QED BY <1>1, <2>3, <4>5
    <3> QED BY <3>3, <3>4
  <2> QED BY <1>1, <2>2, <2>3 DEF Astray
<1>3. /\ r' \in Readers /\ r'.state = "astray" /\ r'.got = r.got
      /\ r'.cut = r.cut /\ r'.torn = r.torn
  BY <1>1 DEF Readers
<1>4. Done' = Done BY <1>1 DEF Done
<1> QED BY <1>1, <1>2, <1>3, <1>4 DEF Reading

LEMMA ReadingFails == ASSUME FramingInvariant, Writing, Reading, ReadError PROVE Reading'
<1>1. /\ stream \in Seq(Tokens) /\ r \in Readers /\ r.cut \in Nat /\ r.cut <= Len(stream)
      /\ r.state = "open" /\ UNCHANGED <<stream, w, given>> /\ r.at \in Int /\ r.limit \in Int
      /\ Reached(r.at, r.limit, Len(r.got)) /\ Len(stream) \in Nat
      /\ (w.failures = 0 => Whole(stream)) /\ r.torn \in BOOLEAN
      /\ (r.torn => r.cut < Len(stream)) /\ r' = [r EXCEPT !.state = "error"] /\ Broken
  BY DEF FramingInvariant, WriterTypeOK, Reading, Readers, ReadError, Writing
<1>2. ASSUME w.failures = 0, ~(r.cut < Len(stream)) PROVE FALSE
  <2>1. r.cut = Len(stream) /\ ~r.torn /\ Whole(stream) BY <1>1, <1>2
  <2>2. ASSUME r.limit = 0, ~AtEnd, r.at >= r.cut PROVE FALSE
    <3>1. r.at - 1 \in 1..r.cut /\ r.at \in Nat \ {0} BY <1>1 DEF Reached
    <3>2. r.at # r.cut + 1
      <4> SUFFICES ASSUME r.at = r.cut + 1 PROVE FALSE OBVIOUS
      <4>1. r.at > r.cut BY <1>1, <3>1
      <4>2. Present(r.at) = End BY <1>1, <2>1, <3>1, <4>1, PresentIs
      <4> QED BY <2>2, <4>2 DEF AtEnd
    <3>3. r.at <= r.cut /\ ~(r.at + 1 <= Len(stream)) BY <1>1, <2>1, <2>2, <3>1, <3>2
    <3> QED BY <1>1, <2>1, <2>2, <3>3, ChunkComes DEF Begins
  <2>3. ASSUME Reads, NEW i \in Ahead, i > r.cut PROVE FALSE
    <3>1. i \in First..Limit BY <2>3 DEF Ahead
    <3>2. Limit \in 1..Len(stream) /\ First \in Nat BY <1>1, <2>1, <2>3, ChunkRead
    <3> QED BY <1>1, <2>1, <2>3, <3>1, <3>2
  <2> QED BY <1>1, <2>2, <2>3 DEF Broken
<1>3. /\ r' \in Readers /\ r'.state = "error" /\ r'.got = r.got
      /\ r'.cut = r.cut /\ r'.torn = r.torn
  BY <1>1 DEF Readers
<1>4. Done' = Done BY <1>1 DEF Done
<1> QED BY <1>1, <1>2, <1>3, <1>4 DEF Reading

LEMMA ReadingBegins == ASSUME FramingInvariant, Writing, Reading, NewDataReader PROVE Reading'
<1>1. /\ stream \in Seq(Tokens) /\ r \in Readers /\ r.state = "none" /\ Len(stream) \in Nat
      /\ w.state \notin {"write", "close"} /\ UNCHANGED <<stream, w, given>> /\ Done \in Nat
      /\ r.got = <<>> /\ r.limit = 0 /\ (w.failures = 0 => Whole(stream))
  BY DEF FramingInvariant, WriterTypeOK, Reading, NewDataReader, Writing
<1>2. PICK cut \in 0..Len(stream), torn \in BOOLEAN :
          /\ torn => cut < Len(stream)
          /\ r' = [r EXCEPT !.state = IF cut > 0 /\ stream[1] = Signature THEN "open"
                                      ELSE "error",
                            !.cut = cut, !.torn = torn, !.at = 2]
  <2>1. PICK cut \in IF MayBeCut THEN 0..Len(stream) ELSE {Len(stream)}, torn \in BOOLEAN :
          /\ torn => cut < Len(stream)
          /\ r' = [r EXCEPT !.state = IF cut > 0 /\ stream[1] = Signature THEN "open"
                                      ELSE "error",
                            !.cut = cut, !.torn = torn, !.at = 2]
    BY DEF NewDataReader
  <2>2. cut \in 0..Len(stream) BY <1>1, <2>1
  <2> QED BY <2>1, <2>2
<1> DEFINE begun == cut > 0 /\ stream[1] = Signature
<1>3. /\ r' \in Readers /\ r'.state = (IF begun THEN "open" ELSE "error")
      /\ r'.cut = cut /\ r'.torn = torn /\ r'.at = 2 /\ r'.limit = 0 /\ r'.got = <<>>
  <2> DEFINE state == IF cut > 0 /\ stream[1] = Signature THEN "open" ELSE "error"
  <2>1. state \in {"open", "error"} /\ state = (IF begun THEN "open" ELSE "error")
        /\ r' = [r EXCEPT !.state = state, !.cut = cut, !.torn = torn, !.at = 2]
    BY <1>2
  <2>2. cut \in Nat BY <1>1
  <2> HIDE DEF state, begun
  <2>3. r'.torn = torn
    <3>1. DOMAIN r = {"state", "cut", "torn", "at", "limit", "got"} BY <1>1, Zenon DEF Readers
    <3> QED BY <2>1, <3>1, Zenon
  <2>4. r'.state = state /\ r'.cut = cut /\ r'.at = 2 /\ r'.limit = 0 /\ r'.got = <<>>
    BY <1>1, <2>1 DEF Readers
  <2>5. r' \in Readers
    <3>1. ASSUME NEW b \in {TRUE, FALSE},
                 r' = [r EXCEPT !.state = state, !.cut = cut, !.torn = b, !.at = 2]
          PROVE  r' \in Readers
      <4>1. /\ state \in {"none", "open", "ended", "error", "astray"} /\ cut \in Nat /\ b \in BOOLEAN
            /\ 2 \in Int /\ r.limit \in Int /\ r.got \in Seq(Int)
        <5>1. state \in {"none", "open", "ended", "error", "astray"} BY <2>1
        <5>2. b \in BOOLEAN BY Zenon
        <5>3. 2 \in Int /\ r.limit \in Int /\ r.got \in Seq(Int) BY <1>1 DEF Readers
        <5> QED BY <2>2, <5>1, <5>2, <5>3
      <4>2. r' = [state |-> state, cut |-> cut, torn |-> b, at |-> 2,
                  limit |-> r.limit, got |-> r.got]
        BY <1>1, <3>1, Zenon DEF Readers
      <4> QED BY <4>1, <4>2, Zenon DEF Readers
    <3>2. torn \in {TRUE, FALSE} BY Zenon
    <3> QED BY <2>1, <3>1, <3>2, Zenon
  <2> QED BY <2>1, <2>3, <2>4, <2>5
<1>4. begun => Reached(r.at, r.limit, Len(r.got))'
  <2> SUFFICES ASSUME begun PROVE Reached(r.at, r.limit, Len(r.got))' OBVIOUS
  <2>1. 2 - 1 = 1 /\ 1 \in 1..cut BY <1>2
  <2>2. Closes(stream, 1) /\ LastByte(stream, 1) = 0 BY DEF Closes, LastByte
  <2>3. Len(<<>>) = 0 OBVIOUS
  <2> QED BY <1>1, <1>3, <2>1, <2>2, <2>3 DEF Reached, Between
<1>5. ~begun /\ w.failures = 0 => cut < Len(stream) \/ stream = <<>>
  <2> SUFFICES ASSUME ~begun, w.failures = 0, ~(cut < Len(stream)), stream # <<>> PROVE FALSE
    OBVIOUS
  <2>1. stream[1] = Signature BY <1>1 DEF Whole
  <2>2. Len(stream) > 0 BY <1>1
  <2>3. cut > 0 BY <1>1, <1>2, <2>2
  <2> QED BY <2>1, <2>3
<1>6. r'.state \in {"open", "error"} /\ (r'.state = "open" => begun) /\ (r'.state = "error" => ~begun)
  BY <1>3
<1> HIDE DEF begun
<1>7. Done' = Done /\ Len(<<>>) = 0 BY <1>1 DEF Done
<1>8. (r.state \in {"open", "ended"} => Reached(r.at, r.limit, Len(r.got)))'
  BY <1>4, <1>6
<1> QED BY <1>1, <1>2, <1>3, <1>5, <1>6, <1>7, <1>8 DEF Reading

(* The writer's steps, which nobody reads beside.                          *)
LEMMA ReadingWaits ==
    ASSUME Reading, r.state = "none", r' = r, Writing', stream' \in Seq(Tokens)
    PROVE  Reading'
<1>1. r \in Readers /\ r.got = <<>> /\ r.limit = 0 /\ r.cut = 0 /\ ~r.torn BY DEF Reading
<1>2. Done' \in Nat /\ Len(r.got) = 0 /\ Len(stream') \in Nat BY <1>1 DEF Writing
<1> QED BY <1>1, <1>2 DEF Reading
-----------------------------------------------------------------------------
LEMMA ReadingInit == Init => ReadingInvariant
<1> SUFFICES ASSUME Init PROVE ReadingInvariant OBVIOUS
<1>1. Writing BY WritingInit
<1>2. Reading
  <2>1. /\ r \in Readers /\ r.state = "none" /\ r.got = <<>> /\ r.limit = 0 /\ r.cut = 0 /\ ~r.torn
        /\ stream = <<>> /\ Len(stream) = 0 /\ Len(r.got) = 0
    BY DEF Init, Readers
  <2>2. Done \in Nat BY <1>1 DEF Writing
  <2> QED BY <2>1, <2>2 DEF Reading
<1> QED BY <1>1, <1>2 DEF ReadingInvariant

LEMMA FailuresCounted ==
    ASSUME FramingInvariant, [Next]_vars
    PROVE  \/ w'.failures = w.failures
           \/ w.failures < MaxFailures /\ w'.failures = w.failures + 1
<1> DEFINE counted == \/ w'.failures = w.failures
                      \/ w.failures < MaxFailures /\ w'.failures = w.failures + 1
<1>1. w \in Writers /\ w.failures \in Nat BY DEF FramingInvariant, WriterTypeOK, Writers
<1>2. ASSUME NEW state, NEW buf, NEW left, w' = Failed(state, buf, left)
      PROVE  w'.failures = w.failures + 1
  BY <1>1, <1>2 DEF Failed, Writers
<1>3. ASSUME NEW buf, NEW left, NEW todo, NEW state, NEW failedState,
             FlushChunk(buf, left, todo, state, failedState)
      PROVE  counted
  <2>1. \/ w'.failures = w.failures
        \/ w.failures < MaxFailures /\ w' = Failed(failedState, Append(buf, Sum), left)
    BY <1>1, <1>3 DEF FlushChunk, Writers
  <2> QED BY <1>2, <2>1
<1>4. CASE CallWrite BY <1>1, <1>4 DEF CallWrite, Writers
<1>5. CASE CallClose BY <1>1, <1>5 DEF CallClose, Writers
<1>6. CASE WriteSignature
  <2>1. \/ w' = [w EXCEPT !.wroteSignature = TRUE]
        \/ /\ w.failures < MaxFailures
           /\ w' = Failed(IF w.state = "close" THEN "unclosed" ELSE "idle", w.buf, w.bytesLeft)
    BY <1>6 DEF WriteSignature
  <2>2. w' = [w EXCEPT !.wroteSignature = TRUE] => w'.failures = w.failures BY <1>1 DEF Writers
  <2> QED BY <1>2, <2>1, <2>2
<1>7. CASE WriteChunk
  <2>1. CASE w.bytesLeft - Taken <= 0
    <3>1. FlushChunk(Buffered, w.bytesLeft - Taken, w.todo - Taken, "write", "idle")
      BY <1>7, <2>1 DEF WriteChunk
    <3> QED BY <1>3, <3>1
  <2>2. CASE ~(w.bytesLeft - Taken <= 0)
    <3>1. w' = [w EXCEPT !.buf = Buffered, !.bytesLeft = @ - Taken, !.todo = 0]
      BY <1>7, <2>2 DEF WriteChunk
    <3> QED BY <1>1, <3>1 DEF Writers
  <2> QED BY <2>1, <2>2
<1>8. CASE EndWrite BY <1>1, <1>8 DEF EndWrite, Writers
<1>9. CASE Close
  <2>1. CASE Unfinished
    <3>1. FlushChunk(w.buf, w.bytesLeft, 0, "closed", "unclosed") BY <1>9, <2>1 DEF Close
    <3> QED BY <1>3, <3>1
  <2>2. CASE ~Unfinished
    <3>1. w' = [w EXCEPT !.state = "closed"] BY <1>9, <2>2 DEF Close
    <3> QED BY <1>1, <3>1 DEF Writers
  <2> QED BY <2>1, <2>2
<1>10. CASE w' = w BY <1>10
<1> QED BY <1>4, <1>5, <1>6, <1>7, <1>8, <1>9, <1>10
     DEF Next, Calls, Read, NewDataReader, ReadBytes, ReadNothing, ReadEOF, ReadError, ReadAstray, vars

(* Without a failure, Write tells all that it took.                        *)
ShortFails == call.short => w.failures > 0

LEMMA ShortStep ==
    FramingInvariant /\ CallTypeOK /\ ShortFails /\ [Next]_vars => ShortFails'
<1> SUFFICES ASSUME FramingInvariant, CallTypeOK, ShortFails, [Next]_vars, call'.short
             PROVE  w'.failures > 0
  BY DEF ShortFails
<1>1. w \in Writers /\ w.failures \in Nat BY DEF FramingInvariant, WriterTypeOK, Writers
<1>2. CASE call.short BY <1>1, <1>2, FailuresCounted DEF ShortFails
<1>3. CASE ~call.short /\ WriteChunk
  <2>1. Fails
    <3>1. call' = [nested |-> TRUE, n |-> Outermost, short |-> call.short \/ (Fails /\ call.nested)]
      BY <1>3 DEF WriteChunk
    <3>2. call'.short <=> (call.short \/ (Fails /\ call.nested)) BY <3>1
    <3> QED BY <1>3, <3>2
  <2>2. w.bytesLeft - Taken <= 0
    <3> SUFFICES ASSUME ~(w.bytesLeft - Taken <= 0) PROVE FALSE OBVIOUS
    <3>1. w' = [w EXCEPT !.buf = Buffered, !.bytesLeft = @ - Taken, !.todo = 0] /\ w.state = "write"
      BY <1>3 DEF WriteChunk
    <3>2. w'.state = "write" BY <1>1, <3>1 DEF Writers
    <3> QED BY <2>1, <3>2 DEF Fails
  <2>3. FlushChunk(Buffered, w.bytesLeft - Taken, w.todo - Taken, "write", "idle")
    BY <1>3, <2>2 DEF WriteChunk
  <2>4. w'.state = "write" \/ w' = Failed("idle", Append(Buffered, Sum), w.bytesLeft - Taken)
    BY <1>1, <2>3 DEF FlushChunk, Writers
  <2>5. w' = Failed("idle", Append(Buffered, Sum), w.bytesLeft - Taken)
    BY <2>1, <2>4 DEF Fails
  <2> QED BY <1>1, <2>5 DEF Failed, Writers
<1>4. CASE ~call.short /\ call'.short = call.short BY <1>4
<1>5. CASE CallWrite
  <2>1. call' = [call EXCEPT !.nested = FALSE] BY <1>5 DEF CallWrite
  <2>2. call'.short = call.short BY <2>1 DEF CallTypeOK
  <2> QED BY <1>2, <1>4, <2>2
<1>6. CASE call' = call BY <1>2, <1>4, <1>6
<1> QED BY <1>2, <1>3, <1>5, <1>6
     DEF Next, CallClose, Calls, WriteSignature, EndWrite, Close, NewDataReader,
         Read, ReadBytes, ReadNothing, ReadEOF, ReadError, ReadAstray, vars

LEMMA ShortHolds == Spec => []ShortFails
<1>1. Init => ShortFails BY DEF Init, ShortFails
<1> QED BY <1>1, FramingHolds, ShortStep, PTL DEF Spec

LEMMA ReadingStep ==
    FramingInvariant /\ FramingInvariant' /\ CallTypeOK /\ ReadingInvariant /\ [Next]_vars
    => ReadingInvariant'
<1> SUFFICES ASSUME FramingInvariant, FramingInvariant', CallTypeOK, ReadingInvariant,
                    [Next]_vars, w'.failures <= 1, ~call'.short
             PROVE  Writing' /\ Reading'
  BY DEF ReadingInvariant, Told
<1>1. w \in Writers /\ w' \in Writers /\ stream' \in Seq(Tokens) /\ given \in Int
      /\ w.failures \in Nat /\ w'.failures \in Nat
  BY DEF FramingInvariant, WriterTypeOK, Writers
<1>2. w.failures <= 1 BY <1>1, FailuresCounted
<1>3. Writing /\ Reading BY <1>2, CallStep DEF ReadingInvariant, Told
<1>4. CASE CallWrite
  <2>1. PICK n \in 0..MaxData - given :
            w' = [w EXCEPT !.state = "write", !.todo = n] /\ given' = given + n
    BY <1>4 DEF CallWrite
  <2>2. /\ w'.state = "write" /\ w'.todo = n /\ w'.buf = w.buf /\ w'.bytesLeft = w.bytesLeft
        /\ w'.failures = w.failures /\ w'.wroteSignature = w.wroteSignature
        /\ stream' = stream /\ r' = r /\ r.state = "none" /\ w.state = "idle"
    BY <1>1, <1>4, <2>1 DEF CallWrite, Writers
  <2>3. Done' = Done
    <3>1. w.todo = 0 BY <1>3, <2>2 DEF Writing
    <3>2. n \in Int BY ChunkAssumption, <1>1
    <3> QED BY <1>1, <2>1, <2>2, <3>1, <3>2 DEF Done
  <2>4. Writing' BY <1>3, <2>2, <2>3, WritingKept
  <2> QED BY <1>1, <1>3, <2>2, <2>4, ReadingWaits
<1>5. CASE CallClose
  <2>1. /\ w'.state = "close" /\ w'.todo = w.todo /\ w'.buf = w.buf /\ w'.bytesLeft = w.bytesLeft
        /\ w'.failures = w.failures /\ w'.wroteSignature = w.wroteSignature
        /\ stream' = stream /\ r' = r /\ r.state = "none" /\ w.state \in {"idle", "unclosed"}
        /\ given' = given
    BY <1>1, <1>5 DEF CallClose, Writers
  <2>2. Done' = Done BY <2>1 DEF Done
  <2>3. w.todo = 0 BY <1>3, <2>1 DEF Writing
  <2>4. Writing' BY <1>3, <2>1, <2>2, <2>3, WritingKept
  <2> QED BY <1>1, <1>3, <2>1, <2>4, ReadingWaits
<1>6. CASE Calls
  <2>1. w.state \in {"write", "close"} /\ r' = r
    BY <1>6 DEF Calls, WriteSignature, WriteChunk, EndWrite, Close
  <2>2. r.state = "none" BY <1>3, <2>1 DEF Reading
  <2>3. WriteSignature => Writing' BY <1>3, WritingSignature
  <2>4. WriteChunk => Writing' BY <1>2, <1>3, WritingChunk
  <2>5. Close => Writing' BY <1>2, <1>3, WritingClose
  <2>6. EndWrite => Writing'
    <3> SUFFICES ASSUME EndWrite PROVE Writing' OBVIOUS
    <3>1. /\ w'.state = "idle" /\ w'.todo = w.todo /\ w'.buf = w.buf
          /\ w'.bytesLeft = w.bytesLeft /\ w'.failures = w.failures
          /\ w'.wroteSignature = w.wroteSignature /\ stream' = stream /\ w.todo = 0
          /\ given' = given /\ w.state = "write"
      BY <1>1 DEF EndWrite, Writers
    <3>2. Done' = Done BY <3>1 DEF Done
    <3> QED BY <1>3, <3>1, <3>2, WritingKept
  <2>7. Writing' BY <1>6, <2>3, <2>4, <2>5, <2>6 DEF Calls
  <2> QED BY <1>1, <1>3, <2>1, <2>2, <2>7, ReadingWaits
<1>7. ASSUME UNCHANGED <<stream, w, given>> PROVE Writing'
  <2>1. Done' = Done BY <1>7 DEF Done
  <2> QED BY <1>3, <1>7, <2>1, WritingKept DEF Writing
<1>8. CASE NewDataReader BY <1>3, <1>7, <1>8, ReadingBegins DEF NewDataReader
<1>9. CASE Read
  <2>1. UNCHANGED <<stream, w, given>>
    BY <1>9 DEF Read, ReadBytes, ReadNothing, ReadEOF, ReadError, ReadAstray
  <2>2. Reading'
    BY <1>3, <1>9, ReadingBytes, ReadingNothing, ReadingEOF, ReadingFails, ReadingStrays DEF Read
  <2> QED BY <1>7, <2>1, <2>2
<1>10. CASE UNCHANGED vars
  <2>1. UNCHANGED <<stream, w, given>> /\ r' = r BY <1>10 DEF vars
  <2>2. Done' = Done BY <2>1 DEF Done
  <2>3. Reading' BY <1>3, <2>1, <2>2 DEF Reading, Reached, Between, Inside
  <2> QED BY <1>7, <2>1, <2>3
<1> QED BY <1>4, <1>5, <1>6, <1>8, <1>9, <1>10 DEF Next

LEMMA ReadingHolds == Spec => []ReadingInvariant
BY FramingHolds, ReadingInit, ReadingStep, PTL DEF Spec

(* What has been returned are the bytes from the first on; and a reader    *)
(* that has come to the end of all stands behind the last chunk.           *)
LEMMA ReadingReadsBack ==
    FramingInvariant /\ ReadingInvariant => StreamReadsBack
<1> SUFFICES ASSUME FramingInvariant, Writing, Reading, w.failures <= 1, ~call.short
             PROVE  StreamReadsBack
  BY DEF ReadingInvariant, Told, StreamReadsBack
<1>1. /\ given \in Int /\ w.todo \in Nat /\ Len(r.got) \in Nat /\ r.cut \in Nat
      /\ Done \in Nat /\ Len(r.got) <= Done /\ \A i \in 1..Len(r.got) : r.got[i] = i
  BY DEF FramingInvariant, WriterTypeOK, Writers, Reading, Readers, Writing
<1>2. Done <= given BY <1>1 DEF Done
<1>3. ASSUME r.state = "ended", w.state = "closed", r.cut = Len(stream) PROVE Len(r.got) = given
  <2>1. Between(r.cut + 1, Len(r.got)) BY <1>3 DEF Reading, Reached
  <2>2. LastByte(stream, r.cut) = Len(r.got)
    <3>1. (r.cut + 1) - 1 = r.cut BY <1>1
    <3> QED BY <2>1, <3>1 DEF Between
  <2>3. LastByte(stream, Len(stream)) = Done BY <1>3 DEF Writing, Buffer, EmptyBuffer
  <2>4. w.todo = 0 BY <1>3 DEF Writing
  <2>5. Done = given BY <1>1, <2>4 DEF Done
  <2> QED BY <1>3, <2>2, <2>3, <2>5
<1>4. Len(r.got) <= given BY <1>1, <1>2
<1> QED BY <1>1, <1>3, <1>4 DEF StreamReadsBack

LEMMA ReadingTells == FramingInvariant /\ ReadingInvariant /\ ShortFails => TruncationTold
<1> SUFFICES ASSUME FramingInvariant, ReadingInvariant, ShortFails, w.failures = 0
             PROVE  /\ r.state = "ended" => ~r.torn /\ stream[r.cut] \in {Signature, Sum}
                    /\ r.state = "error" => r.cut < Len(stream) \/ stream = <<>>
                    /\ r.state # "astray"
  BY DEF TruncationTold
<1>1. Reading /\ r.cut \in Nat BY DEF ReadingInvariant, Told, ShortFails, Reading, Readers
<1>2. /\ r.state = "error" => r.cut < Len(stream) \/ stream = <<>>
      /\ r.state # "astray"
  BY <1>1 DEF Reading
<1>3. ASSUME r.state = "ended" PROVE ~r.torn /\ stream[r.cut] \in {Signature, Sum}
  <2>1. Between(r.cut + 1, Len(r.got)) /\ ~r.torn BY <1>1, <1>3 DEF Reading, Reached
  <2>2. (r.cut + 1) - 1 = r.cut BY <1>1
  <2> QED BY <2>1, <2>2 DEF Between, Closes
<1> QED BY <1>2, <1>3

(* A reader gives the bytes that were given to the writer, in their order, *)
(* and all of them when the writer has been closed: also when one write to *)
(* the stream has failed, up to where that has torn the stream, unless a   *)
(* level in Write failed, and Write did not tell what it had taken.        *)
THEOREM StreamsReadBack == Spec => []StreamReadsBack
BY FramingHolds, ReadingHolds, ReadingReadsBack, PTL

(* While no write has failed, a reader tells whether the stream is whole.  *)
THEOREM TruncationIsTold == Spec => []TruncationTold
BY FramingHolds, ReadingHolds, ShortHolds, ReadingTells, PTL
=============================================================================
