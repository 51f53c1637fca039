------------------------- MODULE DotStuffingProofs -------------------------
(***************************************************************************)
(* What is proved of DotStuffing for messages of every length: the server  *)
(* takes the message, nothing but the message, and sees its end once.      *)
(***************************************************************************)
EXTENDS DotStuffing, SequenceTheorems, TLAPS

-----------------------------------------------------------------------------
(* Sequences of bytes *)

\* The texts the codec adds are bytes.
LEMMA TextType == CRLF \in Seq(Bytes) /\ FinalDot \in Seq(Bytes)
BY DEF CRLF, FinalDot, Bytes

\* IsPrefix, byte by byte.
LEMMA PrefixFacts ==
    ASSUME NEW s \in Seq(Bytes), NEW t \in Seq(Bytes)
    PROVE  IsPrefix(s, t) <=> Len(s) <= Len(t) /\ \A i \in 1 .. Len(s) : s[i] = t[i]
<1>0. Len(s) \in Nat /\ Len(t) \in Nat
  BY LenProperties
<1>1. SubSeq(s, 1, Len(s)) = s
  BY SubSeqFull
<1>2. ASSUME Len(s) <= Len(t)
      PROVE  /\ SubSeq(t, 1, Len(s)) \in Seq(Bytes)
             /\ Len(SubSeq(t, 1, Len(s))) = Len(s)
             /\ \A i \in 1 .. Len(s) : SubSeq(t, 1, Len(s))[i] = t[i]
  <2>1. \A i \in 1 .. Len(s) : t[i] \in Bytes
    BY <1>0, <1>2, ElementOfSeq
  <2> QED
    BY <1>0, <2>1, SubSeqProperties
<1>3. ASSUME Len(s) <= Len(t), \A i \in 1 .. Len(s) : s[i] = t[i]
      PROVE  s = SubSeq(t, 1, Len(s))
  BY <1>2, <1>3, SeqEqual
<1> QED
  BY <1>0, <1>1, <1>2, <1>3 DEF IsPrefix

-----------------------------------------------------------------------------
(* The server ahead of time: what it will do with the bytes still on their way *)

\* What the server ends up with.
Whole(m) == m \o CRLF

\* The k-th byte of the content and of the whole agree from here to one byte on.
Grows(m, k, b, l) == k < Len(Whole(m)) /\ Whole(m)[k + 1] = b /\ l = k + 1

\* In state s, with k bytes of the whole taken, b leads to state t with l of them.
\* After the end nothing more comes, unless the message has no byte.
Moves(m, s, k, b, t, l) ==
    \/ s = "line" /\ b = "." /\ t = "dot" /\ l = k
    \/ s = "dot" /\ b = "CR" /\ t = "dotcr" /\ l = k
    \/ s = "dotcr" /\ b = "LF" /\ t = "done" /\ l = k /\ k = Len(Whole(m))
    \/ s = "cr" /\ b = "LF" /\ t = "line" /\ Grows(m, k, b, l)
    \/ /\ \/ s = "line" /\ b # "."
          \/ s = "dot" /\ b # "CR"
          \/ s = "cr" /\ b # "LF"
          \/ s = "text"
       /\ t = InLine(b)
       /\ Grows(m, k, b, l)
    \/ s = "done" /\ m = <<>> /\ t = "done" /\ l = k

\* The states st and the counts ks the server goes through while it reads w.
Path(m, w, st, ks) ==
    /\ st \in [1 .. Len(w) + 1 -> LineStates]
    /\ ks \in [1 .. Len(w) + 1 -> Nat]
    /\ \A i \in 1 .. Len(w) : Moves(m, st[i], ks[i], w[i], st[i + 1], ks[i + 1])

Leads(m, w, s, k, t, l) ==
    \E st \in [1 .. Len(w) + 1 -> LineStates], ks \in [1 .. Len(w) + 1 -> Nat] :
        /\ Path(m, w, st, ks)
        /\ st[1] = s /\ ks[1] = k
        /\ st[Len(w) + 1] = t /\ ks[Len(w) + 1] = l

\* No bytes lead from a state to itself.
LEMMA LeadsNowhere ==
    ASSUME NEW m, NEW s \in LineStates, NEW k \in Nat
    PROVE  Leads(m, <<>>, s, k, s, k)
<1>1. Len(<<>>) = 0
  OBVIOUS
<1> DEFINE st == [i \in 1 .. 1 |-> s]
           ks == [i \in 1 .. 1 |-> k]
<1>2. st \in [1 .. Len(<<>>) + 1 -> LineStates] /\ ks \in [1 .. Len(<<>>) + 1 -> Nat]
  BY <1>1
<1>3. Path(m, <<>>, st, ks)
  BY <1>1, <1>2 DEF Path
<1>4. st[1] = s /\ ks[1] = k /\ st[Len(<<>>) + 1] = s /\ ks[Len(<<>>) + 1] = k
  BY <1>1
<1> QED
  BY <1>2, <1>3, <1>4 DEF Leads

\* A byte put in lengthens the path at its end.
LEMMA LeadsOn ==
    ASSUME NEW m, NEW w \in Seq(Bytes), NEW s, NEW k, NEW t, NEW l,
           Leads(m, w, s, k, t, l),
           NEW b \in Bytes, NEW u \in LineStates, NEW n \in Nat, Moves(m, t, l, b, u, n)
    PROVE  Leads(m, Append(w, b), s, k, u, n)
<1>0. /\ Len(w) \in Nat
      /\ Len(Append(w, b)) = Len(w) + 1
      /\ \A i \in 1 .. Len(w) : Append(w, b)[i] = w[i]
      /\ Append(w, b)[Len(w) + 1] = b
  BY LenProperties, AppendProperties
<1>1. PICK st \in [1 .. Len(w) + 1 -> LineStates], ks \in [1 .. Len(w) + 1 -> Nat] :
        /\ Path(m, w, st, ks)
        /\ st[1] = s /\ ks[1] = k
        /\ st[Len(w) + 1] = t /\ ks[Len(w) + 1] = l
  BY DEF Leads
<1> DEFINE N == Len(w) + 1
           st2 == [i \in 1 .. N + 1 |-> IF i <= N THEN st[i] ELSE u]
           ks2 == [i \in 1 .. N + 1 |-> IF i <= N THEN ks[i] ELSE n]
<1>2. st2 \in [1 .. Len(Append(w, b)) + 1 -> LineStates]
      /\ ks2 \in [1 .. Len(Append(w, b)) + 1 -> Nat]
  BY <1>0, <1>1
<1>3. /\ \A i \in 1 .. N : st2[i] = st[i] /\ ks2[i] = ks[i]
      /\ st2[N + 1] = u /\ ks2[N + 1] = n
  BY <1>0
<1>4. ASSUME NEW i \in 1 .. Len(Append(w, b))
      PROVE  Moves(m, st2[i], ks2[i], Append(w, b)[i], st2[i + 1], ks2[i + 1])
  <2>1. CASE i <= Len(w)
    <3>1. i \in 1 .. Len(w) /\ i \in 1 .. N /\ i + 1 \in 1 .. N
      BY <1>0, <2>1
    <3>2. Moves(m, st[i], ks[i], w[i], st[i + 1], ks[i + 1])
      BY <1>1, <3>1 DEF Path
    <3>3. /\ st2[i] = st[i] /\ ks2[i] = ks[i]
          /\ st2[i + 1] = st[i + 1] /\ ks2[i + 1] = ks[i + 1]
          /\ Append(w, b)[i] = w[i]
      BY <1>0, <1>3, <3>1
    <3> QED
      BY <3>2, <3>3
  <2>2. CASE i = Len(w) + 1
    <3>1. st2[i] = t /\ ks2[i] = l /\ Append(w, b)[i] = b /\ st2[i + 1] = u /\ ks2[i + 1] = n
      BY <1>0, <1>1, <1>3, <2>2
    <3> QED
      BY <3>1
  <2> QED
    BY <1>0, <2>1, <2>2
<1>5. Path(m, Append(w, b), st2, ks2)
  BY <1>2, <1>4 DEF Path
<1>6. /\ st2[1] = s /\ ks2[1] = k
      /\ st2[Len(Append(w, b)) + 1] = u /\ ks2[Len(Append(w, b)) + 1] = n
  BY <1>0, <1>1, <1>3
<1> QED
  BY <1>2, <1>5, <1>6 DEF Leads

\* A byte read shortens it at its start.
LEMMA LeadsFirst ==
    ASSUME NEW m, NEW w \in Seq(Bytes), w # <<>>, NEW s, NEW k, NEW t, NEW l,
           Leads(m, w, s, k, t, l)
    PROVE  \E u \in LineStates, n \in Nat :
              Moves(m, s, k, Head(w), u, n) /\ Leads(m, Tail(w), u, n, t, l)
<1>0. /\ Len(w) \in Nat \ {0}
      /\ Head(w) = w[1]
      /\ Len(Tail(w)) = Len(w) - 1
      /\ \A i \in 1 .. Len(Tail(w)) : Tail(w)[i] = w[i + 1]
  BY EmptySeq, HeadTailProperties
<1>1. PICK st \in [1 .. Len(w) + 1 -> LineStates], ks \in [1 .. Len(w) + 1 -> Nat] :
        /\ Path(m, w, st, ks)
        /\ st[1] = s /\ ks[1] = k
        /\ st[Len(w) + 1] = t /\ ks[Len(w) + 1] = l
  BY DEF Leads
<1> DEFINE st2 == [i \in 1 .. Len(w) |-> st[i + 1]]
           ks2 == [i \in 1 .. Len(w) |-> ks[i + 1]]
<1>2. st2 \in [1 .. Len(Tail(w)) + 1 -> LineStates] /\ ks2 \in [1 .. Len(Tail(w)) + 1 -> Nat]
  BY <1>0, <1>1
<1>3. ASSUME NEW i \in 1 .. Len(Tail(w))
      PROVE  Moves(m, st2[i], ks2[i], Tail(w)[i], st2[i + 1], ks2[i + 1])
  <2>1. i + 1 \in 1 .. Len(w) /\ i \in 1 .. Len(w)
    BY <1>0
  <2>2. Moves(m, st[i + 1], ks[i + 1], w[i + 1], st[i + 1 + 1], ks[i + 1 + 1])
    BY <1>1, <2>1 DEF Path
  <2>3. /\ st2[i] = st[i + 1] /\ ks2[i] = ks[i + 1]
        /\ st2[i + 1] = st[i + 1 + 1] /\ ks2[i + 1] = ks[i + 1 + 1]
        /\ Tail(w)[i] = w[i + 1]
    BY <1>0, <2>1
  <2> QED
    BY <2>2, <2>3
<1>4. Path(m, Tail(w), st2, ks2)
  BY <1>2, <1>3 DEF Path
<1>5. /\ st2[1] = st[2] /\ ks2[1] = ks[2]
      /\ st2[Len(Tail(w)) + 1] = t /\ ks2[Len(Tail(w)) + 1] = l
  BY <1>0, <1>1
<1>6. Leads(m, Tail(w), st[2], ks[2], t, l)
  BY <1>2, <1>4, <1>5 DEF Leads
<1>7. Moves(m, s, k, Head(w), st[2], ks[2])
  <2>1. 1 \in 1 .. Len(w)
    BY <1>0
  <2>2. Moves(m, st[1], ks[1], w[1], st[1 + 1], ks[1 + 1])
    BY <1>1, <2>1 DEF Path
  <2> QED
    BY <1>0, <1>1, <2>2
<1>8. st[2] \in LineStates /\ ks[2] \in Nat
  BY <1>0, <1>1
<1> QED
  BY <1>6, <1>7, <1>8

\* A prefix leads somewhere too, and not to the end of a message before all was read.
LEMMA LeadsPartly ==
    ASSUME NEW m, NEW w \in Seq(Bytes), NEW s, NEW k, NEW t, NEW l,
           Leads(m, w, s, k, t, l), NEW j \in 0 .. Len(w)
    PROVE  \E u \in LineStates, n \in Nat :
              /\ Leads(m, SubSeq(w, 1, j), s, k, u, n)
              /\ u = "done" /\ m # <<>> => t = "done"
<1>0. Len(w) \in Nat /\ j \in Nat
  BY LenProperties
<1>1. PICK st \in [1 .. Len(w) + 1 -> LineStates], ks \in [1 .. Len(w) + 1 -> Nat] :
        /\ Path(m, w, st, ks)
        /\ st[1] = s /\ ks[1] = k
        /\ st[Len(w) + 1] = t /\ ks[Len(w) + 1] = l
  BY DEF Leads
<1> DEFINE p == SubSeq(w, 1, j)
           st2 == [i \in 1 .. j + 1 |-> st[i]]
           ks2 == [i \in 1 .. j + 1 |-> ks[i]]
<1>2. Len(p) = j /\ \A i \in 1 .. j : p[i] = w[i]
  <2>1. \A i \in 1 .. j : w[i] \in Bytes
    BY <1>0, ElementOfSeq
  <2> QED
    BY <1>0, <2>1, SubSeqProperties
<1> HIDE DEF p
<1>3. st2 \in [1 .. Len(p) + 1 -> LineStates] /\ ks2 \in [1 .. Len(p) + 1 -> Nat]
  BY <1>0, <1>1, <1>2
<1>4. ASSUME NEW i \in 1 .. Len(p)
      PROVE  Moves(m, st2[i], ks2[i], p[i], st2[i + 1], ks2[i + 1])
  <2>1. i \in 1 .. Len(w) /\ i \in 1 .. j
    BY <1>0, <1>2
  <2>2. Moves(m, st[i], ks[i], w[i], st[i + 1], ks[i + 1])
    BY <1>1, <2>1 DEF Path
  <2>3. /\ st2[i] = st[i] /\ ks2[i] = ks[i] /\ p[i] = w[i]
        /\ st2[i + 1] = st[i + 1] /\ ks2[i + 1] = ks[i + 1]
    BY <1>0, <1>2, <2>1
  <2> QED
    BY <2>2, <2>3
<1>5. Path(m, p, st2, ks2)
  BY <1>3, <1>4 DEF Path
<1>6. /\ st2[1] = s /\ ks2[1] = k
      /\ st2[Len(p) + 1] = st[j + 1] /\ ks2[Len(p) + 1] = ks[j + 1]
  BY <1>0, <1>1, <1>2
<1>7. Leads(m, p, s, k, st[j + 1], ks[j + 1])
  BY <1>3, <1>5, <1>6 DEF Leads
<1>8. st[j + 1] \in LineStates /\ ks[j + 1] \in Nat
  BY <1>0, <1>1
<1>9. ASSUME st[j + 1] = "done", m # <<>>
      PROVE  t = "done"
  <2>1. CASE j = Len(w)
    BY <1>1, <1>9, <2>1
  <2>2. CASE j # Len(w)
    <3>1. j + 1 \in 1 .. Len(w)
      BY <1>0, <2>2
    <3>2. Moves(m, st[j + 1], ks[j + 1], w[j + 1], st[j + 1 + 1], ks[j + 1 + 1])
      BY <1>1, <3>1 DEF Path
    <3> QED
      BY <1>9, <3>2 DEF Moves
  <2> QED
    BY <2>1, <2>2
<1> QED
  BY <1>7, <1>8, <1>9 DEF p

-----------------------------------------------------------------------------
(* The variables keep their types *)

\* TypeOK, and how far `message` of the stream has got.
Shape ==
    /\ message \in Messages
    /\ frame \in Seq(Bytes)
    /\ Len(frame) <= Len(message)
    /\ \A i \in 1 .. Len(frame) : frame[i] = message[i]
    /\ phase \in Phases
    /\ escape_count \in 0 .. 2
    /\ idx \in 1 .. Len(frame) + 1
    /\ start \in 1 .. idx
    /\ wire \in Seq(Bytes)
    /\ rstate \in LineStates
    /\ content \in Seq(Bytes)
    /\ phase = "read" => escape_count = 0 /\ idx = 1 /\ start = 1
    /\ phase \in {"encode", "final", "sent"} => frame = message
    /\ phase \in {"final", "sent"} => start = Len(message) + 1

\* The message a call encodes.
LEMMA MessageType == Shape => message \in Seq(Bytes) /\ Len(message) \in Nat
BY MessagesAssumption, LenProperties DEF Shape

\* A slice of bytes is bytes.
LEMMA SliceType ==
    ASSUME NEW s \in Seq(Bytes), NEW a \in Nat \ {0}, NEW b \in 0 .. Len(s)
    PROVE  SubSeq(s, a, b) \in Seq(Bytes)
<1>1. Len(s) \in Nat /\ \A i \in a .. b : s[i] \in Bytes
  BY LenProperties, ElementOfSeq
<1> QED
  BY <1>1, SubSeqProperties

\* The shape of the state at first.
LEMMA InitShape == Init => Shape
<1> SUFFICES ASSUME Init PROVE Shape
  OBVIOUS
<1>1. message \in Seq(Bytes)
  BY MessagesAssumption DEF Init
<1>2. Len(message) \in Nat /\ <<>> \in Seq(Bytes) /\ Len(<<>>) = 0
  BY <1>1, LenProperties, EmptySeq
<1> QED
  BY <1>2 DEF Init, Shape, Phases, LineStates

\* escape_count after a byte is a count, or the 3 that asks for a dot.
LEMMA EscapeType ==
    ASSUME NEW count \in 0 .. 2, NEW byte
    PROVE  Escape(count, byte) \in 0 .. 3
BY DEF Escape

\* What the loop over a frame does with a byte: a dot before it, or nothing yet.
LEMMA EncodeByteWrites ==
    ASSUME EncodeByte
    PROVE  \/ /\ Escape(escape_count, frame[idx]) = 3
              /\ wire' = wire \o (SubSeq(frame, start, idx - 1) \o <<".">>)
              /\ start' = idx
              /\ escape_count' = 0
           \/ /\ Escape(escape_count, frame[idx]) # 3
              /\ wire' = wire
              /\ start' = start
              /\ escape_count' = Escape(escape_count, frame[idx])
BY Zenon DEF EncodeByte, WriteAll

\* What is written behind the loop: the rest of the frame, or the final dot.
LEMMA EncodeEndWrites ==
    ASSUME EncodeEnd
    PROVE  /\ frame = <<>> =>
                wire' = wire \o SubSeq(FinalDot, escape_count + 1, Len(FinalDot))
           /\ frame # <<>> => wire' = wire \o SubSeq(frame, start, Len(frame))
BY Zenon DEF EncodeEnd, WriteAll

\* Every step keeps the shape.
LEMMA NextShape ==
    ASSUME Shape, [Next]_vars
    PROVE  Shape'
<1>0. /\ message \in Seq(Bytes) /\ Len(message) \in Nat /\ Len(frame) \in Nat
      /\ Len(wire) \in Nat
  BY MessageType, LenProperties DEF Shape
<1>1. CASE ReadChunk
  <2>1. PICK n \in Len(frame) + 1 .. Len(message) : frame' = SubSeq(message, 1, n)
    BY <1>1 DEF ReadChunk
  <2>2. n \in Nat /\ \A i \in 1 .. n : message[i] \in Bytes
    BY <1>0, <2>1, ElementOfSeq
  <2>3. /\ frame' \in Seq(Bytes)
        /\ Len(frame') = n
        /\ \A i \in 1 .. n : frame'[i] = message[i]
    BY <1>0, <2>1, <2>2, SubSeqProperties
  <2>4. /\ phase' = "read" /\ phase = "read"
        /\ UNCHANGED <<message, escape_count, idx, start, wire, rstate, content>>
    BY <1>1 DEF ReadChunk
  <2> QED
    BY <1>0, <2>1, <2>3, <2>4 DEF Shape
<1>2. CASE ReadToEnd
  BY <1>2 DEF ReadToEnd, Shape, Phases, input
<1>3. CASE EncodeByte
  <2> DEFINE count == Escape(escape_count, frame[idx])
             slice == SubSeq(frame, start, idx - 1)
  <2>1. /\ phase = "encode" /\ idx <= Len(frame)
        /\ frame[idx] \in Bytes
        /\ slice \in Seq(Bytes)
        /\ count \in 0 .. 3
    BY <1>0, <1>3, ElementOfSeq, SliceType, EscapeType DEF EncodeByte, Shape
  <2>2. <<".">> \in Seq(Bytes)
    BY DEF Bytes
  <2>3. slice \o <<".">> \in Seq(Bytes)
    BY <2>1, <2>2, ConcatProperties
  <2>4. wire \o (slice \o <<".">>) \in Seq(Bytes)
    BY <2>3, ConcatProperties DEF Shape
  <2> HIDE DEF slice, count
  <2>5. wire' \in Seq(Bytes) /\ escape_count' \in 0 .. 2 /\ start' \in 1 .. idx
    <3>1. CASE count = 3
      <4>1. wire' = wire \o (slice \o <<".">>) /\ start' = idx /\ escape_count' = 0
        BY <1>3, <3>1, EncodeByteWrites DEF slice, count
      <4> QED
        BY <1>0, <2>4, <4>1 DEF Shape
    <3>2. CASE count # 3
      BY <1>0, <1>3, <2>1, <3>2, EncodeByteWrites DEF Shape, count
    <3> QED
      BY <3>1, <3>2
  <2>6. idx' = idx + 1 /\ UNCHANGED <<input, phase, rstate, content>>
    BY <1>3 DEF EncodeByte
  <2> QED
    BY <1>0, <2>1, <2>5, <2>6 DEF Shape, input
<1>4. CASE EncodeEnd
  <2>1. phase = "encode" /\ idx = Len(frame) + 1 /\ frame = message
    BY <1>0, <1>4 DEF EncodeEnd, Shape
  <2>2. wire' \in Seq(Bytes)
    <3>1. CASE frame = <<>>
      <4>1. escape_count + 1 \in Nat \ {0} /\ FinalDot \in Seq(Bytes) /\ Len(FinalDot) \in Nat
        BY TextType, LenProperties DEF Shape
      <4>2. SubSeq(FinalDot, escape_count + 1, Len(FinalDot)) \in Seq(Bytes)
        BY <4>1, SliceType
      <4>3. wire \o SubSeq(FinalDot, escape_count + 1, Len(FinalDot)) \in Seq(Bytes)
        BY <4>2, ConcatProperties DEF Shape
      <4> QED
        BY <1>4, <3>1, <4>3, EncodeEndWrites
    <3>2. CASE frame # <<>>
      <4>1. SubSeq(frame, start, Len(frame)) \in Seq(Bytes)
        BY <1>0, SliceType DEF Shape
      <4>2. wire \o SubSeq(frame, start, Len(frame)) \in Seq(Bytes)
        BY <4>1, ConcatProperties DEF Shape
      <4> QED
        BY <1>4, <3>2, <4>2, EncodeEndWrites
    <3> QED
      BY <3>1, <3>2
  <2>3. /\ escape_count' \in 0 .. 2 /\ start' = idx /\ phase' = "final"
        /\ UNCHANGED <<input, idx, rstate, content>>
    BY <1>4 DEF EncodeEnd, Shape
  <2> QED
    BY <1>0, <2>1, <2>2, <2>3 DEF Shape, input, Phases
<1>5. CASE WriteFinalDot
  <2>1. wire' \in Seq(Bytes)
    BY <1>5, TextType, ConcatProperties DEF WriteFinalDot, WriteAll, Shape
  <2> QED
    BY <1>5, <2>1 DEF WriteFinalDot, Shape, input, Phases
<1>6. CASE Break
  <2>1. PICK n \in 0 .. Len(wire) : wire' = SubSeq(wire, 1, n)
    BY <1>6 DEF Break
  <2>2. wire' \in Seq(Bytes)
    BY <2>1, SliceType DEF Shape
  <2> QED
    BY <1>6, <2>2 DEF Break, Shape, input, Phases
<1>7. CASE Receive
  <2>1. Head(wire) \in Bytes /\ wire' \in Seq(Bytes)
    BY <1>7, HeadTailProperties DEF Receive, Shape
  <2>2. /\ <<Head(wire)>> \in Seq(Bytes) /\ <<"CR", Head(wire)>> \in Seq(Bytes)
    BY <2>1 DEF Bytes
  <2>3. /\ content \o <<Head(wire)>> \in Seq(Bytes)
        /\ content \o <<"CR", Head(wire)>> \in Seq(Bytes)
    BY <2>2, ConcatProperties DEF Shape
  <2>4. content' \in Seq(Bytes)
    BY <1>7, <2>3 DEF Receive, Keep, Shape
  <2>5. rstate' \in LineStates
    BY <1>7 DEF Receive, InLine, LineStates
  <2>6. UNCHANGED <<input, phase, escape_count, idx, start>>
    BY <1>7 DEF Receive
  <2> QED
    BY <2>1, <2>4, <2>5, <2>6 DEF Shape, input
<1>8. CASE UNCHANGED vars
  BY <1>8 DEF vars, input, Shape
<1> QED
  BY <1>1, <1>2, <1>3, <1>4, <1>5, <1>6, <1>7, <1>8 DEF Next, Finished

\* The shape of every state that is reached.
LEMMA ShapeInvariant == Spec => []Shape
BY InitShape, NextShape, PTL DEF Spec

\* The codec never reaches the arms marked unreachable!() and never takes a slice out
\* of bounds, for messages of every length.
THEOREM TypeCorrect == Spec => []TypeOK
<1>1. Shape => TypeOK
  <2> SUFFICES ASSUME Shape PROVE TypeOK
    OBVIOUS
  <2>1. IsPrefix(frame, message)
    BY MessageType, PrefixFacts DEF Shape
  <2> QED
    BY <2>1 DEF Shape, TypeOK
<1> QED
  BY <1>1, ShapeInvariant, PTL


-----------------------------------------------------------------------------
(* Codec and server in step *)

\* The messages the codec is made for: it starts in the middle of a line, and a CR
\* before CR LF makes it forget the CR.
Faithful ==
    \A m \in Messages :
        /\ m # <<>> => m[1] # "."
        /\ \A i \in 1 .. Len(m) - 3 :
              ~(m[i] = "CR" /\ m[i + 1] = "CR" /\ m[i + 2] = "LF" /\ m[i + 3] = ".")

\* Gone over by the loop and not written yet.
Pending == IF phase = "encode" THEN SubSeq(frame, start, idx - 1) ELSE <<>>

Pipe == wire \o Pending

\* After a first dot or a CR CR LF the codec's count is 0 though the server is
\* where the count 1 or 2 stands for.
Encoded(s) ==
    /\ s \in {"line", "text", "cr"}
    /\ escape_count = 1 => s = "cr" /\ idx >= 2 /\ message[idx - 1] = "CR"
    /\ escape_count = 2 => s = "line" /\ idx >= 3
    /\ escape_count = 0 /\ s = "cr" =>
          idx >= 3 /\ message[idx - 2] = "CR" /\ message[idx - 1] = "CR"
    /\ escape_count = 0 /\ s = "line" =>
          \/ idx = 1
          \/ /\ idx >= 4 /\ message[idx - 3] = "CR" /\ message[idx - 2] = "CR"
             /\ message[idx - 1] = "LF"

\* Where the server is to be, with how many bytes, once it has read the pipe.
Ahead(t, l) ==
    /\ phase \in {"read", "encode"} => l = idx - 1 /\ Encoded(t)
    /\ phase = "final" => IF message = <<>> THEN t = "done"
                          ELSE t \in {"line", "text", "cr"} /\ l = Len(message)
    /\ phase = "sent" => t = "done"
    /\ phase = "broken" /\ message # <<>> /\ t = "done" => start = Len(message) + 1

Sync ==
    \E t \in LineStates, l \in Nat :
        Leads(message, Pipe, rstate, Len(content), t, l) /\ Ahead(t, l)

\* What the server has so far.
Exact ==
    /\ Len(content) <= Len(Whole(message))
    /\ \A i \in 1 .. Len(content) : content[i] = Whole(message)[i]
    /\ rstate = "done" => Len(content) = Len(Whole(message))

\* A message with its CR LF.
LEMMA WholeFacts ==
    ASSUME NEW m \in Seq(Bytes)
    PROVE  /\ Whole(m) \in Seq(Bytes)
           /\ Len(Whole(m)) = Len(m) + 2 /\ Len(m) \in Nat
           /\ \A i \in 1 .. Len(m) : Whole(m)[i] = m[i]
           /\ Whole(m)[Len(m) + 1] = "CR" /\ Whole(m)[Len(m) + 2] = "LF"
<1>1. CRLF \in Seq(Bytes) /\ Len(CRLF) = 2 /\ CRLF[1] = "CR" /\ CRLF[2] = "LF"
  BY TextType DEF CRLF
<1>2. Len(m) \in Nat
  BY LenProperties
<1>3. /\ Whole(m) \in Seq(Bytes)
      /\ Len(Whole(m)) = Len(m) + Len(CRLF)
      /\ \A i \in 1 .. Len(m) + Len(CRLF) :
            Whole(m)[i] = IF i <= Len(m) THEN m[i] ELSE CRLF[i - Len(m)]
  BY <1>1, ConcatProperties DEF Whole
<1>4. Whole(m)[Len(m) + 1] = CRLF[1] /\ Whole(m)[Len(m) + 2] = CRLF[2]
  BY <1>1, <1>2, <1>3
<1> QED
  BY <1>1, <1>2, <1>3, <1>4

\* What is in the pipe are bytes.
LEMMA PipeType ==
    ASSUME Shape
    PROVE  /\ Pending \in Seq(Bytes)
           /\ Pipe \in Seq(Bytes)
           /\ Len(Pipe) = Len(wire) + Len(Pending)
           /\ phase # "encode" => Pending = <<>> /\ Pipe = wire
<1>1. Len(frame) \in Nat
  BY LenProperties DEF Shape
<1>2. Pending \in Seq(Bytes)
  <2>1. CASE phase = "encode"
    BY <1>1, <2>1, SliceType DEF Pending, Shape
  <2>2. CASE phase # "encode"
    BY <2>2, EmptySeq DEF Pending
  <2> QED
    BY <2>1, <2>2
<1>3. phase # "encode" => Pending = <<>>
  BY DEF Pending
<1>4. wire \in Seq(Bytes)
  BY DEF Shape
<1> QED
  BY <1>2, <1>3, <1>4, ConcatProperties, ConcatEmptySeq DEF Pipe

\* The end of the data, behind a content that is complete or a first end.
LEMMA FinalLeads ==
    ASSUME NEW m \in Seq(Bytes), NEW w \in Seq(Bytes), NEW s, NEW k, NEW t, NEW l \in Nat,
           Leads(m, w, s, k, t, l),
           \/ t \in {"line", "text", "cr"} /\ l = Len(m)
           \/ t = "done" /\ m = <<>>
    PROVE  \E n \in Nat : Leads(m, w \o FinalDot, s, k, "done", n)
<1>0. /\ Len(Whole(m)) = Len(m) + 2 /\ Len(m) \in Nat
      /\ Whole(m)[Len(m) + 1] = "CR" /\ Whole(m)[Len(m) + 2] = "LF"
  BY WholeFacts
<1>1. "CR" \in Bytes /\ "LF" \in Bytes /\ "." \in Bytes
  BY DEF Bytes
<1>2. {"line", "text", "cr", "dot", "dotcr", "done"} = LineStates
  BY DEF LineStates
<1> DEFINE w1 == Append(w, "CR")
           w2 == Append(w1, "LF")
           w3 == Append(w2, ".")
           w4 == Append(w3, "CR")
           w5 == Append(w4, "LF")
<1>3. w1 \in Seq(Bytes) /\ w2 \in Seq(Bytes) /\ w3 \in Seq(Bytes) /\ w4 \in Seq(Bytes)
  BY <1>1, AppendProperties
<1>4. w5 = w \o FinalDot
  BY DEF FinalDot, CRLF
<1> HIDE DEF w1, w2, w3, w4, w5
<1>5. CASE t \in {"line", "text", "cr"} /\ l = Len(m)
  <2>1. Moves(m, t, l, "CR", "cr", l + 1)
    BY <1>0, <1>5 DEF Moves, Grows, InLine
  <2>2. Leads(m, w1, s, k, "cr", l + 1)
    BY <1>1, <1>2, <2>1, LeadsOn DEF w1
  <2>3. Moves(m, "cr", l + 1, "LF", "line", l + 2)
    BY <1>0, <1>5 DEF Moves, Grows
  <2>4. Leads(m, w2, s, k, "line", l + 2)
    BY <1>1, <1>2, <1>3, <2>2, <2>3, LeadsOn DEF w2
  <2>5. Moves(m, "line", l + 2, ".", "dot", l + 2)
    BY DEF Moves
  <2>6. Leads(m, w3, s, k, "dot", l + 2)
    BY <1>1, <1>2, <1>3, <2>4, <2>5, LeadsOn DEF w3
  <2>7. Moves(m, "dot", l + 2, "CR", "dotcr", l + 2)
    BY DEF Moves
  <2>8. Leads(m, w4, s, k, "dotcr", l + 2)
    BY <1>1, <1>2, <1>3, <2>6, <2>7, LeadsOn DEF w4
  <2>9. Moves(m, "dotcr", l + 2, "LF", "done", l + 2)
    BY <1>0, <1>5 DEF Moves
  <2>10. Leads(m, w5, s, k, "done", l + 2)
    BY <1>1, <1>2, <1>3, <2>8, <2>9, LeadsOn DEF w5
  <2> QED
    BY <1>4, <2>10
<1>6. CASE t = "done" /\ m = <<>>
  <2>1. \A b \in Bytes : Moves(m, "done", l, b, "done", l)
    BY <1>6 DEF Moves
  <2>2. Leads(m, w1, s, k, "done", l)
    BY <1>1, <1>2, <1>6, <2>1, LeadsOn DEF w1
  <2>3. Leads(m, w2, s, k, "done", l)
    BY <1>1, <1>2, <1>3, <2>1, <2>2, LeadsOn DEF w2
  <2>4. Leads(m, w3, s, k, "done", l)
    BY <1>1, <1>2, <1>3, <2>1, <2>3, LeadsOn DEF w3
  <2>5. Leads(m, w4, s, k, "done", l)
    BY <1>1, <1>2, <1>3, <2>1, <2>4, LeadsOn DEF w4
  <2>6. Leads(m, w5, s, k, "done", l)
    BY <1>1, <1>2, <1>3, <2>1, <2>5, LeadsOn DEF w5
  <2> QED
    BY <1>4, <2>6
<1> QED
  BY <1>5, <1>6


\* At first nothing is in the pipe.
LEMMA InitSync == Init => Exact /\ Sync
<1> SUFFICES ASSUME Init PROVE Exact /\ Sync
  OBVIOUS
<1>1. Shape
  BY InitShape
<1>2. Pipe = <<>> /\ Len(content) = 0 /\ rstate = "line"
  BY <1>1, PipeType, EmptySeq DEF Init
<1>3. Leads(message, Pipe, rstate, Len(content), "line", 0)
  BY <1>2, LeadsNowhere DEF LineStates
<1>4. Ahead("line", 0)
  BY DEF Init, Ahead, Encoded
<1>5. Len(Whole(message)) \in Nat
  BY <1>1, MessageType, WholeFacts
<1> QED
  BY <1>2, <1>3, <1>4, <1>5 DEF Exact, Sync, LineStates

\* One byte more in the pipe, or the dot and its double.
LEMMA PipeGrows ==
    ASSUME Shape, EncodeByte
    PROVE  /\ Pipe \in Seq(Bytes) /\ frame[idx] \in Bytes
           /\ Escape(escape_count, frame[idx]) # 3 => Pipe' = Append(Pipe, frame[idx])
           /\ Escape(escape_count, frame[idx]) = 3 =>
                frame[idx] = "." /\ Pipe' = Append(Append(Pipe, "."), ".")
<1>0. /\ Len(frame) \in Nat /\ frame \in Seq(Bytes) /\ wire \in Seq(Bytes)
      /\ idx \in 1 .. Len(frame) /\ start \in 1 .. idx
      /\ frame[idx] \in Bytes /\ <<frame[idx]>> \in Seq(Bytes)
      /\ phase = "encode" /\ phase' = "encode" /\ frame' = frame /\ idx' = idx + 1
  <2>1. Len(frame) \in Nat /\ idx \in 1 .. Len(frame) /\ frame \in Seq(Bytes)
    BY LenProperties DEF Shape, EncodeByte
  <2>2. frame[idx] \in Bytes
    BY <2>1, ElementOfSeq
  <2> QED
    BY <2>1, <2>2 DEF Shape, EncodeByte, input
<1> DEFINE slice == SubSeq(frame, start, idx - 1)
           byte == frame[idx]
<1>1. slice \in Seq(Bytes)
  BY <1>0, SliceType
<1>2. Pipe = wire \o slice /\ Pipe \in Seq(Bytes)
  BY <1>0, <1>1, PipeType DEF Pipe, Pending
<1>3. ASSUME NEW b \in Bytes
      PROVE  wire \o (slice \o <<b>>) = Append(Pipe, b)
  <2>1. <<b>> \in Seq(Bytes)
    OBVIOUS
  <2>2. wire \o (slice \o <<b>>) = (wire \o slice) \o <<b>>
    BY <1>0, <1>1, <2>1, ConcatAssociative
  <2> QED
    BY <1>2, <2>2, AppendIsConcat
<1>4. CASE Escape(escape_count, byte) # 3
  <2>1. wire' = wire /\ start' = start
    BY <1>4, EncodeByteWrites
  <2>2. Pending' = SubSeq(frame, start, idx)
    <3>1. idx + 1 - 1 = idx
      BY <1>0
    <3> QED
      BY <1>0, <2>1, <3>1 DEF Pending
  <2>3. SubSeq(frame, start, idx) = slice \o <<byte>>
    <3>1. start \in 1 .. Len(frame) /\ idx \in start .. Len(frame)
      BY <1>0
    <3> QED
      BY <1>0, <3>1, SubSeqRecursiveSecond
  <2>4. Pipe' = wire \o (slice \o <<byte>>)
    BY <2>1, <2>2, <2>3 DEF Pipe
  <2> QED
    BY <1>0, <1>2, <1>3, <1>4, <2>4
<1>5. CASE Escape(escape_count, byte) = 3
  <2>1. wire' = wire \o (slice \o <<".">>) /\ start' = idx
    BY <1>5, EncodeByteWrites
  <2>2. byte = "."
    BY <1>5 DEF Escape
  <2>3. wire' = Append(Pipe, ".")
    BY <1>3, <2>1 DEF Bytes
  <2>4. Pending' = SubSeq(frame, idx, idx)
    <3>1. idx + 1 - 1 = idx
      BY <1>0
    <3> QED
      BY <1>0, <2>1, <3>1 DEF Pending
  <2>5. SubSeq(frame, idx, idx) = <<".">>
    <3>1. SubSeq(frame, idx, idx) = SubSeq(frame, idx, idx - 1) \o <<byte>>
      BY <1>0, SubSeqRecursiveSecond
    <3>2. SubSeq(frame, idx, idx - 1) = <<>>
      BY <1>0, SubSeqEmpty
    <3> QED
      BY <1>0, <2>2, <3>1, <3>2, ConcatEmptySeq
  <2>6. Append(Pipe, ".") \in Seq(Bytes) /\ "." \in Bytes
    BY <1>2, AppendProperties DEF Bytes
  <2>7. Pipe' = Append(Pipe, ".") \o <<".">>
    BY <2>3, <2>4, <2>5 DEF Pipe
  <2> QED
    BY <1>0, <1>2, <1>5, <2>2, <2>6, <2>7, AppendIsConcat
<1> QED
  BY <1>0, <1>2, <1>4, <1>5

\* The codec's count tells what the server will make of the byte.
LEMMA EncodeByteKeepsSync ==
    ASSUME Faithful, Shape, Sync, EncodeByte
    PROVE  Sync'
<1>1. PICK t \in LineStates, l \in Nat :
          Leads(message, Pipe, rstate, Len(content), t, l) /\ Ahead(t, l)
  BY DEF Sync
<1>2. /\ phase = "encode" /\ phase' = "encode"
      /\ UNCHANGED <<message, rstate, content>>
      /\ idx' = idx + 1
      /\ l = idx - 1 /\ Encoded(t)
  BY <1>1 DEF EncodeByte, Ahead, input
<1>3. /\ message \in Messages /\ message \in Seq(Bytes) /\ Len(message) \in Nat
      /\ idx \in 1 .. Len(message)
      /\ escape_count \in 0 .. 2
      /\ frame[idx] = message[idx]
      /\ message # <<>>
  <2>1. Len(message) \in Nat /\ message \in Seq(Bytes) /\ frame = message
    BY <1>2, MessageType DEF Shape
  <2>2. idx \in 1 .. Len(message)
    BY <2>1 DEF Shape, EncodeByte
  <2> QED
    BY <2>1, <2>2, EmptySeq DEF Shape
<1>4. PICK byte \in Bytes, n \in Nat : byte = message[idx] /\ n = idx
  BY <1>3, ElementOfSeq
<1>5. /\ Len(Whole(message)) = Len(message) + 2
      /\ Whole(message)[l + 1] = byte /\ l + 1 = n /\ l < Len(Whole(message))
  BY <1>2, <1>3, <1>4, WholeFacts
<1>6. ASSUME NEW u \in LineStates, Leads(message, Pipe', rstate, Len(content), u, n),
             Encoded(u)'
      PROVE  Sync'
  <2>1. Ahead(u, n)'
    BY <1>2, <1>3, <1>6, <1>4 DEF Ahead
  <2>2. Leads(message', Pipe', rstate', Len(content'), u, n)
    BY <1>2, <1>6
  <2> QED
    BY <2>1, <2>2 DEF Sync
<1>7. CASE Escape(escape_count, byte) # 3
  <2>0. PICK u \in LineStates : u = IF t = "cr" /\ byte = "LF" THEN "line" ELSE InLine(byte)
    BY DEF InLine, LineStates
  <2>1. Pipe' = Append(Pipe, byte) /\ Pipe \in Seq(Bytes) 
    BY <1>3, <1>7, <1>4, PipeGrows
  <2>2. ~(t = "line" /\ byte = ".")
    <3> SUFFICES ASSUME t = "line", byte = "." PROVE FALSE
      OBVIOUS
    <3>1. escape_count = 0
      BY <1>2, <1>3, <1>7 DEF Encoded, Escape
    <3>2. CASE idx = 1
      BY <1>3, <1>4, <3>2 DEF Faithful
    <3>3. CASE idx # 1
      <4>1. /\ idx - 3 \in 1 .. Len(message) - 3
            /\ message[idx - 3] = "CR" /\ message[idx - 3 + 1] = "CR"
            /\ message[idx - 3 + 2] = "LF" /\ message[idx - 3 + 3] = "."
        BY <1>2, <1>3, <1>4, <3>1, <3>3 DEF Encoded
      <4> QED
        BY <1>3, <4>1 DEF Faithful
    <3> QED
      BY <3>2, <3>3
  <2>3. Moves(message, t, l, byte, u, n)
    BY <1>2, <1>5, <2>0, <2>2 DEF Moves, Grows, Encoded, InLine, LineStates
  <2>4. Leads(message, Pipe', rstate, Len(content), u, n)
    BY <1>1, <2>1, <2>3, LeadsOn
  <2>5. escape_count' = Escape(escape_count, byte)
    BY <1>3, <1>7, <1>4, EncodeByteWrites
  <2>6. /\ u \in {"line", "text", "cr"}
        /\ escape_count' = 1 => u = "cr" /\ byte = "CR"
        /\ escape_count' = 2 => u = "line" /\ idx >= 2
        /\ escape_count' = 0 /\ u = "cr" =>
              byte = "CR" /\ idx >= 2 /\ message[idx - 1] = "CR"
        /\ escape_count' = 0 /\ u = "line" =>
              /\ byte = "LF" /\ idx >= 3
              /\ message[idx - 2] = "CR" /\ message[idx - 1] = "CR"
    BY <1>2, <1>3, <1>7, <1>4, <2>0, <2>5 DEF Encoded, Escape, InLine
  <2>7. Encoded(u)'
    <3>1. /\ idx' - 1 = idx /\ idx' - 2 = idx - 1 /\ idx' - 3 = idx - 2
          /\ message' = message /\ message[idx] = byte
          /\ idx >= 2 => idx' >= 3
          /\ idx >= 3 => idx' >= 4
          /\ idx' >= 2
      BY <1>2, <1>3, <1>4
    <3> QED
      BY <2>6, <3>1 DEF Encoded
  <2> QED
    BY <1>6, <2>4, <2>7
<1>8. CASE Escape(escape_count, byte) = 3
  <2>1. escape_count = 2 /\ byte = "." /\ t = "line"
    BY <1>2, <1>8 DEF Escape, Encoded
  <2>2. /\ Pipe' = Append(Append(Pipe, "."), ".") /\ Pipe \in Seq(Bytes)
        /\ "." \in Bytes /\ Append(Pipe, ".") \in Seq(Bytes)
    BY <1>3, <1>8, <1>4, PipeGrows, AppendProperties DEF Bytes
  <2>3. Moves(message, "line", l, ".", "dot", l)
    BY DEF Moves
  <2>4. Leads(message, Append(Pipe, "."), rstate, Len(content), "dot", l)
    BY <1>1, <2>1, <2>2, <2>3, LeadsOn DEF LineStates
  <2>5. Moves(message, "dot", l, ".", "text", n)
    BY <1>2, <1>5, <2>1 DEF Moves, Grows, InLine
  <2>6. Leads(message, Pipe', rstate, Len(content), "text", n)
    BY <2>2, <2>4, <2>5, LeadsOn DEF LineStates
  <2>7. escape_count' = 0
    BY <1>3, <1>8, <1>4, EncodeByteWrites
  <2>8. Encoded("text")'
    BY <2>7 DEF Encoded
  <2> QED
    BY <1>6, <2>6, <2>8 DEF LineStates
<1> QED
  BY <1>7, <1>8


\* Behind the loop all that the codec has gone over is written.
LEMMA PipeAfter ==
    ASSUME Shape', phase' # "encode"
    PROVE  Pipe' = wire'
<1>1. Pending' = <<>>
  BY DEF Pending
<1>2. wire' \in Seq(Bytes)
  BY DEF Shape
<1> QED
  BY <1>1, <1>2, ConcatEmptySeq DEF Pipe

\* The end of a frame: what was pending is written, or the final dot is.
LEMMA EncodeEndKeepsSync ==
    ASSUME Shape, Shape', Sync, EncodeEnd
    PROVE  Sync'
<1>1. PICK t \in LineStates, l \in Nat :
          Leads(message, Pipe, rstate, Len(content), t, l) /\ Ahead(t, l)
  BY DEF Sync
<1>2. /\ phase = "encode" /\ phase' = "final" /\ frame = message
      /\ message' = message /\ rstate' = rstate /\ content' = content
      /\ message \in Seq(Bytes) /\ wire \in Seq(Bytes) /\ Len(message) \in Nat
      /\ idx = Len(message) + 1 /\ start \in 1 .. idx
      /\ l = idx - 1 /\ Encoded(t)
  <2>1. phase = "encode" /\ message \in Seq(Bytes) /\ Len(message) \in Nat
    BY MessageType DEF EncodeEnd
  <2> QED
    BY <1>1, <2>1 DEF EncodeEnd, Shape, Ahead, input
<1>3. Pipe' = wire'
  BY <1>2, PipeAfter
<1>4. CASE message = <<>>
  <2>1. escape_count = 0
    BY <1>2, <1>4 DEF Encoded, Shape
  <2>2. SubSeq(FinalDot, 0 + 1, Len(FinalDot)) = FinalDot
    BY TextType, SubSeqFull
  <2>3. wire' = wire \o FinalDot
    BY <1>2, <1>4, <2>1, <2>2, EncodeEndWrites
  <2>4. Pipe = wire
    <3>1. Pending = <<>>
      BY <1>2, <1>4, SubSeqEmpty DEF Pending
    <3> QED
      BY <1>2, <3>1, ConcatEmptySeq DEF Pipe
  <2>5. PICK n \in Nat : Leads(message, wire \o FinalDot, rstate, Len(content), "done", n)
    BY <1>1, <1>2, <2>4, FinalLeads DEF Encoded
  <2>6. Leads(message', Pipe', rstate', Len(content'), "done", n)
    BY <1>2, <1>3, <2>3, <2>5
  <2>7. Ahead("done", n)'
    BY <1>2, <1>4 DEF Ahead
  <2> QED
    BY <2>6, <2>7 DEF Sync, LineStates
<1>5. CASE message # <<>>
  <2>1. Pipe' = Pipe
    <3>1. wire' = wire \o SubSeq(frame, start, Len(frame))
      BY <1>2, <1>5, EncodeEndWrites
    <3>2. idx - 1 = Len(frame)
      BY <1>2
    <3> QED
      BY <1>2, <1>3, <3>1, <3>2 DEF Pipe, Pending
  <2>2. Leads(message', Pipe', rstate', Len(content'), t, l)
    BY <1>1, <1>2, <2>1
  <2>3. Ahead(t, l)'
    BY <1>2, <1>5 DEF Ahead, Encoded
  <2> QED
    BY <2>2, <2>3 DEF Sync
<1> QED
  BY <1>4, <1>5

\* The final dot leads to the end of the content.
LEMMA FinalDotKeepsSync ==
    ASSUME Shape, Shape', Sync, WriteFinalDot
    PROVE  Sync'
<1>1. PICK t \in LineStates, l \in Nat :
          Leads(message, Pipe, rstate, Len(content), t, l) /\ Ahead(t, l)
  BY DEF Sync
<1>2. /\ phase = "final" /\ phase' = "sent" /\ wire' = wire \o FinalDot
      /\ message' = message /\ rstate' = rstate /\ content' = content
      /\ message \in Seq(Bytes) /\ wire \in Seq(Bytes)
  BY MessageType DEF WriteFinalDot, WriteAll, Shape, input
<1>3. Pipe = wire /\ Pipe' = wire'
  BY <1>2, PipeType, PipeAfter
<1>4. PICK n \in Nat : Leads(message, wire \o FinalDot, rstate, Len(content), "done", n)
  <2>1. \/ t \in {"line", "text", "cr"} /\ l = Len(message)
        \/ t = "done" /\ message = <<>>
    BY <1>1, <1>2 DEF Ahead
  <2> QED
    BY <1>1, <1>2, <1>3, <2>1, FinalLeads
<1>5. Leads(message', Pipe', rstate', Len(content'), "done", n)
  BY <1>2, <1>3, <1>4
<1>6. Ahead("done", n)'
  BY <1>2 DEF Ahead
<1> QED
  BY <1>5, <1>6 DEF Sync, LineStates

\* A message of which the server lacks a byte is not taken.
LEMMA BreakKeepsSync ==
    ASSUME Shape, Shape', Sync, Break
    PROVE  Sync'
<1>1. PICK t \in LineStates, l \in Nat :
          Leads(message, Pipe, rstate, Len(content), t, l) /\ Ahead(t, l)
  BY DEF Sync
<1>2. /\ phase \in {"read", "encode", "final", "sent"} /\ phase' = "broken"
      /\ message' = message /\ rstate' = rstate /\ content' = content /\ start' = start
      /\ wire \in Seq(Bytes) /\ Pending \in Seq(Bytes) /\ Pipe \in Seq(Bytes)
      /\ Len(wire) \in Nat /\ Len(Pending) \in Nat
  BY PipeType, LenProperties DEF Break, Shape, input
<1>3. PICK j \in 0 .. Len(wire) : wire' = SubSeq(wire, 1, j)
  BY DEF Break
<1>4. Pipe' = SubSeq(Pipe, 1, j) /\ j \in 0 .. Len(Pipe)
  <2>1. Pipe' = wire'
    BY <1>2, PipeAfter
  <2>2. Len(Pipe) = Len(wire) + Len(Pending)
    BY PipeType
  <2>3. SubSeq(wire \o Pending, 1, j) = SubSeq(wire, 1, j)
    <3>1. CASE j = 0
      BY <3>1, SubSeqEmpty
    <3>2. CASE j # 0
      BY <1>2, <3>2, SubSeqOfConcat1
    <3> QED
      BY <3>1, <3>2
  <2> QED
    BY <1>2, <1>3, <2>1, <2>2, <2>3 DEF Pipe
<1>5. PICK u \in LineStates, n \in Nat :
          /\ Leads(message, SubSeq(Pipe, 1, j), rstate, Len(content), u, n)
          /\ u = "done" /\ message # <<>> => t = "done"
  BY <1>1, <1>2, <1>4, LeadsPartly
<1>6. Leads(message', Pipe', rstate', Len(content'), u, n)
  BY <1>2, <1>4, <1>5
<1>7. ASSUME message # <<>>, u = "done"
      PROVE  start = Len(message) + 1
  <2>1. phase = "sent"
    BY <1>1, <1>2, <1>5, <1>7 DEF Ahead, Encoded
  <2> QED
    BY <2>1 DEF Shape
<1>8. Ahead(u, n)'
  BY <1>2, <1>7 DEF Ahead
<1> QED
  BY <1>6, <1>8 DEF Sync

\* A frame read leaves the pipe as it is.
LEMMA ReadKeepsSync ==
    ASSUME Shape, Shape', Sync, ReadChunk \/ ReadToEnd
    PROVE  Sync'
<1>1. PICK t \in LineStates, l \in Nat :
          Leads(message, Pipe, rstate, Len(content), t, l) /\ Ahead(t, l)
  BY DEF Sync
<1>2. /\ phase = "read" /\ phase' \in {"read", "encode"}
      /\ UNCHANGED <<message, escape_count, idx, start, wire, rstate, content>>
      /\ idx = 1 /\ start = 1
  BY DEF ReadChunk, ReadToEnd, Shape, input
<1>3. Pending = <<>> /\ Pending' = <<>>
  BY <1>2, SubSeqEmpty DEF Pending
<1>4. Leads(message', Pipe', rstate', Len(content'), t, l)
  BY <1>1, <1>2, <1>3 DEF Pipe
<1>5. Ahead(t, l)'
  BY <1>1, <1>2 DEF Ahead, Encoded
<1> QED
  BY <1>4, <1>5 DEF Sync

\* The server does what was foreseen of it, and takes the byte that was foreseen.
LEMMA ReceiveKeepsSync ==
    ASSUME Shape, Shape', Sync, Exact, Receive
    PROVE  Sync' /\ Exact'
<1>1. PICK t \in LineStates, l \in Nat :
          Leads(message, Pipe, rstate, Len(content), t, l) /\ Ahead(t, l)
  BY DEF Sync
<1>2. /\ UNCHANGED <<input, phase, escape_count, idx, start>>
      /\ wire # <<>> /\ wire' = Tail(wire) /\ rstate # "done"
      /\ wire \in Seq(Bytes) /\ content \in Seq(Bytes) /\ Pending' = Pending
      /\ Pending \in Seq(Bytes) /\ Pipe \in Seq(Bytes)
      /\ Len(content) \in Nat /\ Len(wire) \in Nat \ {0} /\ Len(Pending) \in Nat
      /\ message \in Seq(Bytes)
  BY PipeType, LenProperties, EmptySeq, MessageType DEF Receive, Shape, Pending, input
<1>3. /\ Head(Pipe) = Head(wire) /\ Pipe # <<>>
      /\ Pipe' = Tail(Pipe)
      /\ Head(wire) \in Bytes
  <2>1. /\ Len(Pipe) = Len(wire) + Len(Pending)
        /\ \A i \in 1 .. Len(wire) + Len(Pending) :
              Pipe[i] = IF i <= Len(wire) THEN wire[i] ELSE Pending[i - Len(wire)]
    BY <1>2, ConcatProperties DEF Pipe
  <2>2. /\ Head(wire) \in Bytes /\ Head(wire) = wire[1]
        /\ wire' \in Seq(Bytes) /\ Len(wire') = Len(wire) - 1
        /\ \A i \in 1 .. Len(wire) - 1 : wire'[i] = wire[i + 1]
    BY <1>2, HeadTailProperties
  <2>3. Pipe # <<>>
    BY <1>2, <2>1, EmptySeq
  <2>4. /\ Tail(Pipe) \in Seq(Bytes) /\ Len(Tail(Pipe)) = Len(wire) - 1 + Len(Pending)
        /\ \A i \in 1 .. Len(wire) - 1 + Len(Pending) : Tail(Pipe)[i] = Pipe[i + 1]
        /\ Head(Pipe) = Pipe[1]
    BY <1>2, <2>1, <2>3, HeadTailProperties
  <2>5. /\ wire' \o Pending \in Seq(Bytes)
        /\ Len(wire' \o Pending) = Len(wire) - 1 + Len(Pending)
        /\ \A i \in 1 .. Len(wire) - 1 + Len(Pending) :
              (wire' \o Pending)[i] =
                 IF i <= Len(wire) - 1 THEN wire'[i] ELSE Pending[i - (Len(wire) - 1)]
    BY <1>2, <2>2, ConcatProperties
  <2>6. \A i \in 1 .. Len(wire) - 1 + Len(Pending) : (wire' \o Pending)[i] = Tail(Pipe)[i]
    <3> TAKE i \in 1 .. Len(wire) - 1 + Len(Pending)
    <3>1. /\ i + 1 \in 1 .. Len(wire) + Len(Pending)
          /\ i + 1 - Len(wire) = i - (Len(wire) - 1)
          /\ i <= Len(wire) - 1 <=> i + 1 <= Len(wire)
      BY <1>2
    <3>2. Tail(Pipe)[i] = IF i + 1 <= Len(wire) THEN wire[i + 1] ELSE Pending[i + 1 - Len(wire)]
      BY <2>1, <2>4, <3>1
    <3>3. (wire' \o Pending)[i] =
              IF i <= Len(wire) - 1 THEN wire'[i] ELSE Pending[i - (Len(wire) - 1)]
      BY <2>5
    <3>4. CASE i <= Len(wire) - 1
      <4>1. wire'[i] = wire[i + 1]
        BY <1>2, <2>2, <3>4
      <4> QED
        BY <3>1, <3>2, <3>3, <3>4, <4>1
    <3>5. CASE ~(i <= Len(wire) - 1)
      BY <3>1, <3>2, <3>3, <3>5
    <3> QED
      BY <3>4, <3>5
  <2>7. wire' \o Pending = Tail(Pipe)
    BY <2>4, <2>5, <2>6, SeqEqual
  <2>8. Head(Pipe) = Head(wire)
    BY <1>2, <2>1, <2>2, <2>4
  <2> QED
    BY <1>2, <2>2, <2>3, <2>7, <2>8 DEF Pipe
<1>4. PICK u \in LineStates, n \in Nat :
          /\ Moves(message, rstate, Len(content), Head(wire), u, n)
          /\ Leads(message, Tail(Pipe), u, n, t, l)
  BY <1>1, <1>2, <1>3, LeadsFirst
<1>5. PICK byte \in Bytes : byte = Head(wire)
  BY <1>3
<1>6. \/ rstate' = u /\ content' = content /\ n = Len(content)
      \/ rstate' = u /\ content' = content \o <<byte>>
         /\ Grows(message, Len(content), byte, n)
  BY <1>2, <1>4, <1>5 DEF Receive, Keep, Moves
<1>7. rstate' = u /\ Len(content') = n /\ Exact'
  <2>1. Whole(message) \in Seq(Bytes) /\ Len(Whole(message)) \in Nat /\ message' = message
    BY <1>2, WholeFacts, LenProperties DEF input
  <2>2. u = "done" => n = Len(Whole(message)) /\ content' = content
    BY <1>2, <1>4, <1>6 DEF Moves, Grows, InLine
  <2>3. CASE content' = content /\ n = Len(content) /\ rstate' = u
    <3>1. rstate' = "done" => Len(content') = Len(Whole(message))
      BY <2>2, <2>3
    <3> QED
      BY <2>1, <2>3, <3>1 DEF Exact
  <2>4. CASE rstate' = u /\ content' = content \o <<byte>> /\ Grows(message, Len(content), byte, n)
    <3>1. content' = Append(content, byte)
      BY <1>2, <2>4, AppendIsConcat
    <3>2. /\ Len(content') = Len(content) + 1
          /\ \A i \in 1 .. Len(content) : content'[i] = content[i]
          /\ content'[Len(content) + 1] = byte
      BY <1>2, <3>1, AppendProperties
    <3>3. n = Len(content) + 1 /\ n <= Len(Whole(message)) /\ Whole(message)[n] = byte
      BY <1>2, <2>1, <2>4 DEF Grows
    <3>4. u # "done"
      BY <1>2, <2>2, <3>2
    <3> QED
      BY <1>2, <2>1, <2>4, <3>2, <3>3, <3>4 DEF Exact
  <2> QED
    BY <1>6, <2>3, <2>4
<1>8. Leads(message', Pipe', rstate', Len(content'), t, l)
  BY <1>2, <1>3, <1>4, <1>7 DEF input
<1>9. Ahead(t, l)'
  BY <1>1, <1>2 DEF Ahead, Encoded, input
<1> QED
  BY <1>7, <1>8, <1>9 DEF Sync


\* Every step keeps codec and server together.
LEMMA NextSync ==
    ASSUME Faithful, Shape, Shape', Exact, Sync, [Next]_vars
    PROVE  Exact' /\ Sync'
<1>1. CASE UNCHANGED <<message, rstate, content>>
  <2>1. Exact'
    BY <1>1 DEF Exact
  <2>2. CASE ReadChunk \/ ReadToEnd
    BY <2>1, <2>2, ReadKeepsSync
  <2>3. CASE EncodeByte
    BY <2>1, <2>3, EncodeByteKeepsSync
  <2>4. CASE EncodeEnd
    BY <2>1, <2>4, EncodeEndKeepsSync
  <2>5. CASE WriteFinalDot
    BY <2>1, <2>5, FinalDotKeepsSync
  <2>6. CASE Break
    BY <2>1, <2>6, BreakKeepsSync
  <2>7. CASE Receive
    BY <2>7, ReceiveKeepsSync
  <2>8. CASE UNCHANGED vars
    <3>1. UNCHANGED <<message, frame, phase, escape_count, idx, start, wire, rstate, content>>
      BY <2>8 DEF vars, input
    <3>2. PICK t \in LineStates, l \in Nat :
              Leads(message, Pipe, rstate, Len(content), t, l) /\ Ahead(t, l)
      BY DEF Sync
    <3>3. Leads(message', Pipe', rstate', Len(content'), t, l)
      BY <3>1, <3>2 DEF Pipe, Pending
    <3>4. Ahead(t, l)'
      BY <3>1, <3>2 DEF Ahead, Encoded
    <3> QED
      BY <2>1, <3>3, <3>4 DEF Sync
  <2> QED
    BY <2>2, <2>3, <2>4, <2>5, <2>6, <2>7, <2>8 DEF Next, Finished
<1>2. CASE ~UNCHANGED <<message, rstate, content>>
  <2>1. Receive
    BY <1>2 DEF Next, ReadChunk, ReadToEnd, EncodeByte, EncodeEnd, WriteFinalDot, Break,
       Finished, vars, input
  <2> QED
    BY <2>1, ReceiveKeepsSync
<1> QED
  BY <1>1, <1>2

\* The invariant, for messages that are Faithful.
LEMMA SyncInvariant ==
    ASSUME Faithful
    PROVE  Spec => [](Shape /\ Exact /\ Sync)
<1>1. Init => Shape /\ Exact /\ Sync
  BY InitShape, InitSync
<1>2. Shape /\ Exact /\ Sync /\ [Next]_vars => (Shape /\ Exact /\ Sync)'
  BY NextShape, NextSync
<1> QED
  BY <1>1, <1>2, PTL DEF Spec

\* The server takes the message byte for byte: every dot that is doubled is a first
\* dot to the server, and every first dot is doubled.
THEOREM ContentIsMessage ==
    ASSUME Faithful
    PROVE  Spec => []Transparent
<1>1. Shape /\ Exact => Transparent
  <2> SUFFICES ASSUME Shape, Exact PROVE Transparent
    OBVIOUS
  <2>1. /\ content \in Seq(Bytes) /\ Whole(message) \in Seq(Bytes)
        /\ Whole(message) = message \o CRLF
    BY MessageType, WholeFacts DEF Shape, Whole
  <2>2. IsPrefix(content, Whole(message))
    BY <2>1, PrefixFacts DEF Exact
  <2>3. rstate = "done" => content = Whole(message)
    BY <2>1, SeqEqual DEF Exact
  <2> QED
    BY <2>1, <2>2, <2>3 DEF Transparent
<1> QED
  BY <1>1, SyncInvariant, PTL

\* The server sees the end of the data after the last byte of the message and not
\* before, whatever the message contains and wherever the connection breaks.
THEOREM DataEndsOnce ==
    ASSUME Faithful
    PROVE  Spec => []EndsOnce
<1>1. Shape /\ Sync => EndsOnce
  <2> SUFFICES ASSUME Shape, Sync, message # <<>> PROVE
         /\ rstate = "done" => phase \in {"sent", "broken"} /\ start > Len(message) /\ wire = <<>>
         /\ phase = "sent" /\ wire = <<>> => rstate = "done"
    BY DEF EndsOnce
  <2>1. PICK t \in LineStates, l \in Nat :
            Leads(message, Pipe, rstate, Len(content), t, l) /\ Ahead(t, l)
    BY DEF Sync
  <2>2. /\ Pipe \in Seq(Bytes) /\ Len(message) \in Nat
        /\ wire # <<>> => Pipe # <<>>
    <3>1. /\ Pending \in Seq(Bytes) /\ wire \in Seq(Bytes) /\ Pipe \in Seq(Bytes)
          /\ Len(message) \in Nat
      BY PipeType, MessageType DEF Shape
    <3> QED
      BY <3>1, ConcatEqualIffEmpty DEF Pipe
  <2>3. Pipe = <<>> => t = rstate
    <3>1. Len(<<>>) + 1 = 1
      OBVIOUS
    <3> QED
      BY <2>1, <3>1 DEF Leads
  <2>4. ASSUME rstate = "done"
        PROVE  Pipe = <<>>
    <3> SUFFICES ASSUME Pipe # <<>> PROVE FALSE
      OBVIOUS
    <3>1. PICK u, n : Moves(message, "done", Len(content), Head(Pipe), u, n)
      BY <2>1, <2>2, <2>4, LeadsFirst
    <3> QED
      BY <3>1 DEF Moves
  <2>5. ASSUME rstate = "done"
        PROVE  phase \in {"sent", "broken"} /\ start > Len(message) /\ wire = <<>>
    <3>1. wire = <<>> /\ t = "done"
      BY <2>2, <2>3, <2>4, <2>5
    <3>2. phase \in {"sent", "broken"}
      BY <2>1, <3>1 DEF Ahead, Encoded, Shape, Phases
    <3>3. start = Len(message) + 1
      BY <2>1, <3>1, <3>2 DEF Ahead, Shape
    <3> QED
      BY <2>2, <3>1, <3>2, <3>3
  <2>6. ASSUME phase = "sent", wire = <<>>
        PROVE  rstate = "done"
    <3>1. Pipe = <<>>
      BY <2>6, PipeType
    <3> QED
      BY <2>1, <2>3, <2>6, <3>1 DEF Ahead
  <2> QED
    BY <2>5, <2>6
<1> QED
  BY <1>1, SyncInvariant, PTL


=============================================================================
