------------------------- MODULE ReplyReaderProofs -------------------------
(***************************************************************************)
(* What is proved of ReplyReader.  For every server, whatever lines it     *)
(* says: no call of read_response returns Ok over a refusal, but for the   *)
(* one case RefusalSeen leaves open.  For every server whose replies end   *)
(* where Delimited says: the calls take whole replies, in order, and are   *)
(* told what the replies say.                                              *)
(***************************************************************************)
EXTENDS ReplyReader, SequenceTheorems, WellFoundedInduction, TLAPS

-----------------------------------------------------------------------------
(* parse_response *)

\* A code is none of the two other verdicts, and its first digit is one of four.
LEMMA CodesAreVerdicts ==
    ASSUME NEW c \in Codes
    PROVE  c # Incomplete /\ c # Malformed /\ c[1] \in 2 .. 5
<1>1. Len(c) = 3 /\ c[1] \in 2 .. 5
  BY DEF Codes
<1>2. Len(Incomplete) = 1 /\ Len(Malformed) = 1
  BY DEF Incomplete, Malformed
<1> QED
  BY <1>1, <1>2

\* The parser stops at one line at most.
LEMMA OnlyOneLast ==
    ASSUME NEW lines \in Seq(Lines), NEW i \in LastLines(lines), NEW j \in LastLines(lines)
    PROVE  i = j
<1>1. Len(lines) \in Nat /\ DOMAIN lines = 1 .. Len(lines)
  BY LenProperties
<1> QED
  BY <1>1 DEF LastLines

\* What parse_response makes of lines, by the line it stops at.
LEMMA Verdict ==
    ASSUME NEW lines \in Seq(Lines), NEW last \in LastLines(lines),
           \A i \in LastLines(lines) : i = last
    PROVE  \/ /\ parse_response(lines) = Malformed
              /\ \/ ~Final(lines[last])
                 \/ \E k \in 1 .. last : Start(lines, k) /\ lines[k].code # lines[last].code
           \/ /\ parse_response(lines) = Incomplete
              /\ \A k \in last .. Len(lines) : lines[k].end # "CRLF"
           \/ /\ parse_response(lines) = lines[last].code
              /\ Final(lines[last])
              /\ \A k \in 1 .. last : Start(lines, k) => lines[k].code = lines[last].code
              /\ \E k \in last .. Len(lines) : lines[k].end = "CRLF"
<1> DEFINE l == CHOOSE i \in LastLines(lines) : TRUE
           codes == {lines[i].code : i \in {k \in 1 .. l : Start(lines, k)}}
           good == Final(lines[l]) /\ (Ended(lines, l) => codes = {lines[l].code})
<1>1. l = last
  OBVIOUS
<1>2. parse_response(lines) =
         CASE ~good -> Malformed
           [] good /\ ~Ended(lines, l) -> Incomplete
           [] OTHER -> lines[l].code
  BY DEF parse_response
<1>3. Start(lines, last) /\ last \in 1 .. last
  BY LenProperties DEF LastLines
<1> HIDE DEF l
<1>4. codes = {lines[l].code} <=>
         \A k \in 1 .. l : Start(lines, k) => lines[k].code = lines[l].code
  BY <1>1, <1>3
<1> HIDE DEF codes
<1>5. Ended(lines, l) <=> \E k \in last .. Len(lines) : lines[k].end = "CRLF"
  BY <1>1 DEF Ended
<1> QED
  BY <1>1, <1>2, <1>4, <1>5

-----------------------------------------------------------------------------
(* The variables keep their types *)

Entries == [outcome : Outcomes, lines : Seq(Lines)]

\* What a verdict makes of a call.
LEMMA OutcomeType ==
    ASSUME NEW verdict, verdict \in Codes \/ verdict = Incomplete \/ verdict = Malformed
    PROVE  /\ Outcome(verdict) \in Outcomes
           /\ Outcome(verdict) = "ok" => verdict \in Codes /\ verdict[1] \in {2, 3}
<1>1. CASE verdict \in Codes
  <2>1. verdict \notin {Incomplete, Malformed} /\ verdict[1] \in 2 .. 5
    BY <1>1, CodesAreVerdicts
  <2> QED
    BY <1>1, <2>1 DEF Outcome, Outcomes
<1>2. CASE verdict = Incomplete \/ verdict = Malformed
  <2>1. Outcome(verdict) = "parsing"
    BY <1>2 DEF Outcome
  <2> QED
    BY <2>1 DEF Outcomes
<1> QED
  BY <1>1, <1>2

\* What the parser says of any lines.
LEMMA VerdictType ==
    ASSUME NEW lines \in Seq(Lines)
    PROVE  \/ parse_response(lines) \in Codes
           \/ parse_response(lines) = Incomplete
           \/ parse_response(lines) = Malformed
<1>1. CASE LastLines(lines) = {}
  BY <1>1 DEF parse_response
<1>2. CASE LastLines(lines) # {}
  <2>1. PICK last : last \in LastLines(lines)
    BY <1>2
  <2>2. \A i \in LastLines(lines) : i = last
    BY <2>1, OnlyOneLast
  <2> QED
    BY <2>1, <2>2, Verdict DEF Final
<1> QED
  BY <1>1, <1>2

\* The types after a call that returns.
LEMMA ReturnType ==
    ASSUME TypeOK, NEW outcome \in Outcomes, NEW lines \in Seq(Lines), Return(outcome, lines)
    PROVE  taken' \in Seq(Entries) /\ calling' \in BOOLEAN /\ buffer' \in Seq(Lines)
<1>1. [outcome |-> outcome, lines |-> lines] \in Entries /\ taken \in Seq(Entries)
  BY DEF Entries, TypeOK
<1>2. Append(taken, [outcome |-> outcome, lines |-> lines]) \in Seq(Entries)
  BY <1>1, AppendProperties
<1>3. <<>> \in Seq(Lines)
  BY EmptySeq
<1> QED
  BY <1>2, <1>3 DEF Return

\* What the connection holds when it ends.
LEMMA CloseType ==
    ASSUME TypeOK, Close
    PROVE  /\ wire' \in Seq(Lines)
           /\ open /\ ~open' /\ UNCHANGED <<saying, said, calling, buffer, taken>>
           /\ \A i \in 1 .. Len(wire') :
                 wire'[i].end = "none" => i = Len(wire') \/ wire[i].end = "none"
<1>0. wire \in Seq(Lines) /\ Len(wire) \in Nat
  BY LenProperties DEF TypeOK
<1>1. PICK n \in 0 .. Len(wire) :
         \/ wire' = SubSeq(wire, 1, n)
         \/ n > 0 /\ wire' = [SubSeq(wire, 1, n) EXCEPT ![n].end = "none"]
  BY DEF Close
<1> DEFINE s == SubSeq(wire, 1, n)
<1>2. s \in Seq(Lines) /\ Len(s) = n /\ \A i \in 1 .. n : s[i] = wire[i]
  <2>1. \A i \in 1 .. n : wire[i] \in Lines
    BY <1>0, ElementOfSeq
  <2> QED
    BY <1>0, <2>1, SubSeqProperties
<1> HIDE DEF s
<1>3. /\ wire' \in Seq(Lines)
      /\ \A i \in 1 .. Len(wire') :
            wire'[i].end = "none" => i = Len(wire') \/ wire[i].end = "none"
  <2>1. CASE wire' = s
    BY <1>2, <2>1
  <2>2. CASE n > 0 /\ wire' = [s EXCEPT ![n].end = "none"]
    <3>1. n \in 1 .. Len(s) /\ s[n] \in Lines
      BY <1>0, <1>2, <2>2, ElementOfSeq
    <3>2. [s[n] EXCEPT !.end = "none"] \in Lines
      BY <3>1 DEF Lines, Ends
    <3>3. wire' = [s EXCEPT ![n] = [s[n] EXCEPT !.end = "none"]]
      BY <2>2
    <3> DEFINE cut == [s[n] EXCEPT !.end = "none"]
    <3> HIDE DEF cut
    <3>4. /\ [s EXCEPT ![n] = cut] \in Seq(Lines)
          /\ Len([s EXCEPT ![n] = cut]) = Len(s)
          /\ \A i \in 1 .. Len(s) : [s EXCEPT ![n] = cut][i] = IF i = n THEN cut ELSE s[i]
      <4>1. cut \in Lines
        BY <3>2 DEF cut
      <4> QED
        BY <1>2, <3>1, <4>1, ExceptSeq
    <3>5. wire' = [s EXCEPT ![n] = cut]
      BY <3>3 DEF cut
    <3> QED
      BY <1>2, <3>4, <3>5
  <2> QED
    BY <1>1, <2>1, <2>2 DEF s
<1> QED
  BY <1>3 DEF Close, reader

\* A line that lost its start is a line, and ends as it did.
LEMMA CancelType ==
    ASSUME TypeOK, Cancel
    PROVE  /\ wire' \in Seq(Lines) /\ Len(wire') = Len(wire)
           /\ \A i \in 1 .. Len(wire) : wire'[i].end = wire[i].end
           /\ UNCHANGED <<open, saying, said>>
<1>0. wire \in Seq(Lines) /\ Len(wire) \in Nat
  BY LenProperties DEF TypeOK
<1>1. CASE UNCHANGED wire
  BY <1>0, <1>1 DEF Cancel
<1>2. CASE wire # <<>> /\ wire' = [wire EXCEPT ![1] = Remnant(@)]
  <2>1. Len(wire) # 0
    BY <1>0, <1>2, EmptySeq
  <2>2. 1 \in 1 .. Len(wire) /\ wire[1] \in Lines
    BY <1>0, <2>1, ElementOfSeq
  <2>3. Remnant(wire[1]) \in Lines /\ Remnant(wire[1]).end = wire[1].end
    BY <2>2 DEF Remnant, Lines
  <2> DEFINE rest == Remnant(wire[1])
  <2>4. wire' = [wire EXCEPT ![1] = rest]
    BY <1>2
  <2> HIDE DEF rest
  <2>5. rest \in Lines /\ rest.end = wire[1].end
    BY <2>3 DEF rest
  <2>6. /\ wire' \in Seq(Lines) /\ Len(wire') = Len(wire)
        /\ \A i \in 1 .. Len(wire) : wire'[i] = IF i = 1 THEN rest ELSE wire[i]
    BY <1>0, <2>2, <2>4, <2>5, ExceptSeq
  <2> QED
    BY <1>2, <2>5, <2>6 DEF Cancel
<1> QED
  BY <1>1, <1>2 DEF Cancel

\* A line read ends the call, with an error or the verdict, or is kept.
LEMMA ReadLineType ==
    ASSUME TypeOK, ReadLine
    PROVE  /\ wire # <<>> /\ Head(wire) \in Lines /\ wire' = Tail(wire)
           /\ Append(buffer, Head(wire)) \in Seq(Lines)
           /\ UNCHANGED <<open, saying, said>>
           /\ \/ \E outcome \in Outcomes :
                    /\ Return(outcome, Append(buffer, Head(wire)))
                    /\ outcome = "ok" =>
                          /\ parse_response(Append(buffer, Head(wire))) \in Codes
                          /\ parse_response(Append(buffer, Head(wire)))[1] \in {2, 3}
              \/ /\ parse_response(Append(buffer, Head(wire))) = Incomplete
                 /\ buffer' = Append(buffer, Head(wire))
                 /\ UNCHANGED <<calling, taken>>
<1> DEFINE lines == Append(buffer, Head(wire))
<1>1. /\ wire # <<>> /\ Head(wire) \in Lines /\ wire' = Tail(wire)
      /\ UNCHANGED <<open, saying, said>>
  BY HeadTailProperties DEF ReadLine, TypeOK
<1>2. lines \in Seq(Lines)
  BY <1>1, AppendProperties DEF TypeOK
<1>3. \/ Return("io", lines)
      \/ parse_response(lines) = Incomplete /\ buffer' = lines /\ UNCHANGED <<calling, taken>>
      \/ Return(Outcome(parse_response(lines)), lines)
  BY DEF ReadLine
<1> HIDE DEF lines
<1>4. /\ Outcome(parse_response(lines)) \in Outcomes
      /\ Outcome(parse_response(lines)) = "ok" =>
            parse_response(lines) \in Codes /\ parse_response(lines)[1] \in {2, 3}
  BY <1>2, VerdictType, OutcomeType
<1>5. "io" \in Outcomes
  BY DEF Outcomes
<1>6. \/ \E outcome \in Outcomes :
            /\ Return(outcome, lines)
            /\ outcome = "ok" =>
                  parse_response(lines) \in Codes /\ parse_response(lines)[1] \in {2, 3}
      \/ parse_response(lines) = Incomplete /\ buffer' = lines /\ UNCHANGED <<calling, taken>>
  BY <1>3, <1>4, <1>5
<1> QED
  BY <1>1, <1>2, <1>6 DEF lines

\* Every step keeps the types.
LEMMA NextType ==
    ASSUME TypeOK, [Next]_vars
    PROVE  TypeOK'
<1>0. Entries = [outcome : Outcomes, lines : Seq(Lines)]
  BY DEF Entries
<1>1. CASE StartReply
  <2>1. PICK r \in Replies : saying' = r /\ said' = Append(said, r)
    BY <1>1 DEF StartReply
  <2>2. r \in Seq(Lines)
    BY RepliesAssumption
  <2>3. /\ said' \in Seq(Replies) /\ Len(said') = Len(said) + 1
        /\ Len(said) \in Nat /\ Len(said) < MaxReplies
    BY <1>1, <2>1, AppendProperties, LenProperties DEF TypeOK, StartReply
  <2>4. Len(said') <= MaxReplies
    BY <2>3, RepliesAssumption
  <2> QED
    BY <1>1, <2>1, <2>2, <2>3, <2>4 DEF StartReply, TypeOK, reader
<1>2. CASE SendLine
  <2>1. Head(saying) \in Lines /\ Tail(saying) \in Seq(Lines)
    BY <1>2, HeadTailProperties DEF SendLine, TypeOK
  <2>2. Append(wire, Head(saying)) \in Seq(Lines)
    BY <2>1, AppendProperties DEF TypeOK
  <2> QED
    BY <1>2, <2>1, <2>2 DEF SendLine, TypeOK, reader
<1>3. CASE Close
  BY <1>3, CloseType DEF TypeOK, Close
<1>4. CASE Call
  BY <1>4 DEF Call, TypeOK
<1>5. CASE ReadLine
  <2>1. wire' \in Seq(Lines) /\ UNCHANGED <<open, saying, said>>
    BY <1>5, ReadLineType, HeadTailProperties DEF TypeOK
  <2>2. taken' \in Seq(Entries) /\ calling' \in BOOLEAN /\ buffer' \in Seq(Lines)
    <3>1. CASE \E outcome \in Outcomes : Return(outcome, Append(buffer, Head(wire)))
      BY <1>5, <3>1, ReadLineType, ReturnType
    <3>2. CASE buffer' = Append(buffer, Head(wire)) /\ UNCHANGED <<calling, taken>>
      BY <1>0, <1>5, <3>2, ReadLineType DEF TypeOK
    <3> QED
      BY <1>5, <3>1, <3>2, ReadLineType
  <2> QED
    BY <1>0, <2>1, <2>2 DEF TypeOK
<1>6. CASE ReadEof \/ Cancel
  <2>1. PICK outcome \in Outcomes : Return(outcome, buffer)
    BY <1>6 DEF ReadEof, Cancel, Outcomes
  <2>2. taken' \in Seq(Entries) /\ calling' \in BOOLEAN /\ buffer' \in Seq(Lines)
    BY <2>1, ReturnType DEF TypeOK
  <2> QED
    BY <1>0, <1>6, <2>2, CancelType DEF ReadEof, TypeOK
<1>7. CASE UNCHANGED vars
  BY <1>7 DEF vars, TypeOK
<1> QED
  BY <1>1, <1>2, <1>3, <1>4, <1>5, <1>6, <1>7 DEF Next, Finished

\* The types at first.
LEMMA InitType == Init => TypeOK
<1> SUFFICES ASSUME Init PROVE TypeOK
  OBVIOUS
<1>1. <<>> \in Seq(Lines) /\ <<>> \in Seq(Replies) /\ <<>> \in Seq(Entries)
  BY EmptySeq
<1>2. Len(said) = 0 /\ 0 <= MaxReplies
  BY RepliesAssumption DEF Init
<1>3. said \in Seq(Replies) /\ Len(said) <= MaxReplies
  BY <1>1, <1>2 DEF Init
<1>4. taken \in Seq([outcome : Outcomes, lines : Seq(Lines)])
  BY <1>1 DEF Init, Entries
<1> QED
  BY <1>1, <1>3, <1>4 DEF Init, TypeOK

\* Every variable keeps its type: what a call has used up is lines, and its outcome is
\* one of the six.
THEOREM TypeCorrect == Spec => []TypeOK
BY InitType, NextType, PTL DEF Spec

-----------------------------------------------------------------------------
(* A refusal is seen *)

\* A line without an end is the last thing that comes, if it comes.
CutLast ==
    /\ \A i \in 1 .. Len(saying) : saying[i].end # "none"
    /\ \A i \in 1 .. Len(wire) : wire[i].end = "none" => ~open /\ i = Len(wire)
    /\ \A i \in 1 .. Len(buffer) : buffer[i].end = "none" => ~open /\ wire = <<>>

\* A call that goes on has not read a reply yet.
Unended == parse_response(buffer) = Incomplete

\* RefusalSeen for one call.
Heard(lines) ==
    \A k \in 1 .. Len(lines) :
        lines[k].code \in Codes /\ lines[k].code[1] \in {4, 5} =>
            k > 1 /\ lines[k - 1].end = "LF"

\* Of no lines the parser wants more.
LEMMA NothingRead ==
    ASSUME NEW lines, lines = <<>>
    PROVE  parse_response(lines) = Incomplete
<1>1. LastLines(lines) = {}
  BY DEF LastLines
<1> QED
  BY <1>1 DEF parse_response

\* The line that makes lines a success: it ends the reply, or the call has gone on after
\* the line that does and for want of a CR LF only.
LEMMA SuccessIsHeard ==
    ASSUME NEW lines \in Seq(Lines), NEW line \in Lines,
           \A i \in 1 .. Len(lines) : lines[i].end # "none",
           parse_response(lines) = Incomplete,
           parse_response(Append(lines, line)) \in Codes,
           parse_response(Append(lines, line))[1] \in {2, 3}
    PROVE  Heard(Append(lines, line))
<1> DEFINE more == Append(lines, line)
<1>0. /\ Len(lines) \in Nat /\ Len(more) = Len(lines) + 1 /\ more \in Seq(Lines)
      /\ \A i \in 1 .. Len(lines) : more[i] = lines[i]
      /\ DOMAIN lines = 1 .. Len(lines) /\ DOMAIN more = 1 .. Len(more)
  <2>1. more \in Seq(Lines)
    BY AppendProperties
  <2> QED
    BY <2>1, LenProperties, AppendProperties
<1> HIDE DEF more
<1>1. parse_response(more) # Incomplete /\ parse_response(more) # Malformed
  BY CodesAreVerdicts DEF more
<1>2. PICK last : last \in LastLines(more)
  <2>1. LastLines(more) # {}
    BY <1>1 DEF parse_response
  <2> QED
    BY <2>1
<1>3. /\ last \in 1 .. Len(more)
      /\ Start(more, last) /\ ~Continues(more[last])
      /\ \A k \in 1 .. last - 1 : Start(more, k) => Continues(more[k])
  BY <1>0, <1>2 DEF LastLines
<1>4. /\ more[last].code \in Codes /\ more[last].code[1] \in {2, 3}
      /\ \A k \in 1 .. last : Start(more, k) => more[k].code = more[last].code
  <2>1. \A i \in LastLines(more) : i = last
    BY <1>0, <1>2, OnlyOneLast
  <2>2. /\ parse_response(more) = more[last].code /\ Final(more[last])
        /\ \A k \in 1 .. last : Start(more, k) => more[k].code = more[last].code
    BY <1>0, <1>1, <1>2, <2>1, Verdict
  <2>3. more[last].code \in Codes
    BY <2>2 DEF Final
  <2>4. more[last].code[1] \in {2, 3}
    BY <2>2 DEF more
  <2> QED
    BY <2>2, <2>3, <2>4
\* What follows the line the parser stops at follows a bare LF.
<1>5. \A k \in last .. Len(lines) : lines[k].end # "CRLF"
  <2>1. CASE last > Len(lines)
    BY <1>0, <1>3, <2>1
  <2>2. CASE last <= Len(lines)
    <3>1. last \in 1 .. Len(lines)
      BY <1>0, <1>3, <2>2
    <3>2. \A k \in 1 .. last : Start(lines, k) <=> Start(more, k)
      BY <1>0, <3>1 DEF Start
    <3>3. last \in LastLines(lines)
      <4>1. Start(lines, last) /\ ~Continues(lines[last])
        BY <1>0, <1>3, <3>1, <3>2
      <4>2. \A k \in 1 .. last - 1 : Start(lines, k) => Continues(lines[k])
        BY <1>0, <1>3, <3>1, <3>2
      <4> QED
        BY <1>0, <3>1, <4>1, <4>2 DEF LastLines
    <3>4. \/ parse_response(lines) = Malformed
          \/ \A k \in last .. Len(lines) : lines[k].end # "CRLF"
          \/ parse_response(lines) = lines[last].code /\ lines[last].code \in Codes
      <4>1. \A i \in LastLines(lines) : i = last
        BY <3>3, OnlyOneLast
      <4> QED
        BY <3>3, <4>1, Verdict DEF Final
    <3>5. Incomplete # Malformed
      BY DEF Incomplete, Malformed
    <3> QED
      BY <3>4, <3>5, CodesAreVerdicts
  <2> QED
    BY <1>0, <1>3, <2>1, <2>2
<1>6. ASSUME NEW k \in 1 .. Len(more), more[k].code \in Codes, more[k].code[1] \in {4, 5}
      PROVE  k > 1 /\ more[k - 1].end = "LF"
  <2>1. CASE k <= last
    <3>1. ~Start(more, k)
      BY <1>3, <1>4, <1>6, <2>1
    <3>2. k # 1 /\ more[k - 1].end # "CRLF"
      BY <3>1 DEF Start
    <3>3. k - 1 \in 1 .. Len(lines)
      BY <1>0, <1>3, <2>1, <3>2
    <3>4. lines[k - 1].end \in Ends \ {"none"}
      <4>1. \A i \in 1 .. Len(lines) : lines[i] \in Lines
        BY ElementOfSeq
      <4>2. lines[k - 1] \in Lines
        BY <3>3, <4>1
      <4> QED
        BY <3>3, <4>2 DEF Lines
    <3> QED
      BY <1>0, <3>2, <3>3, <3>4 DEF Ends
  <2>2. CASE k > last
    <3>1. k - 1 \in last .. Len(lines) /\ k - 1 \in 1 .. Len(lines) /\ k > 1
      BY <1>0, <1>3, <2>2
    <3>2. lines[k - 1].end \in Ends \ {"none", "CRLF"}
      <4>1. \A i \in 1 .. Len(lines) : lines[i] \in Lines
        BY ElementOfSeq
      <4>2. lines[k - 1] \in Lines
        BY <3>1, <4>1
      <4> QED
        BY <1>5, <3>1, <4>2 DEF Lines
    <3> QED
      BY <1>0, <3>1, <3>2 DEF Ends
  <2> QED
    BY <1>0, <1>3, <2>1, <2>2
<1> QED
  BY <1>6 DEF Heard, more

\* Only a closed connection cuts a line, and only the last one.
LEMMA CutLastKept ==
    ASSUME TypeOK, CutLast, [Next]_vars
    PROVE  CutLast'
<1>0. /\ saying \in Seq(Lines) /\ wire \in Seq(Lines) /\ buffer \in Seq(Lines)
      /\ Len(saying) \in Nat /\ Len(wire) \in Nat /\ Len(buffer) \in Nat
      /\ Len(<<>>) = 0
  BY LenProperties DEF TypeOK
<1>1. CASE StartReply
  BY <1>1, RepliesAssumption DEF StartReply, CutLast, reader
<1>2. CASE SendLine
  <2>1. /\ saying # <<>> /\ open /\ Head(saying) \in Lines /\ Head(saying).end # "none"
        /\ saying' = Tail(saying) /\ wire' = Append(wire, Head(saying))
        /\ UNCHANGED <<open, buffer>>
        /\ \A i \in 1 .. Len(saying') : saying'[i].end # "none"
    BY <1>0, <1>2, HeadTailProperties, EmptySeq DEF SendLine, CutLast, reader
  <2>2. \A i \in 1 .. Len(wire') : wire'[i].end # "none"
    BY <1>0, <2>1, AppendProperties DEF CutLast
  <2> QED
    BY <1>0, <2>1, <2>2 DEF CutLast
<1>3. CASE Close
  <2>1. \A i \in 1 .. Len(wire') : wire'[i].end = "none" => i = Len(wire')
    <3>1. ASSUME NEW i \in 1 .. Len(wire'), wire'[i].end = "none", i # Len(wire')
          PROVE  FALSE
      <4>1. wire[i].end = "none" /\ open
        BY <1>3, <3>1, CloseType
      <4>2. i \in 1 .. Len(wire)
        BY <1>0, <1>3, <3>1 DEF Close
      <4> QED
        BY <4>1, <4>2 DEF CutLast
    <3> QED
      BY <3>1
  <2> QED
    BY <1>3, <2>1, CloseType DEF CutLast
<1>4. CASE ReadLine
  <2>1. /\ wire # <<>> /\ Head(wire) \in Lines /\ wire' = Tail(wire)
        /\ UNCHANGED <<open, saying>>
        /\ buffer' = <<>> \/ buffer' = Append(buffer, Head(wire))
    BY <1>4, ReadLineType DEF Return
  <2>2. /\ Head(wire) = wire[1] /\ Len(wire) # 0 /\ wire' \in Seq(Lines)
        /\ Len(wire') = Len(wire) - 1
        /\ \A i \in 1 .. Len(wire') : wire'[i] = wire[i + 1]
    BY <1>0, <2>1, HeadTailProperties, EmptySeq
  <2>3. \A i \in 1 .. Len(wire') : wire'[i].end = "none" => ~open /\ i = Len(wire')
    <3> SUFFICES ASSUME NEW i \in 1 .. Len(wire'), wire'[i].end = "none"
                 PROVE  ~open /\ i = Len(wire')
      OBVIOUS
    <3>1. i + 1 \in 1 .. Len(wire) /\ wire[i + 1].end = "none"
      BY <1>0, <2>2
    <3>2. ~open /\ i + 1 = Len(wire)
      BY <3>1 DEF CutLast
    <3> QED
      BY <1>0, <2>2, <3>2
  <2>4. \A i \in 1 .. Len(buffer) : buffer[i].end # "none"
    BY <2>1 DEF CutLast
  <2>5. Head(wire).end = "none" => ~open /\ wire' = <<>>
    <3>1. Head(wire).end = "none" => ~open /\ Len(wire) = 1
      BY <1>0, <2>2 DEF CutLast
    <3> QED
      BY <2>2, <3>1, EmptySeq
  <2>6. \A i \in 1 .. Len(buffer') : buffer'[i].end = "none" => ~open /\ wire' = <<>>
    <3>1. CASE buffer' = <<>>
      BY <1>0, <3>1
    <3>2. CASE buffer' = Append(buffer, Head(wire))
      BY <1>0, <2>1, <2>4, <2>5, <3>2, AppendProperties
    <3> QED
      BY <2>1, <3>1, <3>2
  <2> QED
    BY <2>1, <2>3, <2>6 DEF CutLast
<1>5. CASE ReadEof
  BY <1>0, <1>5 DEF ReadEof, Return, CutLast
<1>6. CASE Cancel
  <2>1. /\ Len(wire') = Len(wire) /\ \A i \in 1 .. Len(wire) : wire'[i].end = wire[i].end
        /\ UNCHANGED <<open, saying>> /\ Len(buffer') = 0
    BY <1>0, <1>6, CancelType DEF Cancel, Return
  <2> QED
    BY <1>0, <2>1 DEF CutLast
<1>7. CASE Call \/ UNCHANGED vars
  BY <1>7 DEF Call, vars, CutLast
<1> QED
  BY <1>1, <1>2, <1>3, <1>4, <1>5, <1>6, <1>7 DEF Next, Finished

\* A call that returns Ok was told of no refusal, whatever step comes next.
LEMMA HeardKept ==
    ASSUME TypeOK, CutLast, Unended, RefusalSeen, [Next]_vars
    PROVE  Unended' /\ RefusalSeen'
<1>0. /\ taken \in Seq(Entries) /\ Len(taken) \in Nat /\ buffer \in Seq(Lines)
      /\ \A i \in 1 .. Len(taken) : taken[i].outcome = "ok" => Heard(taken[i].lines)
  BY LenProperties DEF TypeOK, Entries, RefusalSeen, Heard
<1>1. ASSUME NEW outcome \in Outcomes, NEW lines \in Seq(Lines), Return(outcome, lines),
             outcome = "ok" => Heard(lines)
      PROVE  Unended' /\ RefusalSeen'
  <2> DEFINE entry == [outcome |-> outcome, lines |-> lines]
  <2>1. entry \in Entries /\ taken' = Append(taken, entry) /\ buffer' = <<>>
    BY <1>1 DEF Entries, Return
  <2>2. /\ Len(taken') = Len(taken) + 1
        /\ \A i \in 1 .. Len(taken) : taken'[i] = taken[i]
        /\ taken'[Len(taken) + 1] = entry
    BY <1>0, <2>1, AppendProperties
  <2>3. entry.outcome = outcome /\ entry.lines = lines
    OBVIOUS
  <2>4. \A i \in 1 .. Len(taken') : taken'[i].outcome = "ok" => Heard(taken'[i].lines)
    BY <1>0, <1>1, <2>2, <2>3
  <2>5. parse_response(buffer') = Incomplete
    BY <2>1, NothingRead
  <2> QED
    BY <2>4, <2>5 DEF RefusalSeen, Heard, Unended
<1>2. CASE ReadLine
  <2>1. CASE \E outcome \in Outcomes :
                /\ Return(outcome, Append(buffer, Head(wire)))
                /\ outcome = "ok" =>
                      /\ parse_response(Append(buffer, Head(wire))) \in Codes
                      /\ parse_response(Append(buffer, Head(wire)))[1] \in {2, 3}
    <3>1. PICK outcome \in Outcomes :
             /\ Return(outcome, Append(buffer, Head(wire)))
             /\ outcome = "ok" =>
                   /\ parse_response(Append(buffer, Head(wire))) \in Codes
                   /\ parse_response(Append(buffer, Head(wire)))[1] \in {2, 3}
      BY <2>1
    <3>2. /\ Head(wire) \in Lines /\ Append(buffer, Head(wire)) \in Seq(Lines)
          /\ \A i \in 1 .. Len(buffer) : buffer[i].end # "none"
      BY <1>2, ReadLineType DEF CutLast
    <3>3. outcome = "ok" => Heard(Append(buffer, Head(wire)))
      BY <1>0, <3>1, <3>2, SuccessIsHeard DEF Unended
    <3> QED
      BY <1>1, <3>1, <3>2, <3>3
  <2>2. CASE /\ parse_response(Append(buffer, Head(wire))) = Incomplete
             /\ buffer' = Append(buffer, Head(wire))
             /\ UNCHANGED <<calling, taken>>
    <3>1. parse_response(buffer') = Incomplete
      BY <2>2
    <3> QED
      BY <2>2, <3>1 DEF Unended, RefusalSeen
  <2> QED
    BY <1>2, <2>1, <2>2, ReadLineType
<1>3. CASE ReadEof \/ Cancel
  <2>1. PICK outcome \in Outcomes \ {"ok"} : Return(outcome, buffer)
    BY <1>3 DEF ReadEof, Cancel, Outcomes
  <2> QED
    BY <1>0, <1>1, <2>1
<1>4. CASE UNCHANGED <<buffer, taken>>
  <2>1. parse_response(buffer') = Incomplete
    BY <1>4 DEF Unended
  <2> QED
    BY <1>4, <2>1 DEF Unended, RefusalSeen
<1>5. ASSUME StartReply \/ SendLine \/ Close \/ Call \/ UNCHANGED vars
      PROVE  UNCHANGED <<buffer, taken>>
  BY <1>5 DEF StartReply, SendLine, Close, Call, reader, vars
<1> QED
  BY <1>2, <1>3, <1>4, <1>5 DEF Next, Finished

\* read_response never returns Ok over a refusal it has read, whatever lines the
\* server says and however the calls before ended, except where a bare LF hides it.
THEOREM OkHidesNoRefusal == Spec => []RefusalSeen
<1> DEFINE Inv == TypeOK /\ CutLast /\ Unended /\ RefusalSeen
<1>1. Init => Inv
  <2> SUFFICES ASSUME Init PROVE Inv
    OBVIOUS
  <2>1. /\ TypeOK /\ Len(saying) = 0 /\ Len(wire) = 0 /\ Len(buffer) = 0 /\ Len(taken) = 0
        /\ buffer = <<>>
    BY InitType, EmptySeq DEF Init
  <2>2. Unended
    BY <2>1, NothingRead DEF Unended
  <2> QED
    BY <2>1, <2>2 DEF CutLast, RefusalSeen
<1>2. Inv /\ [Next]_vars => Inv'
  BY NextType, CutLastKept, HeardKept
<1> QED
  BY <1>1, <1>2, PTL DEF Spec

-----------------------------------------------------------------------------
(* The least of a set of naturals *)

\* Every set of naturals that is not empty has a least element.
LEMMA Least ==
    ASSUME NEW T, T \subseteq Nat, T # {}
    PROVE  Min(T) \in T /\ \A n \in T : Min(T) <= n
<1> DEFINE R == OpToRel(<, Nat)
<1>1. IsWellFoundedOn(R, Nat)
  BY NatLessThanWellFounded
<1>2. \A x, y \in Nat : x < y => <<x, y>> \in R
  BY DEF R, OpToRel
<1> HIDE DEF R
<1>3. PICK m \in T : \A y \in T : <<y, m>> \notin R
  BY <1>1, WFMin
<1>4. ASSUME NEW n \in T PROVE m <= n
  <2>1. ~(n < m)
    BY <1>2, <1>3
  <2> QED
    BY <2>1
<1>5. Min(T) \in T /\ \A y \in T : Min(T) =< y
  BY <1>4 DEF Min
<1> QED
  BY <1>5

-----------------------------------------------------------------------------
(* The calls that count *)

\* Clean, of any calls t and replies s.
StopsOf(t, s) == {k \in 1 .. Len(t) : Bad(t[k]) \/ (k <= Len(s) /\ BareLF(s[k]))}

CleanOf(t, s) == IF StopsOf(t, s) = {} THEN t ELSE SubSeq(t, 1, Min(StopsOf(t, s)) - 1)

\* Clean, as an operator on what it looks at.
LEMMA CleanIs == Clean = CleanOf(taken, said)
BY DEF Clean, CleanOf, StopsOf

\* Clean is what was taken before the first call that was stopped.
LEMMA CleanFacts ==
    ASSUME NEW t \in Seq(Entries), NEW s
    PROVE  /\ CleanOf(t, s) \in Seq(Entries)
           /\ Len(CleanOf(t, s)) \in 0 .. Len(t)
           /\ \A i \in 1 .. Len(CleanOf(t, s)) : CleanOf(t, s)[i] = t[i] /\ i \notin StopsOf(t, s)
           /\ \/ CleanOf(t, s) = t /\ StopsOf(t, s) = {}
              \/ /\ CleanOf(t, s) = SubSeq(t, 1, Len(CleanOf(t, s)))
                 /\ Len(CleanOf(t, s)) + 1 \in StopsOf(t, s)
<1>0. Len(t) \in Nat /\ StopsOf(t, s) \subseteq 1 .. Len(t)
  BY LenProperties DEF StopsOf
<1>1. CASE StopsOf(t, s) = {}
  BY <1>0, <1>1 DEF CleanOf
<1>2. CASE StopsOf(t, s) # {}
  <2> DEFINE m == Min(StopsOf(t, s))
             c == SubSeq(t, 1, m - 1)
  <2>1. m \in StopsOf(t, s) /\ \A n \in StopsOf(t, s) : m <= n
    BY <1>0, <1>2, Least
  <2>2. m \in 1 .. Len(t) /\ CleanOf(t, s) = c
    BY <1>0, <1>2, <2>1 DEF CleanOf
  <2> HIDE DEF m
  <2>3. c \in Seq(Entries) /\ Len(c) = m - 1 /\ \A i \in 1 .. m - 1 : c[i] = t[i]
    <3>1. \A i \in 1 .. m - 1 : t[i] \in Entries
      BY <1>0, <2>2, ElementOfSeq
    <3> QED
      BY <1>0, <2>2, <3>1, SubSeqProperties
  <2>4. \A i \in 1 .. m - 1 : i \notin StopsOf(t, s)
    BY <1>0, <2>1, <2>2
  <2>5. Len(c) + 1 = m
    BY <2>2, <2>3
  <2> QED
    BY <1>0, <2>1, <2>2, <2>3, <2>4, <2>5
<1> QED
  BY <1>1, <1>2

\* How long Clean is, from where the first stop is.
LEMMA CleanLength ==
    ASSUME NEW t \in Seq(Entries), NEW s, NEW c \in 0 .. Len(t),
           \A i \in 1 .. c : i \notin StopsOf(t, s),
           c = Len(t) \/ c + 1 \in StopsOf(t, s)
    PROVE  Len(CleanOf(t, s)) = c
<1> DEFINE d == Len(CleanOf(t, s))
<1>0. Len(t) \in Nat /\ StopsOf(t, s) \subseteq 1 .. Len(t)
  BY LenProperties DEF StopsOf
<1>1. /\ d \in 0 .. Len(t) /\ \A i \in 1 .. d : i \notin StopsOf(t, s)
      /\ d = Len(t) \/ d + 1 \in StopsOf(t, s)
  BY CleanFacts
<1> HIDE DEF d
<1>2. ~(d < c)
  <2> SUFFICES ASSUME d < c PROVE FALSE
    OBVIOUS
  <2>1. d + 1 \in 1 .. c /\ d # Len(t)
    BY <1>0, <1>1
  <2> QED
    BY <1>1, <2>1
<1>3. ~(c < d)
  <2> SUFFICES ASSUME c < d PROVE FALSE
    OBVIOUS
  <2>1. c + 1 \in 1 .. d /\ c # Len(t)
    BY <1>0, <1>1
  <2> QED
    BY <1>1, <2>1
<1> QED
  BY <1>0, <1>1, <1>2, <1>3 DEF d

\* A reply started does not shorten Clean, when there is one for each call of Clean.
LEMMA CleanStart ==
    ASSUME NEW t \in Seq(Entries), NEW s \in Seq(Replies), NEW r \in Replies,
           Len(CleanOf(t, s)) <= Len(s)
    PROVE  CleanOf(t, Append(s, r)) = CleanOf(t, s)
<1> DEFINE c == Len(CleanOf(t, s))
           s2 == Append(s, r)
<1>0. Len(t) \in Nat /\ Len(s) \in Nat /\ Len(s2) = Len(s) + 1 /\ \A i \in 1 .. Len(s) : s2[i] = s[i]
  BY LenProperties, AppendProperties
<1>1. /\ c \in 0 .. Len(t) /\ \A i \in 1 .. c : i \notin StopsOf(t, s)
      /\ \/ CleanOf(t, s) = t
         \/ CleanOf(t, s) = SubSeq(t, 1, c) /\ c + 1 \in StopsOf(t, s)
  BY CleanFacts
<1>2. c <= Len(s)
  OBVIOUS
<1> HIDE DEF s2
<1>3. \A i \in 1 .. c : i \notin StopsOf(t, s2)
  BY <1>0, <1>1, <1>2 DEF StopsOf
<1>4. c = Len(t) \/ c + 1 \in StopsOf(t, s2)
  BY <1>0, <1>1 DEF StopsOf
<1>5. Len(CleanOf(t, s2)) = c
  BY <1>1, <1>3, <1>4, CleanLength
<1>6. CleanOf(t, s2) = t \/ CleanOf(t, s2) = SubSeq(t, 1, c)
  BY <1>5, CleanFacts
<1>7. c = Len(t) => SubSeq(t, 1, c) = t
  BY <1>0, SubSeqFull
<1>8. CleanOf(t, s2) = t => c = Len(t)
  BY <1>5
<1>9. CleanOf(t, s2) = t => CleanOf(t, s) = t
  BY <1>1, <1>7, <1>8
<1>10. CleanOf(t, s) = t => CleanOf(t, s2) = t
  BY <1>6, <1>7
<1> QED
  BY <1>1, <1>6, <1>9, <1>10 DEF s2

\* A call that returns adds to Clean, unless there was a stop or it is one.
LEMMA CleanReturn ==
    ASSUME NEW t \in Seq(Entries), NEW s, NEW e \in Entries
    PROVE  \/ CleanOf(Append(t, e), s) = CleanOf(t, s) /\ Len(CleanOf(t, s)) < Len(t)
           \/ /\ CleanOf(t, s) = t /\ CleanOf(Append(t, e), s) = t
              /\ Bad(e) \/ (Len(t) + 1 <= Len(s) /\ BareLF(s[Len(t) + 1]))
           \/ /\ CleanOf(t, s) = t /\ CleanOf(Append(t, e), s) = Append(t, e)
              /\ ~Bad(e) /\ ~(Len(t) + 1 <= Len(s) /\ BareLF(s[Len(t) + 1]))
<1> DEFINE c == Len(CleanOf(t, s))
           u == Append(t, e)
<1>0. /\ Len(t) \in Nat /\ u \in Seq(Entries) /\ Len(u) = Len(t) + 1 /\ u[Len(t) + 1] = e
      /\ \A i \in 1 .. Len(t) : u[i] = t[i]
  BY LenProperties, AppendProperties
<1>1. /\ c \in 0 .. Len(t) /\ \A i \in 1 .. c : i \notin StopsOf(t, s)
      /\ \/ CleanOf(t, s) = t /\ c = Len(t)
         \/ CleanOf(t, s) = SubSeq(t, 1, c) /\ c + 1 \in StopsOf(t, s)
  BY CleanFacts
<1>2. /\ CleanOf(u, s) = u \/ CleanOf(u, s) = SubSeq(u, 1, Len(CleanOf(u, s)))
      /\ Len(CleanOf(u, s)) \in 0 .. Len(u)
  BY <1>0, CleanFacts
<1> HIDE DEF u
<1>3. \A k \in 1 .. Len(t) : k \in StopsOf(t, s) <=> k \in StopsOf(u, s)
  BY <1>0 DEF StopsOf
<1>4. Len(t) + 1 \in StopsOf(u, s) <=> Bad(e) \/ (Len(t) + 1 <= Len(s) /\ BareLF(s[Len(t) + 1]))
  BY <1>0 DEF StopsOf
<1>5. \A n \in 0 .. Len(t) : SubSeq(u, 1, n) = SubSeq(t, 1, n)
  <2> TAKE n \in 0 .. Len(t)
  <2>1. \A i \in 1 .. n : u[i] = t[i] /\ t[i] \in Entries
    BY <1>0, ElementOfSeq
  <2>2. /\ SubSeq(u, 1, n) \in Seq(Entries) /\ Len(SubSeq(u, 1, n)) = n
        /\ \A i \in 1 .. n : SubSeq(u, 1, n)[i] = u[i]
    BY <1>0, <2>1, SubSeqProperties
  <2>3. /\ SubSeq(t, 1, n) \in Seq(Entries) /\ Len(SubSeq(t, 1, n)) = n
        /\ \A i \in 1 .. n : SubSeq(t, 1, n)[i] = t[i]
    BY <1>0, <2>1, SubSeqProperties
  <2> QED
    BY <2>1, <2>2, <2>3, SeqEqual
<1>6. SubSeq(t, 1, Len(t)) = t
  BY SubSeqFull
<1>7. CASE c + 1 \in StopsOf(t, s) /\ c < Len(t)
  <2>0. /\ c \in 0 .. Len(u) /\ \A i \in 1 .. c : i \notin StopsOf(u, s)
        /\ c + 1 \in StopsOf(u, s)
    BY <1>0, <1>1, <1>3, <1>7
  <2>1. Len(CleanOf(u, s)) = c
    BY <1>0, <2>0, CleanLength
  <2> QED
    BY <1>0, <1>1, <1>2, <1>5, <1>7, <2>1 DEF u
<1>8. CASE CleanOf(t, s) = t /\ c = Len(t) /\ Len(t) + 1 \in StopsOf(u, s)
  <2>1. Len(CleanOf(u, s)) = Len(t)
    BY <1>0, <1>1, <1>3, <1>8, CleanLength
  <2> QED
    BY <1>0, <1>2, <1>4, <1>5, <1>6, <1>8, <2>1 DEF u
<1>9. CASE CleanOf(t, s) = t /\ c = Len(t) /\ Len(t) + 1 \notin StopsOf(u, s)
  <2>1. \A i \in 1 .. Len(u) : i \notin StopsOf(u, s)
    BY <1>0, <1>1, <1>3, <1>9
  <2>2. StopsOf(u, s) = {}
    BY <2>1 DEF StopsOf
  <2>3. CleanOf(u, s) = u
    BY <2>2 DEF CleanOf
  <2> QED
    BY <1>4, <1>9, <2>3 DEF u
<1>10. c + 1 \in StopsOf(t, s) => c < Len(t)
  BY <1>0, <1>1 DEF StopsOf
<1> QED
  BY <1>1, <1>7, <1>8, <1>9, <1>10

-----------------------------------------------------------------------------
(* One reply *)

\* A line, or what a connection that closes inside it leaves of it.
Torn(x, y) == x = y \/ x = [y EXCEPT !.end = "none"]

\* A line that is cut says the same, but for its end.
LEMMA TornFacts ==
    ASSUME NEW x, NEW y \in Lines, Torn(x, y)
    PROVE  /\ x \in Lines /\ x.code = y.code /\ x.sep = y.sep /\ x.utf8 = y.utf8
           /\ x.end # "none" => x = y
           /\ Continues(x) <=> Continues(y)
           /\ Final(x) <=> Final(y)
BY DEF Torn, Lines, Ends, Continues, Final

\* A well-formed reply parse_response has a blank to go by.
Parsable(reply) == WellFormed(reply) /\ ~BareCode(reply)

\* Parsable line by line.
LEMMA ParsableLines ==
    ASSUME NEW r, Len(r) \in Nat \ {0}
    PROVE  Parsable(r) <=>
              /\ \A i \in 1 .. Len(r) - 1 : Continues(r[i])
              /\ Final(r[Len(r)])
              /\ \A i \in 1 .. Len(r) : r[i].code = r[1].code
              /\ \A i \in 1 .. Len(r) : r[i].end = "CRLF" /\ r[i].utf8
<1> DEFINE blank == " "
<1>1. Parsable(r) <=>
         /\ r[1].code \in Codes
         /\ \A i \in 1 .. Len(r) :
               /\ r[i].code = r[1].code
               /\ r[i].sep = IF i < Len(r) THEN "-" ELSE blank
               /\ r[i].end = "CRLF" /\ r[i].utf8
  <2> DEFINE R(i) == r[i].code = r[1].code
             E(i) == r[i].end = "CRLF" /\ r[i].utf8
             Blank(i) == r[i].sep \in IF i < Len(r) THEN {"-"} ELSE {blank, ""}
  <2>1. Parsable(r) <=>
           /\ r[1].code \in Codes
           /\ \A i \in 1 .. Len(r) : R(i) /\ Blank(i) /\ E(i)
           /\ r[Len(r)].sep # ""
    BY Zenon DEF Parsable, WellFormed, BareCode
  <2>2. \A i \in 1 .. Len(r) : i < Len(r) \/ i = Len(r)
    OBVIOUS
  <2>3. Len(r) \in 1 .. Len(r) /\ ~(Len(r) < Len(r)) /\ blank # ""
    OBVIOUS
  <2> HIDE DEF R, E, blank
  <2>4. (r[Len(r)].sep # "" /\ \A i \in 1 .. Len(r) : Blank(i))
            <=> \A i \in 1 .. Len(r) : r[i].sep = IF i < Len(r) THEN "-" ELSE blank
    BY <2>2, <2>3
  <2> QED
    BY <2>1, <2>4 DEF R, E
<1>2. \A line : Final(line) <=> line.code \in Codes /\ line.sep = blank
  BY Zenon DEF Final
<1> HIDE DEF blank
<1> QED
  BY <1>1, <1>2 DEF Continues

\* A reply without a bare LF, whose end a call has not come to when it reads one line
\* more: that line is one of the reply, and the verdict, if it is one, that of the reply.
LEMMA ReadReply ==
    ASSUME Delimited, NEW r \in Replies, ~BareLF(r),
           NEW lines \in Seq(Lines), NEW more \in Seq(Lines),
           Len(more) = Len(lines) + 1, \A i \in 1 .. Len(lines) : more[i] = lines[i],
           \A i \in 1 .. Len(lines) : lines[i].end # "none",
           \A i \in 1 .. Len(more) : i <= Len(r) => Torn(more[i], r[i]),
           parse_response(lines) = Incomplete
    PROVE  /\ Len(more) <= Len(r)
           /\ parse_response(more) \in Codes /\ (\A i \in 1 .. Len(more) : more[i].utf8) =>
                more = r /\ Parsable(r) /\ parse_response(more) = r[1].code
           /\ parse_response(more) = Malformed => ~Parsable(r)
<1>0. /\ r \in Seq(Lines) /\ Len(r) \in Nat \ {0} /\ Len(lines) \in Nat
      /\ \A i \in 1 .. Len(r) : r[i] \in Lines /\ r[i].end = "CRLF"
      /\ ~Continues(r[Len(r)])
      /\ \A i \in 1 .. Len(r) - 1 : ~Final(r[i])
  <2>1. r \in Seq(Lines) /\ r # <<>> /\ \A i \in 1 .. Len(r) : r[i].end # "none"
    BY RepliesAssumption
  <2>2. Len(r) \in Nat \ {0} /\ Len(lines) \in Nat
    BY <2>1, LenProperties, EmptySeq
  <2>3. \A i \in 1 .. Len(r) : r[i] \in Lines
    BY <2>1, ElementOfSeq
  <2>4. \A i \in 1 .. Len(r) : r[i].end = "CRLF"
    <3> TAKE i \in 1 .. Len(r)
    <3>1. r[i].end \in Ends
      BY <2>3 DEF Lines
    <3> QED
      BY <2>1, <3>1 DEF BareLF, Ends
  <2> QED
    BY <2>1, <2>2, <2>3, <2>4 DEF Delimited
<1>1. /\ DOMAIN more = 1 .. Len(more) /\ DOMAIN lines = 1 .. Len(lines)
      /\ \A i \in 1 .. Len(more) : more[i] \in Lines
      /\ Len(more) \in Nat
  BY LenProperties, ElementOfSeq
<1>2. \A i \in 1 .. Len(lines) : i <= Len(r) => lines[i] = r[i]
  BY <1>0, <1>1, TornFacts
\* The reply ends at the first line that does not go on.
<1>3. Len(lines) < Len(r)
  <2> SUFFICES ASSUME Len(lines) >= Len(r) PROVE FALSE
    BY <1>0
  <2>1. \A i \in 1 .. Len(r) : i \in 1 .. Len(lines) /\ lines[i] = r[i]
    BY <1>0, <1>2
  <2>2. \A i \in 1 .. Len(r) : Start(lines, i)
    BY <1>0, <2>1 DEF Start
  <2> DEFINE T == {i \in 1 .. Len(r) : ~Continues(r[i])}
  <2>3. PICK last \in T : \A i \in T : last <= i
    <3>1. Len(r) \in T /\ T \subseteq Nat
      BY <1>0
    <3> QED
      BY <3>1, Least
  <2>4. last \in LastLines(lines)
    <3>1. \A k \in 1 .. last - 1 : Continues(lines[k])
      BY <1>0, <2>1, <2>3
    <3> QED
      BY <1>0, <1>1, <2>1, <2>2, <2>3, <3>1 DEF LastLines
  <2>5. last \in last .. Len(lines) /\ lines[last].end = "CRLF"
    BY <1>0, <2>1, <2>3
  <2>6. \A i \in LastLines(lines) : i = last
    BY <2>4, OnlyOneLast
  <2>7. Final(lines[last]) /\ parse_response(lines) = lines[last].code
    BY <2>4, <2>5, <2>6, Verdict DEF Incomplete, Malformed
  <2>8. lines[last].code \in Codes
    BY <2>7 DEF Final
  <2> QED
    BY <2>7, <2>8, CodesAreVerdicts
<1>4. Len(more) <= Len(r)
  BY <1>0, <1>1, <1>3
<1>5. \A i \in 1 .. Len(more) : /\ i \in 1 .. Len(r) /\ Torn(more[i], r[i]) /\ r[i] \in Lines
                                /\ more[i].code = r[i].code /\ more[i].sep = r[i].sep
                                /\ more[i].utf8 = r[i].utf8
                                /\ Continues(more[i]) <=> Continues(r[i])
                                /\ Final(more[i]) <=> Final(r[i])
  BY <1>0, <1>1, <1>4, TornFacts
<1>6. \A i \in 1 .. Len(more) : Start(more, i)
  <2>1. \A i \in 1 .. Len(lines) : more[i].end = "CRLF"
    BY <1>0, <1>1, <1>2, <1>3
  <2> QED
    BY <1>0, <1>1, <2>1 DEF Start
<1>7. ASSUME parse_response(more) \in Codes, \A i \in 1 .. Len(more) : more[i].utf8
      PROVE  more = r /\ Parsable(r) /\ parse_response(more) = r[1].code
  <2>1. parse_response(more) # Incomplete /\ parse_response(more) # Malformed
    BY <1>7, CodesAreVerdicts
  <2>2. PICK last : last \in LastLines(more)
    <3>1. LastLines(more) # {}
      BY <2>1 DEF parse_response
    <3> QED
      BY <3>1
  <2>3. /\ last \in 1 .. Len(more) /\ ~Continues(more[last])
        /\ \A k \in 1 .. last - 1 : Continues(more[k])
    BY <1>1, <1>6, <2>2 DEF LastLines
  <2>4. /\ parse_response(more) = more[last].code
        /\ Final(more[last])
        /\ \A k \in 1 .. last : more[k].code = more[last].code
        /\ \E k \in last .. Len(more) : more[k].end = "CRLF"
    <3>1. \A i \in LastLines(more) : i = last
      BY <2>2, OnlyOneLast
    <3>2. \A k \in 1 .. last : Start(more, k)
      BY <1>1, <1>6, <2>3
    <3> QED
      BY <2>1, <2>2, <3>1, <3>2, Verdict
  <2>5. last = Len(r) /\ Len(more) = Len(r)
    <3>1. Final(r[last]) /\ last \in 1 .. Len(r)
      BY <1>5, <2>3, <2>4 DEF Final
    <3> QED
      BY <1>0, <1>1, <1>4, <2>3, <3>1
  <2>6. \A i \in 1 .. Len(r) : more[i] = r[i]
    <3>1. more[Len(r)].end = "CRLF"
      BY <1>0, <2>4, <2>5
    <3>2. more[Len(r)] = r[Len(r)]
      BY <1>0, <1>5, <2>5, <3>1, TornFacts
    <3>3. \A i \in 1 .. Len(r) - 1 : more[i] = r[i]
      BY <1>0, <1>1, <1>2, <2>5
    <3> QED
      BY <1>0, <3>2, <3>3
  <2>7. more = r
    BY <1>0, <1>1, <2>5, <2>6, SeqEqual
  <2>8. \A i \in 1 .. Len(r) - 1 : Continues(r[i])
    BY <1>0, <2>3, <2>5, <2>6
  <2>9. Final(r[Len(r)]) /\ \A i \in 1 .. Len(r) : r[i].code = r[1].code
    BY <1>0, <2>4, <2>5, <2>7
  <2>10. \A i \in 1 .. Len(r) : r[i].end = "CRLF" /\ r[i].utf8
    BY <1>0, <1>7, <2>7
  <2>11. Parsable(r)
    BY <1>0, <2>8, <2>9, <2>10, ParsableLines
  <2>12. parse_response(more) = r[1].code
    BY <1>0, <2>4, <2>5, <2>7, <2>9
  <2> QED
    BY <2>7, <2>11, <2>12
<1>8. ASSUME parse_response(more) = Malformed, Parsable(r)
      PROVE  FALSE
  <2>1. /\ \A i \in 1 .. Len(r) - 1 : Continues(r[i])
        /\ Final(r[Len(r)])
        /\ \A i \in 1 .. Len(r) : r[i].code = r[1].code
    BY <1>0, <1>8, ParsableLines
  <2>2. PICK last : last \in LastLines(more)
    <3>1. LastLines(more) # {}
      BY <1>8 DEF parse_response, Incomplete, Malformed
    <3> QED
      BY <3>1
  <2>3. last \in 1 .. Len(more) /\ ~Continues(more[last])
    BY <1>1, <2>2 DEF LastLines
  <2>4. last = Len(r)
    <3>1. last \in 1 .. Len(r) /\ ~Continues(r[last])
      BY <1>5, <2>3
    <3> QED
      BY <1>0, <2>1, <3>1
  <2>5. Final(more[last])
    BY <1>5, <2>1, <2>3, <2>4
  <2>6. \A k \in 1 .. last : more[k].code = more[last].code
    <3> TAKE k \in 1 .. last
    <3>1. k \in 1 .. Len(more)
      BY <1>1, <2>3
    <3>2. more[k].code = r[1].code /\ more[last].code = r[1].code
      BY <1>5, <2>1, <2>3, <3>1
    <3> QED
      BY <3>2
  <2>7. \A i \in LastLines(more) : i = last
    BY <2>2, OnlyOneLast
  <2>8. Incomplete # Malformed /\ more[last].code \in Codes
    BY <2>5 DEF Incomplete, Malformed, Final
  <2>9. more[last].code # Malformed
    BY <2>8, CodesAreVerdicts
  <2> QED
    BY <1>1, <1>8, <2>2, <2>5, <2>6, <2>7, <2>8, <2>9, Verdict
<1> QED
  BY <1>4, <1>7, <1>8

-----------------------------------------------------------------------------
(* Where the lines are *)

\* The lines of the replies s, one after the other, and how many come before each.
Laid(s, all, cut) ==
    /\ all \in Seq(Lines)
    /\ cut \in [1 .. Len(s) + 1 -> 0 .. Len(all)]
    /\ cut[Len(s) + 1] = Len(all)
    /\ \A k \in 1 .. Len(s) :
        /\ cut[k + 1] = cut[k] + Len(s[k])
        /\ \A j \in 1 .. Len(s[k]) : all[cut[k] + j] = s[k][j]

\* A reply more, laid behind the others.
LEMMA LaidMore ==
    ASSUME NEW s \in Seq(Seq(Lines)), NEW r \in Seq(Lines), NEW all, NEW cut, Laid(s, all, cut)
    PROVE  \E cut2 : /\ Laid(Append(s, r), all \o r, cut2)
                     /\ \A k \in 1 .. Len(s) + 1 : cut2[k] = cut[k]
<1> DEFINE a == all \o r
           t == Append(s, r)
           d == [k \in 1 .. Len(s) + 2 |-> IF k = Len(s) + 2 THEN Len(all) + Len(r) ELSE cut[k]]
<1>1. /\ Len(s) \in Nat /\ Len(r) \in Nat
      /\ Len(t) = Len(s) + 1 /\ t[Len(s) + 1] = r /\ \A k \in 1 .. Len(s) : t[k] = s[k]
  BY LenProperties, AppendProperties
<1>2. /\ all \in Seq(Lines) /\ Len(all) \in Nat
      /\ \A k \in 1 .. Len(s) + 1 : cut[k] \in 0 .. Len(all)
      /\ cut[Len(s) + 1] = Len(all)
      /\ \A k \in 1 .. Len(s) :
            /\ cut[k + 1] = cut[k] + Len(s[k])
            /\ \A j \in 1 .. Len(s[k]) : all[cut[k] + j] = s[k][j]
      /\ \A k \in 1 .. Len(s) : Len(s[k]) \in Nat
  <2>1. \A k \in 1 .. Len(s) : s[k] \in Seq(Lines)
    BY ElementOfSeq
  <2> QED
    BY <2>1, LenProperties DEF Laid
<1>3. /\ a \in Seq(Lines) /\ Len(a) = Len(all) + Len(r)
      /\ \A i \in 1 .. Len(all) : a[i] = all[i]
      /\ \A i \in 1 .. Len(r) : a[Len(all) + i] = r[i]
  <2>1. /\ a \in Seq(Lines) /\ Len(a) = Len(all) + Len(r)
        /\ \A i \in 1 .. Len(a) : a[i] = IF i <= Len(all) THEN all[i] ELSE r[i - Len(all)]
    BY <1>2, ConcatProperties
  <2> QED
    BY <1>1, <1>2, <2>1
<1>4. \A k \in 1 .. Len(s) + 1 : d[k] = cut[k]
  BY <1>1
<1>5. d[Len(s) + 2] = Len(all) + Len(r)
  BY <1>1
<1>6. d \in [1 .. Len(s) + 2 -> 0 .. Len(all) + Len(r)]
  <2>1. \A k \in 1 .. Len(s) + 2 :
           (IF k = Len(s) + 2 THEN Len(all) + Len(r) ELSE cut[k]) \in 0 .. Len(all) + Len(r)
    BY <1>1, <1>2
  <2> QED
    BY <2>1
<1> HIDE DEF a, d, t
<1>7. ASSUME NEW k \in 1 .. Len(s) + 1
      PROVE  /\ d[k + 1] = d[k] + Len(t[k])
             /\ \A j \in 1 .. Len(t[k]) : a[d[k] + j] = t[k][j]
  <2>1. CASE k = Len(s) + 1
    <3>1. d[k] = Len(all) /\ d[k + 1] = Len(all) + Len(r) /\ t[k] = r
      BY <1>1, <1>2, <1>4, <1>5, <2>1
    <3> QED
      BY <1>3, <3>1
  <2>2. CASE k \in 1 .. Len(s)
    <3>1. /\ t[k] = s[k] /\ d[k] = cut[k] /\ d[k + 1] = cut[k + 1]
          /\ cut[k] \in 0 .. Len(all) /\ cut[k + 1] \in 0 .. Len(all)
          /\ cut[k + 1] = cut[k] + Len(s[k]) /\ Len(s[k]) \in Nat
      <4>1. k \in 1 .. Len(s) + 1 /\ k + 1 \in 1 .. Len(s) + 1
        BY <1>1, <2>2
      <4> QED
        BY <1>1, <1>2, <1>4, <2>2, <4>1
    <3>2. \A j \in 1 .. Len(s[k]) : all[cut[k] + j] = s[k][j]
      BY <1>2, <2>2
    <3>3. \A j \in 1 .. Len(s[k]) : cut[k] + j \in 1 .. Len(all)
      <4>1. Len(all) \in Nat
        BY <1>2
      <4>2. /\ cut[k] \in Nat /\ Len(s[k]) \in Nat /\ Len(all) \in Nat
            /\ cut[k] + Len(s[k]) <= Len(all)
        BY ONLY <3>1, <4>1
      <4>3. \A b, m, e \in Nat : b + m <= e => \A j \in 1 .. m : b + j \in 1 .. e
        OBVIOUS
      <4> QED
        BY ONLY <4>2, <4>3
    <3> QED
      BY <1>3, <3>1, <3>2, <3>3
  <2> QED
    BY <1>1, <2>1, <2>2
<1>8. Laid(t, a, d)
  <2>1. Len(t) + 1 = Len(s) + 2 /\ 1 .. Len(t) = 1 .. Len(s) + 1
    BY <1>1
  <2> QED
    BY <1>3, <1>5, <1>6, <1>7, <2>1 DEF Laid
<1> QED
  BY <1>4, <1>8 DEF a, t

\* After the q-th line, what comes is on the wire and the server has still to send the rest.
Rest(all, q) ==
    /\ q + Len(wire) <= Len(all)
    /\ \A i \in 1 .. Len(wire) : Torn(wire[i], all[q + i])
    /\ open =>
        /\ Len(all) = q + Len(wire) + Len(saying)
        /\ \A i \in 1 .. Len(saying) : saying[i] = all[q + Len(wire) + i]

\* The call has read on from the p-th line.
ReadsOn(all, p) ==
    /\ \A i \in 1 .. Len(buffer) : Torn(buffer[i], all[p + i])
    /\ Rest(all, p + Len(buffer))

\* The calls have used up as many replies as there are calls.
InPlace == \E all, cut : Laid(said, all, cut) /\ ReadsOn(all, cut[Len(taken) + 1])

\* As long as no call was stopped.
OnTrack ==
    /\ Len(Clean) <= Len(said)
    /\ Len(Clean) = Len(taken) => InPlace /\ \A i \in 1 .. Len(buffer) : buffer[i].utf8

\* What the calls of Clean took and were told.
Told ==
    \A i \in 1 .. Len(Clean) :
        /\ taken[i].lines = said[i]
        /\ Parsable(said[i])
        /\ taken[i].outcome = Outcome(said[i][1].code)

\* The first error is the fault of its reply.
Blamed ==
    Len(Clean) < Len(taken) /\ taken[Len(Clean) + 1].outcome = "parsing" =>
        Len(Clean) + 1 <= Len(said) /\ ~Parsable(said[Len(Clean) + 1])

StreamInv == OnTrack /\ Told /\ Blamed

\* The lengths and elements of all that the invariant counts.
LEMMA TakenType ==
    ASSUME TypeOK
    PROVE  /\ taken \in Seq(Entries) /\ Len(taken) \in Nat
           /\ said \in Seq(Replies) /\ Len(said) \in Nat
           /\ saying \in Seq(Lines) /\ Len(saying) \in Nat
           /\ wire \in Seq(Lines) /\ Len(wire) \in Nat
           /\ buffer \in Seq(Lines) /\ Len(buffer) \in Nat
           /\ Len(Clean) \in 0 .. Len(taken)
           /\ \A k \in 1 .. Len(said) : said[k] \in Replies /\ said[k] \in Seq(Lines)
                                                /\ Len(said[k]) \in Nat \ {0}
<1>1. /\ taken \in Seq(Entries) /\ said \in Seq(Replies) /\ saying \in Seq(Lines)
      /\ wire \in Seq(Lines) /\ buffer \in Seq(Lines)
  BY DEF TypeOK, Entries
<1>2. Len(Clean) \in 0 .. Len(taken)
  BY <1>1, CleanIs, CleanFacts
<1>3. \A k \in 1 .. Len(said) : said[k] \in Replies
  BY <1>1, ElementOfSeq
<1>4. \A r \in Replies : r \in Seq(Lines) /\ Len(r) \in Nat \ {0}
  <2> TAKE r \in Replies
  <2>1. r \in Seq(Lines) /\ r # <<>>
    BY RepliesAssumption
  <2> QED
    BY <2>1, LenProperties, EmptySeq
<1> QED
  BY <1>1, <1>2, <1>3, <1>4, LenProperties

\* A call that returns, with a verdict or an error.
LEMMA ReturnKeeps ==
    ASSUME TypeOK, StreamInv, NEW outcome \in Outcomes, NEW lines \in Seq(Lines),
           Return(outcome, lines), UNCHANGED said,
           NEW n, n = Len(taken) + 1,
           Len(Clean) = Len(taken) /\ outcome = "parsing" =>
               n <= Len(said) /\ ~Parsable(said[n]),
           Len(Clean) = Len(taken) /\ outcome \notin {"parsing", "io", "cancelled"}
             /\ ~(n <= Len(said) /\ BareLF(said[n])) =>
               /\ n <= Len(said) /\ lines = said[n] /\ Parsable(said[n])
               /\ outcome = Outcome(said[n][1].code)
               /\ InPlace'
    PROVE  StreamInv'
<1> DEFINE e == [outcome |-> outcome, lines |-> lines]
           c == CleanOf(taken, said)
           d == CleanOf(taken', said')
<1>0. /\ taken \in Seq(Entries) /\ Len(taken) \in Nat /\ Len(said) \in Nat /\ e \in Entries
      /\ e.outcome = outcome /\ e.lines = lines
  BY TakenType DEF Entries
<1>1. taken' = Append(taken, e) /\ buffer' = <<>> /\ said' = said
  BY DEF Return
<1>2. /\ Len(taken') = Len(taken) + 1 /\ taken'[n] = e
      /\ \A i \in 1 .. Len(taken) : taken'[i] = taken[i]
  BY <1>0, <1>1, AppendProperties
<1>3. Clean = c /\ Clean' = d
  BY CleanIs DEF Clean, CleanOf, StopsOf
<1>4. /\ Len(c) <= Len(said) /\ Len(c) \in 0 .. Len(taken)
      /\ \A i \in 1 .. Len(c) : /\ taken[i].lines = said[i]
                                /\ Parsable(said[i])
                                /\ taken[i].outcome = Outcome(said[i][1].code)
      /\ Len(c) < Len(taken) /\ taken[Len(c) + 1].outcome = "parsing" =>
            Len(c) + 1 <= Len(said) /\ ~Parsable(said[Len(c) + 1])
  BY <1>3, TakenType DEF StreamInv, OnTrack, Told, Blamed
<1>5. SUFFICES
        /\ Len(d) <= Len(said)
        /\ Len(d) = Len(taken') => InPlace'
        /\ \A i \in 1 .. Len(d) : /\ taken'[i].lines = said[i]
                                  /\ Parsable(said[i])
                                  /\ taken'[i].outcome = Outcome(said[i][1].code)
        /\ Len(d) < Len(taken') /\ taken'[Len(d) + 1].outcome = "parsing" =>
              Len(d) + 1 <= Len(said) /\ ~Parsable(said[Len(d) + 1])
  <2>1. \A i \in 1 .. Len(buffer') : buffer'[i].utf8
    BY <1>1, EmptySeq
  <2>2. OnTrack' <=> /\ Len(d) <= Len(said)
                     /\ Len(d) = Len(taken') => InPlace'
    BY <1>1, <1>3, <2>1 DEF OnTrack
  <2>3. Told' <=> \A i \in 1 .. Len(d) : /\ taken'[i].lines = said[i]
                                         /\ Parsable(said[i])
                                         /\ taken'[i].outcome = Outcome(said[i][1].code)
    BY <1>1, <1>3 DEF Told
  <2>4. Blamed' <=>
           (Len(d) < Len(taken') /\ taken'[Len(d) + 1].outcome = "parsing" =>
              Len(d) + 1 <= Len(said) /\ ~Parsable(said[Len(d) + 1]))
    BY <1>1, <1>3 DEF Blamed
  <2> QED
    BY <2>2, <2>3, <2>4 DEF StreamInv
<1>6. CASE d = c /\ Len(c) < Len(taken)
  <2>1. Len(c) \in Nat /\ Len(d) # Len(taken')
    BY <1>0, <1>2, <1>4, <1>6
  <2>2. \A i \in 1 .. Len(c) + 1 : taken'[i] = taken[i]
    BY <1>0, <1>2, <1>6, <2>1
  <2>3. \A i \in 1 .. Len(c) : i \in 1 .. Len(c) + 1
    BY <2>1
  <2>4. Len(c) + 1 \in 1 .. Len(c) + 1
    BY <2>1
  <2> QED
    BY <1>4, <1>6, <2>1, <2>2, <2>3, <2>4
<1>7. CASE c = taken /\ d = taken
  BY <1>0, <1>2, <1>3, <1>4, <1>7
<1>8. CASE /\ c = taken /\ d = Append(taken, e)
           /\ ~Bad(e) /\ ~(Len(taken) + 1 <= Len(said) /\ BareLF(said[Len(taken) + 1]))
  <2>1. Len(Clean) = Len(taken) /\ Len(d) = Len(taken) + 1
    BY <1>0, <1>1, <1>2, <1>3, <1>8
  <2>2. outcome \notin {"parsing", "io", "cancelled"}
    BY <1>0, <1>8 DEF Bad
  <2>3. /\ n <= Len(said) /\ lines = said[n] /\ Parsable(said[n])
        /\ outcome = Outcome(said[n][1].code)
        /\ InPlace'
    BY <1>8, <2>1, <2>2
  <2> QED
    BY <1>0, <1>2, <1>4, <1>8, <2>1, <2>3
<1> QED
  BY <1>0, <1>1, <1>6, <1>7, <1>8, CleanReturn

-----------------------------------------------------------------------------
(* What each step does to the stream *)

\* A step that leaves the calls and the replies alone.
LEMMA SameCalls ==
    ASSUME TypeOK, StreamInv, UNCHANGED <<said, taken>>,
           InPlace /\ Len(taken) <= Len(said) => InPlace',
           Len(Clean) = Len(taken) => \A i \in 1 .. Len(buffer') : buffer'[i].utf8
    PROVE  StreamInv'
<1>1. Clean' = Clean
  BY DEF Clean
<1>2. Len(Clean) = Len(taken) => Len(taken) <= Len(said)
  BY DEF StreamInv, OnTrack
<1> QED
  BY <1>1, <1>2 DEF StreamInv, OnTrack, Told, Blamed

\* A new reply is said behind those there are.
LEMMA StartKeeps ==
    ASSUME TypeOK, TypeOK', StreamInv, StartReply
    PROVE  StreamInv' /\ Clean' = Clean
<1>0. /\ taken \in Seq(Entries) /\ Len(taken) \in Nat /\ said \in Seq(Replies)
      /\ Len(said) \in Nat /\ Len(wire) \in Nat /\ Len(buffer) \in Nat /\ Len(saying) \in Nat
      /\ \A k \in 1 .. Len(said) : said[k] \in Seq(Lines) /\ Len(said[k]) \in Nat \ {0}
      /\ Len(Clean) \in 0 .. Len(taken) /\ Len(Clean) <= Len(said)
  BY TakenType DEF StreamInv, OnTrack
<1>1. PICK r \in Replies : saying' = r /\ said' = Append(said, r)
  BY DEF StartReply
<1>2. /\ open /\ open' /\ saying = <<>> /\ UNCHANGED <<wire, buffer, taken>> /\ Len(saying) = 0
  BY EmptySeq DEF StartReply, reader
<1>3. /\ Len(said') = Len(said) + 1 /\ said'[Len(said) + 1] = r
      /\ \A k \in 1 .. Len(said) : said'[k] = said[k]
  BY <1>0, <1>1, AppendProperties
<1>4. Clean' = Clean
  <2>1. Clean = CleanOf(taken, said) /\ Clean' = CleanOf(taken', said')
    BY CleanIs DEF Clean, CleanOf, StopsOf
  <2>2. CleanOf(taken, Append(said, r)) = CleanOf(taken, said)
    BY <1>0, <2>1, CleanStart
  <2> QED
    BY <1>1, <1>2, <2>1, <2>2
<1>5. r \in Seq(Lines) /\ Len(r) \in Nat
  BY RepliesAssumption, LenProperties
<1>6. ASSUME InPlace, Len(taken) <= Len(said) PROVE InPlace'
  <2>1. PICK all, cut : Laid(said, all, cut) /\ ReadsOn(all, cut[Len(taken) + 1])
    BY <1>6 DEF InPlace
  <2>2. PICK cut2 : /\ Laid(said', all \o r, cut2)
                    /\ \A k \in 1 .. Len(said) + 1 : cut2[k] = cut[k]
    <3>1. said \in Seq(Seq(Lines))
      BY <1>0, SeqDef
    <3> QED
      BY <1>1, <1>5, <2>1, <3>1, LaidMore
  <2>3. PICK p : p = cut[Len(taken) + 1]
    OBVIOUS
  <2>4. PICK all2 : all2 = all \o r
    OBVIOUS
  <2>5. /\ all \in Seq(Lines) /\ Len(all) \in Nat
        /\ p \in 0 .. Len(all) /\ cut2[Len(taken) + 1] = p
    <3>1. Len(taken) + 1 \in 1 .. Len(said) + 1
      BY <1>0, <1>6
    <3> QED
      BY <2>1, <2>2, <2>3, <3>1, LenProperties DEF Laid
  <2>6. /\ Len(all2) = Len(all) + Len(r)
        /\ \A i \in 1 .. Len(all) : all2[i] = all[i]
        /\ \A i \in 1 .. Len(r) : all2[Len(all) + i] = r[i]
    <3>1. /\ Len(all2) = Len(all) + Len(r)
          /\ \A i \in 1 .. Len(all2) : all2[i] = IF i <= Len(all) THEN all[i] ELSE r[i - Len(all)]
      <4>1. /\ Len(all \o r) = Len(all) + Len(r)
            /\ \A i \in 1 .. Len(all) + Len(r) :
                  (all \o r)[i] = IF i <= Len(all) THEN all[i] ELSE r[i - Len(all)]
        BY <1>5, <2>5, ConcatProperties
      <4> QED
        BY <2>4, <4>1
    <3> QED
      BY <1>5, <2>5, <3>1
  <2>7. PICK q : q = p + Len(buffer)
    OBVIOUS
  <2>8. /\ q + Len(wire) = Len(all) /\ q \in Nat
        /\ \A i \in 1 .. Len(buffer) : Torn(buffer[i], all[p + i])
        /\ \A i \in 1 .. Len(wire) : Torn(wire[i], all[q + i])
    BY <1>0, <1>2, <2>1, <2>3, <2>5, <2>7 DEF ReadsOn, Rest
  <2>9. \A i \in 1 .. Len(buffer) : Torn(buffer[i], all2[p + i])
    <3> TAKE i \in 1 .. Len(buffer)
    <3>1. p + i \in 1 .. Len(all)
      BY <1>0, <2>5, <2>7, <2>8
    <3> QED
      BY <2>6, <2>8, <3>1
  <2>10. \A i \in 1 .. Len(wire) : Torn(wire[i], all2[q + i])
    <3> TAKE i \in 1 .. Len(wire)
    <3>1. q + i \in 1 .. Len(all)
      BY <1>0, <2>5, <2>8
    <3> QED
      BY <2>6, <2>8, <3>1
  <2>11. ReadsOn(all2, p)'
    <3>1. /\ Len(all2) = q + Len(wire) + Len(saying')
          /\ \A i \in 1 .. Len(saying') : saying'[i] = all2[q + Len(wire) + i]
          /\ q + Len(wire) <= Len(all2)
      <4>1. saying' = r
        BY <1>1
      <4>2. q + Len(wire) = Len(all) /\ q + Len(wire) <= Len(all2)
        BY <1>5, <2>5, <2>6, <2>8
      <4>3. /\ Len(all2) = q + Len(wire) + Len(r)
            /\ \A i \in 1 .. Len(r) : r[i] = all2[q + Len(wire) + i]
        BY <2>6, <4>2
      <4> QED
        BY <4>1, <4>2, <4>3
    <3>2. p + Len(buffer') = q /\ buffer' = buffer /\ wire' = wire
      BY <1>2, <2>7
    <3>3. \A i \in 1 .. Len(buffer') : Torn(buffer'[i], all2[p + i])
      BY <2>9, <3>2
    <3>4. \A i \in 1 .. Len(wire') : Torn(wire'[i], all2[q + i])
      BY <2>10, <3>2
    <3>5. /\ Len(all2) = q + Len(wire') + Len(saying')
          /\ \A i \in 1 .. Len(saying') : saying'[i] = all2[q + Len(wire') + i]
          /\ q + Len(wire') <= Len(all2)
      BY <3>1, <3>2
    <3> QED
      BY <3>2, <3>3, <3>4, <3>5 DEF ReadsOn, Rest
  <2>12. ReadsOn(all2, cut2[Len(taken) + 1])'
    <3>1. Len(taken') = Len(taken)
      BY <1>2
    <3>2. cut2[Len(taken') + 1] = p
      BY <2>5, <3>1
    <3> QED
      BY <2>11, <3>2 DEF ReadsOn, Rest
  <2>13. Laid(said', all2, cut2)
    BY <2>2, <2>4
  <2> QED
    BY <2>12, <2>13 DEF InPlace
<1>7. OnTrack'
  <2>1. Len(Clean) = Len(taken) => InPlace'
    BY <1>6, <1>0 DEF StreamInv, OnTrack
  <2> QED
    BY <1>0, <1>2, <1>3, <1>4, <2>1 DEF StreamInv, OnTrack
<1>8. \A k \in 1 .. Len(Clean) : said'[k] = said[k]
  BY <1>0, <1>3
<1>9. Told'
  BY <1>2, <1>4, <1>8 DEF StreamInv, Told
<1>10. Blamed'
  <2>1. Len(Clean) + 1 <= Len(said) =>
           Len(Clean) + 1 <= Len(said') /\ said'[Len(Clean) + 1] = said[Len(Clean) + 1]
    BY <1>0, <1>3
  <2> QED
    BY <1>2, <1>4, <2>1 DEF StreamInv, Blamed
<1> QED
  BY <1>4, <1>7, <1>9, <1>10 DEF StreamInv

\* A line sent is on the wire and no longer to be sent.
LEMMA SendKeeps ==
    ASSUME TypeOK, InPlace, Len(taken) <= Len(said), SendLine
    PROVE  InPlace'
<1>0. /\ saying \in Seq(Lines) /\ wire \in Seq(Lines)
      /\ Len(saying) \in Nat /\ Len(wire) \in Nat /\ Len(buffer) \in Nat
  BY TakenType
<1>1. /\ saying # <<>> /\ wire' = Append(wire, Head(saying)) /\ saying' = Tail(saying)
      /\ open /\ UNCHANGED <<open, said, buffer, taken>>
  BY DEF SendLine, reader
<1>2. /\ Len(saying) # 0 /\ Head(saying) = saying[1] /\ Head(saying) \in Lines
      /\ Len(saying') = Len(saying) - 1
      /\ \A i \in 1 .. Len(saying') : saying'[i] = saying[i + 1]
  BY <1>0, <1>1, HeadTailProperties, EmptySeq
<1>3. /\ Len(wire') = Len(wire) + 1 /\ wire'[Len(wire) + 1] = saying[1]
      /\ \A i \in 1 .. Len(wire) : wire'[i] = wire[i]
  BY <1>0, <1>1, <1>2, AppendProperties
<1>4. PICK all, cut : Laid(said, all, cut) /\ ReadsOn(all, cut[Len(taken) + 1])
  BY DEF InPlace
<1>5. Laid(said', all, cut)
  BY <1>1, <1>4 DEF Laid
<1>6. ASSUME NEW p, p \in Nat, ReadsOn(all, p)
      PROVE  ReadsOn(all, p)'
  <2> DEFINE q == p + Len(buffer)
             s == q + Len(wire)
  <2>1. /\ Len(all) = s + Len(saying)
        /\ \A i \in 1 .. Len(buffer) : Torn(buffer[i], all[p + i])
        /\ \A i \in 1 .. Len(wire) : Torn(wire[i], all[q + i])
        /\ \A i \in 1 .. Len(saying) : saying[i] = all[s + i]
    BY <1>1, <1>6 DEF ReadsOn, Rest
  <2>2. q \in Nat /\ s \in Nat /\ q + Len(wire) = s
    BY <1>0, <1>6
  <2>3. \A i \in 1 .. Len(wire') : Torn(wire'[i], all[q + i])
    <3> TAKE i \in 1 .. Len(wire')
    <3>1. CASE i \in 1 .. Len(wire)
      BY <1>3, <2>1, <3>1
    <3>2. CASE i = Len(wire) + 1
      <4>1. q + i = s + 1
        BY <1>0, <2>2, <3>2
      <4>2. all[s + 1] = saying[1]
        BY <1>0, <1>2, <2>1
      <4> QED
        BY <1>3, <3>2, <4>1, <4>2 DEF Torn
    <3> QED
      BY <1>0, <1>3, <3>1, <3>2
  <2>4. \A i \in 1 .. Len(saying') : saying'[i] = all[s + 1 + i]
    <3> TAKE i \in 1 .. Len(saying')
    <3>1. i + 1 \in 1 .. Len(saying) /\ s + 1 + i = s + (i + 1)
      BY <1>0, <1>2, <2>2
    <3>2. saying[i + 1] = all[s + (i + 1)]
      BY <2>1, <3>1
    <3> QED
      BY <1>2, <3>1, <3>2
  <2>5. Len(all) = s + 1 + Len(saying') /\ q + Len(wire') = s + 1 /\ s + 1 <= Len(all)
    BY <1>0, <1>2, <1>3, <2>1, <2>2
  <2> HIDE DEF s
  <2>6. /\ p + Len(buffer') + Len(wire') = s + 1 /\ p + Len(buffer') = q /\ buffer' = buffer
    BY <1>1, <2>5
  <2> HIDE DEF q
  <2> QED
    BY <1>1, <2>1, <2>3, <2>4, <2>5, <2>6 DEF ReadsOn, Rest
<1>7. ReadsOn(all, cut[Len(taken) + 1])'
  <2>1. PICK p : p = cut[Len(taken) + 1]
    OBVIOUS
  <2>2. p \in Nat
    <3>1. /\ Len(taken) + 1 \in 1 .. Len(said) + 1 /\ Len(all) \in Nat
          /\ cut \in [1 .. Len(said) + 1 -> 0 .. Len(all)]
      BY <1>4, TakenType, LenProperties DEF Laid
    <3> QED
      BY <2>1, <3>1
  <2>3. ReadsOn(all, p)'
    BY <1>4, <1>6, <2>1, <2>2
  <2>4. cut[Len(taken') + 1] = p
    BY <1>1, <2>1
  <2> QED
    BY <2>3, <2>4 DEF ReadsOn, Rest
<1> QED
  BY <1>5, <1>7 DEF InPlace

\* A connection that ends keeps what comes in its place, but for the last line.
LEMMA CloseTears ==
    ASSUME TypeOK, Close
    PROVE  /\ Len(wire') \in 0 .. Len(wire)
           /\ \A i \in 1 .. Len(wire') :
                 wire'[i] = wire[i] \/ wire'[i] = [wire[i] EXCEPT !.end = "none"]
<1>0. wire \in Seq(Lines) /\ Len(wire) \in Nat
  BY TakenType
<1>1. PICK n \in 0 .. Len(wire) :
         \/ wire' = SubSeq(wire, 1, n)
         \/ n > 0 /\ wire' = [SubSeq(wire, 1, n) EXCEPT ![n].end = "none"]
  BY DEF Close
<1>2. PICK s : s = SubSeq(wire, 1, n)
  OBVIOUS
<1>3. s \in Seq(Lines) /\ Len(s) = n /\ \A i \in 1 .. n : s[i] = wire[i]
  <2>1. \A i \in 1 .. n : wire[i] \in Lines
    BY <1>0, ElementOfSeq
  <2> QED
    BY <1>0, <1>2, <2>1, SubSeqProperties
<1>4. CASE wire' = s
  BY <1>0, <1>3, <1>4
<1>5. CASE n > 0 /\ wire' = [s EXCEPT ![n].end = "none"]
  <2>1. PICK x : x = [s[n] EXCEPT !.end = "none"]
    OBVIOUS
  <2>2. x \in Lines
    <3>1. s[n] \in Lines
      BY <1>0, <1>3, <1>5, ElementOfSeq
    <3> QED
      BY <2>1, <3>1 DEF Lines, Ends
  <2>3. wire' = [s EXCEPT ![n] = x]
    BY <1>5, <2>1
  <2>4. Len(wire') = n /\ \A i \in 1 .. n : wire'[i] = IF i = n THEN x ELSE s[i]
    <3>1. n \in 1 .. Len(s)
      BY <1>3, <1>5
    <3> QED
      BY <1>3, <2>2, <2>3, <3>1, ExceptSeq
  <2>5. x = [wire[n] EXCEPT !.end = "none"]
    BY <1>3, <1>5, <2>1
  <2> QED
    BY <1>0, <1>3, <2>4, <2>5
<1> QED
  BY <1>1, <1>2, <1>4, <1>5

\* A connection that closes leaves a first part of the lines, the last one torn
\* perhaps.
LEMMA CloseKeeps ==
    ASSUME TypeOK, InPlace, Len(taken) <= Len(said), Close
    PROVE  InPlace'
<1>0. /\ Len(wire) \in Nat /\ Len(buffer) \in Nat /\ Len(taken) \in Nat /\ Len(said) \in Nat
      /\ wire \in Seq(Lines)
  BY TakenType
<1>1. /\ ~open' /\ UNCHANGED <<said, buffer, taken>>
      /\ Len(wire') \in 0 .. Len(wire)
      /\ \A i \in 1 .. Len(wire') :
            wire'[i] = wire[i] \/ wire'[i] = [wire[i] EXCEPT !.end = "none"]
  BY CloseTears DEF Close, reader
<1>2. PICK all, cut : Laid(said, all, cut) /\ ReadsOn(all, cut[Len(taken) + 1])
  BY DEF InPlace
<1>3. PICK p : p = cut[Len(taken) + 1]
  OBVIOUS
<1>4. p \in Nat /\ Len(all) \in Nat /\ all \in Seq(Lines)
  <2>1. /\ Len(taken) + 1 \in 1 .. Len(said) + 1 /\ Len(all) \in Nat /\ all \in Seq(Lines)
        /\ cut \in [1 .. Len(said) + 1 -> 0 .. Len(all)]
    BY <1>0, <1>2, LenProperties DEF Laid
  <2> QED
    BY <1>3, <2>1
<1>5. PICK q : q = p + Len(buffer)
  OBVIOUS
<1>6. /\ q + Len(wire) <= Len(all) /\ q \in Nat
      /\ \A i \in 1 .. Len(buffer) : Torn(buffer[i], all[p + i])
      /\ \A i \in 1 .. Len(wire) : Torn(wire[i], all[q + i])
  <2>1. q \in Nat
    BY <1>0, <1>4, <1>5
  <2>2. ReadsOn(all, p)
    BY ONLY <1>2, <1>3
  <2>3. Rest(all, q) /\ \A i \in 1 .. Len(buffer) : Torn(buffer[i], all[p + i])
    BY ONLY <2>2, <1>5 DEF ReadsOn
  <2> QED
    BY ONLY <2>1, <2>3 DEF Rest
<1>7. \A i \in 1 .. Len(wire') : Torn(wire'[i], all[q + i])
  <2> TAKE i \in 1 .. Len(wire')
  <2>1. i \in 1 .. Len(wire) /\ q + i \in 1 .. Len(all)
    BY <1>0, <1>1, <1>4, <1>6
  <2>2. Torn(wire[i], all[q + i]) /\ all[q + i] \in Lines
    BY <1>4, <1>6, <2>1, ElementOfSeq
  <2>3. wire'[i] = wire[i] \/ wire'[i] = [wire[i] EXCEPT !.end = "none"]
    BY <1>1
  <2>4. ASSUME NEW x, NEW y, NEW z \in Lines, Torn(x, z), y = x \/ y = [x EXCEPT !.end = "none"]
        PROVE  Torn(y, z)
    BY <2>4 DEF Torn, Lines
  <2> QED
    BY <2>2, <2>3, <2>4
<1>8. ReadsOn(all, p)'
  <2>1. p + Len(buffer') = q /\ buffer' = buffer /\ q + Len(wire') <= Len(all)
    BY <1>0, <1>1, <1>4, <1>5, <1>6
  <2>2. \A i \in 1 .. Len(buffer') : Torn(buffer'[i], all[p + i])
    BY <1>6, <2>1
  <2> QED
    BY <1>1, <1>7, <2>1, <2>2 DEF ReadsOn, Rest
<1>9. cut[Len(taken') + 1] = p
  BY <1>1, <1>3
<1>10. ReadsOn(all, cut[Len(taken) + 1])'
  BY <1>8, <1>9 DEF ReadsOn, Rest
<1>11. Laid(said', all, cut)
  BY <1>1, <1>2
<1> QED
  BY <1>10, <1>11 DEF InPlace

\* A line read: what comes after it is on the wire.
LEMMA ReadOn ==
    ASSUME TypeOK, wire # <<>>, wire' = Tail(wire), open' = open, saying' = saying,
           NEW all \in Seq(Lines), NEW p \in Nat, ReadsOn(all, p), NEW q, q = p + Len(buffer) + 1
    PROVE  /\ q \in Nat /\ q <= Len(all)
           /\ \A i \in 1 .. Len(buffer) : Torn(buffer[i], all[p + i])
           /\ Torn(Head(wire), all[q])
           /\ Rest(all, q)'
<1>0. /\ Len(wire) \in Nat /\ Len(buffer) \in Nat /\ wire \in Seq(Lines)
      /\ Head(wire) = wire[1] /\ Len(wire) # 0
      /\ Len(wire') = Len(wire) - 1
      /\ \A i \in 1 .. Len(wire') : wire'[i] = wire[i + 1]
  BY TakenType, HeadTailProperties, EmptySeq
<1>1. PICK m : m = p + Len(buffer)
  OBVIOUS
<1>2. /\ m + Len(wire) <= Len(all)
      /\ \A i \in 1 .. Len(buffer) : Torn(buffer[i], all[p + i])
      /\ \A i \in 1 .. Len(wire) : Torn(wire[i], all[m + i])
      /\ open => /\ Len(all) = m + Len(wire) + Len(saying)
                 /\ \A i \in 1 .. Len(saying) : saying[i] = all[m + Len(wire) + i]
  BY <1>1 DEF ReadsOn, Rest
<1>3. m \in Nat /\ q = m + 1 /\ q + Len(wire') = m + Len(wire)
  BY <1>0, <1>1
<1>4. Torn(Head(wire), all[q])
  BY <1>0, <1>2, <1>3
<1>5. \A i \in 1 .. Len(wire') : Torn(wire'[i], all[q + i])
  <2> TAKE i \in 1 .. Len(wire')
  <2>1. i + 1 \in 1 .. Len(wire)
    BY <1>0
  <2>3. q + i = m + (i + 1)
    BY <1>3
  <2>2. Torn(wire[i + 1], all[m + (i + 1)])
    BY <1>2, <2>1
  <2> QED
    BY <1>0, <2>1, <2>2, <2>3
<1>6. q + Len(wire') <= Len(all)
  BY <1>2, <1>3
<1>7. ASSUME open'
      PROVE  /\ Len(all) = q + Len(wire') + Len(saying')
             /\ \A i \in 1 .. Len(saying') : saying'[i] = all[q + Len(wire') + i]
  <2>1. /\ Len(all) = m + Len(wire) + Len(saying)
        /\ \A i \in 1 .. Len(saying) : saying[i] = all[m + Len(wire) + i]
    BY <1>2, <1>7
  <2>2. PICK s : s = m + Len(wire)
    OBVIOUS
  <2>3. q + Len(wire') = s /\ saying' = saying
    BY <1>3, <2>2
  <2>4. Len(all) = s + Len(saying) /\ \A i \in 1 .. Len(saying) : saying[i] = all[s + i]
    BY <2>1, <2>2
  <2>5. Len(all) = s + Len(saying') /\ \A i \in 1 .. Len(saying') : saying'[i] = all[s + i]
    BY <2>3, <2>4
  <2> QED
    BY <2>3, <2>5
<1>8. Rest(all, q)'
  BY <1>5, <1>6, <1>7 DEF Rest
<1>9. q \in Nat /\ Len(wire') \in Nat /\ Len(all) \in Nat
  BY <1>0, <1>3, LenProperties
<1> QED
  BY <1>2, <1>4, <1>6, <1>8, <1>9

\* A line kept for more.
LEMMA LineKept ==
    ASSUME TypeOK, InPlace, Len(taken) <= Len(said), wire # <<>>, wire' = Tail(wire),
           Len(buffer') = Len(buffer) + 1, buffer'[Len(buffer) + 1] = Head(wire),
           \A i \in 1 .. Len(buffer) : buffer'[i] = buffer[i],
           UNCHANGED <<open, saying, said, taken>>
    PROVE  InPlace'
<1>0. Len(buffer) \in Nat /\ Len(taken) \in Nat /\ Len(said) \in Nat
  BY TakenType
<1>1. /\ Len(buffer') = Len(buffer) + 1 /\ buffer'[Len(buffer) + 1] = Head(wire)
      /\ \A i \in 1 .. Len(buffer) : buffer'[i] = buffer[i]
  OBVIOUS
<1>2. PICK all, cut : Laid(said, all, cut) /\ ReadsOn(all, cut[Len(taken) + 1])
  BY DEF InPlace
<1>3. PICK p : p = cut[Len(taken) + 1]
  OBVIOUS
<1>4. p \in Nat
  <2>1. /\ Len(taken) + 1 \in 1 .. Len(said) + 1 /\ Len(all) \in Nat
        /\ cut \in [1 .. Len(said) + 1 -> 0 .. Len(all)]
    BY <1>0, <1>2, LenProperties DEF Laid
  <2> QED
    BY <1>3, <2>1
<1>5. PICK q : q = p + Len(buffer) + 1
  OBVIOUS
<1>6. /\ q \in Nat /\ q <= Len(all)
      /\ \A i \in 1 .. Len(buffer) : Torn(buffer[i], all[p + i])
      /\ Torn(Head(wire), all[q])
      /\ Rest(all, q)'
  <2>1. ReadsOn(all, p) /\ all \in Seq(Lines)
    BY <1>2, <1>3 DEF Laid
  <2>2. open' = open /\ saying' = saying
    OBVIOUS
  <2> QED
    BY <1>4, <1>5, <2>1, <2>2, ReadOn
<1>7. p + Len(buffer') = q
  BY <1>0, <1>1, <1>4, <1>5
<1>8. \A i \in 1 .. Len(buffer') : Torn(buffer'[i], all[p + i])
  <2> TAKE i \in 1 .. Len(buffer')
  <2>1. CASE i \in 1 .. Len(buffer)
    BY <1>1, <1>6, <2>1
  <2>2. CASE i = Len(buffer) + 1
    <3>1. p + i = q
      BY <1>0, <1>4, <1>5, <2>2
    <3> QED
      BY <1>1, <1>6, <2>2, <3>1
  <2> QED
    BY <1>0, <1>1, <2>1, <2>2
<1>9. ReadsOn(all, p)'
  <2>1. Rest(all, p + Len(buffer))'
    BY <1>6, <1>7 DEF Rest
  <2> QED
    BY <1>8, <2>1 DEF ReadsOn
<1>10. cut[Len(taken') + 1] = p
  BY <1>3
<1>11. ReadsOn(all, cut[Len(taken) + 1])'
  BY <1>9, <1>10 DEF ReadsOn, Rest
<1>12. Laid(said', all, cut)
  BY <1>2
<1> QED
  BY <1>11, <1>12 DEF InPlace

\* A reply that a bare LF is in is not well-formed.
LEMMA BareLFIsBad ==
    ASSUME NEW r \in Replies, BareLF(r)
    PROVE  ~Parsable(r)
<1>1. Len(r) \in Nat \ {0}
  <2>1. r \in Seq(Lines) /\ r # <<>>
    BY RepliesAssumption
  <2> QED
    BY <2>1, LenProperties, EmptySeq
<1> QED
  BY <1>1, ParsableLines DEF BareLF

\* The outcome of a call whose reply is whole or malformed.
LEMMA OutcomeIs ==
    ASSUME NEW verdict, verdict \in Codes \/ verdict = Malformed
    PROVE  /\ Outcome(verdict) \in Outcomes
           /\ Outcome(verdict) = "parsing" <=> verdict = Malformed
           /\ Outcome(verdict) \in {"parsing", "io", "cancelled"} => verdict = Malformed
<1>1. CASE verdict \in Codes
  <2>1. verdict \notin {Incomplete, Malformed} /\ verdict[1] \in 2 .. 5
    BY <1>1, CodesAreVerdicts
  <2>2. Outcome(verdict) \in {"ok", "transient", "permanent"}
    BY <2>1 DEF Outcome
  <2> QED
    BY <2>1, <2>2 DEF Outcomes
<1>2. CASE verdict = Malformed
  <2>1. Outcome(verdict) = "parsing"
    BY <1>2 DEF Outcome
  <2> QED
    BY <1>2, <2>1 DEF Outcomes
<1> QED
  BY <1>1, <1>2

\* The lines a call has read when it comes to a verdict: those of the reply that is its,
\* which is all that was said before what is left on the wire.
LEMMA VerdictRead ==
    ASSUME Delimited, TypeOK, CutLast, Unended, InPlace,
           Len(taken) <= Len(said), \A i \in 1 .. Len(buffer) : buffer[i].utf8,
           wire # <<>>, wire' = Tail(wire), open' = open, saying' = saying, said' = said,
           buffer' = <<>>, Len(taken') = Len(taken) + 1, Head(wire).utf8,
           NEW lines \in Seq(Lines), Len(lines) = Len(buffer) + 1,
           lines[Len(buffer) + 1] = Head(wire),
           \A i \in 1 .. Len(buffer) : lines[i] = buffer[i],
           parse_response(lines) # Incomplete,
           NEW n, n = Len(taken) + 1
    PROVE  /\ n \in 1 .. Len(said)
           /\ parse_response(lines) = Malformed => ~Parsable(said[n])
           /\ parse_response(lines) \in Codes /\ ~BareLF(said[n]) =>
                /\ lines = said[n] /\ Parsable(said[n])
                /\ parse_response(lines) = said[n][1].code
                /\ InPlace'
<1>0. /\ buffer \in Seq(Lines) /\ Len(buffer) \in Nat /\ Len(taken) \in Nat /\ Len(said) \in Nat
      /\ Len(wire') \in Nat
      /\ \A k \in 1 .. Len(said) : said[k] \in Replies /\ said[k] \in Seq(Lines)
                                           /\ Len(said[k]) \in Nat \ {0}
  <2>1. wire' \in Seq(Lines)
    BY TakenType, HeadTailProperties
  <2> QED
    BY <2>1, TakenType, LenProperties
<1>1. PICK all, cut : Laid(said, all, cut) /\ ReadsOn(all, cut[Len(taken) + 1])
  BY DEF InPlace
<1>2. /\ cut \in [1 .. Len(said) + 1 -> 0 .. Len(all)]
      /\ cut[Len(said) + 1] = Len(all)
      /\ \A k \in 1 .. Len(said) :
            /\ cut[k + 1] = cut[k] + Len(said[k])
            /\ \A j \in 1 .. Len(said[k]) : all[cut[k] + j] = said[k][j]
      /\ all \in Seq(Lines) /\ Len(all) \in Nat
  BY <1>1, LenProperties DEF Laid
<1>3. PICK p : p = cut[n]
  OBVIOUS
<1>4. p \in 0 .. Len(all) /\ ReadsOn(all, p)
  <2>1. n \in 1 .. Len(said) + 1
    BY <1>0
  <2> QED
    BY <1>1, <1>2, <1>3, <2>1
<1>5. PICK q : q = p + Len(buffer) + 1
  OBVIOUS
<1>6. /\ q \in Nat /\ q <= Len(all)
      /\ \A i \in 1 .. Len(buffer) : Torn(buffer[i], all[p + i])
      /\ Torn(Head(wire), all[q])
      /\ Rest(all, q)'
  BY <1>2, <1>4, <1>5, ReadOn
<1>8. n \in 1 .. Len(said)
  <2>1. p < Len(all)
    BY <1>0, <1>2, <1>4, <1>5, <1>6
  <2>2. n # Len(said) + 1
    BY <1>2, <1>3, <2>1
  <2>3. n = Len(taken) + 1 /\ Len(taken) <= Len(said)
    OBVIOUS
  <2>4. n \in Nat /\ 1 <= n /\ n <= Len(said) + 1
    BY <1>0, <2>3
  <2> QED
    BY <1>0, <2>2, <2>4
<1>9. PICK r \in Replies : r = said[n]
  BY <1>0, <1>8
<1>10. /\ r \in Seq(Lines) /\ Len(r) \in Nat \ {0}
       /\ cut[n + 1] = p + Len(r)
       /\ \A j \in 1 .. Len(r) : all[p + j] = r[j]
  BY <1>0, <1>2, <1>3, <1>8, <1>9
<1>11. \A i \in 1 .. Len(lines) : Torn(lines[i], all[p + i])
  <2> TAKE i \in 1 .. Len(lines)
  <2>1. CASE i \in 1 .. Len(buffer)
    BY <1>6, <2>1
  <2>2. CASE i = Len(buffer) + 1
    <3>1. p + i = q
      BY <1>0, <1>4, <1>5, <2>2
    <3> QED
      BY <1>6, <2>2, <3>1
  <2> QED
    BY <1>0, <2>1, <2>2
<1>12. \A i \in 1 .. Len(lines) : i <= Len(r) => Torn(lines[i], r[i])
  BY <1>0, <1>10, <1>11
<1>13. /\ \A i \in 1 .. Len(buffer) : buffer[i].end # "none"
       /\ parse_response(buffer) = Incomplete
       /\ \A i \in 1 .. Len(lines) : lines[i].utf8
  <2>1. \A i \in 1 .. Len(buffer) : buffer[i].end # "none"
    BY DEF CutLast
  <2>2. parse_response(buffer) = Incomplete
    BY DEF Unended
  <2>3. \A i \in 1 .. Len(lines) : i \in 1 .. Len(buffer) \/ i = Len(buffer) + 1
    BY <1>0
  <2>4. \A i \in 1 .. Len(lines) : lines[i].utf8
    BY <2>3
  <2> QED
    BY <2>1, <2>2, <2>4
<1>14. ASSUME ~BareLF(r)
       PROVE  /\ parse_response(lines) = Malformed => ~Parsable(r)
              /\ parse_response(lines) \in Codes =>
                    lines = r /\ Parsable(r) /\ parse_response(lines) = r[1].code
  BY <1>0, <1>12, <1>13, <1>14, ReadReply
<1>15. ASSUME lines = r PROVE InPlace'
  <2>1. q = p + Len(r) /\ cut[Len(taken') + 1] = q
    <3>1. Len(r) = Len(buffer) + 1
      BY <1>15
    <3>2. q = p + Len(r)
      BY <1>0, <1>4, <1>5, <3>1
    <3>3. Len(taken') + 1 = n + 1
      BY <1>0
    <3> QED
      BY <1>10, <3>2, <3>3
  <2>2. ReadsOn(all, q)'
    <3>1. Len(buffer') = 0
      BY EmptySeq
    <3>2. q + Len(buffer') = q
      BY <1>6, <3>1
    <3>3. \A i \in 1 .. Len(buffer') : Torn(buffer'[i], all[q + i])
      BY <3>1
    <3>4. Rest(all, q + Len(buffer))'
      BY <1>6, <3>2 DEF Rest
    <3> QED
      BY <3>3, <3>4 DEF ReadsOn
  <2>3. ReadsOn(all, cut[Len(taken) + 1])'
    BY <2>1, <2>2 DEF ReadsOn
  <2>4. Laid(said', all, cut)
    BY <1>1
  <2> QED
    BY <2>3, <2>4 DEF InPlace
<1>16. BareLF(r) => ~Parsable(r)
  BY BareLFIsBad
<1> QED
  BY <1>8, <1>9, <1>14, <1>15, <1>16

\* The lines a call has with the next one.
LEMMA LinesRead ==
    ASSUME TypeOK, wire # <<>>, NEW lines, lines = Append(buffer, Head(wire))
    PROVE  /\ lines \in Seq(Lines) /\ Len(lines) = Len(buffer) + 1
           /\ lines[Len(buffer) + 1] = Head(wire)
           /\ \A i \in 1 .. Len(buffer) : lines[i] = buffer[i]
<1>1. buffer \in Seq(Lines) /\ Head(wire) \in Lines
  BY TakenType, HeadTailProperties
<1> QED
  BY <1>1, AppendProperties

\* The line that ends a call is the last one of its reply.
LEMMA ReadLineKeeps ==
    ASSUME Delimited, TypeOK, CutLast, Unended, StreamInv, ReadLine
    PROVE  StreamInv'
<1>0. wire # <<>> /\ wire' = Tail(wire) /\ open' = open /\ saying' = saying /\ said' = said
  BY DEF ReadLine
<1>1. PICK lines : lines = Append(buffer, Head(wire))
  OBVIOUS
<1>2. /\ lines \in Seq(Lines) /\ Len(lines) = Len(buffer) + 1
      /\ lines[Len(buffer) + 1] = Head(wire)
      /\ \A i \in 1 .. Len(buffer) : lines[i] = buffer[i]
  BY <1>0, <1>1, LinesRead
<1>3. \/ Return("io", lines)
      \/ /\ Head(wire).utf8 /\ buffer' = lines /\ UNCHANGED <<calling, taken>>
      \/ /\ Head(wire).utf8 /\ parse_response(lines) # Incomplete
         /\ Return(Outcome(parse_response(lines)), lines)
  BY <1>1 DEF ReadLine
<1>4. /\ taken \in Seq(Entries) /\ Len(taken) \in Nat /\ Len(buffer) \in Nat
      /\ Len(said) \in Nat /\ Len(Clean) \in 0 .. Len(taken) /\ Len(Clean) <= Len(said)
      /\ Len(Clean) = Len(taken) => InPlace /\ \A i \in 1 .. Len(buffer) : buffer[i].utf8
  BY TakenType DEF StreamInv, OnTrack
<1>5. CASE Return("io", lines)
  <2>1. "io" \in Outcomes
    BY DEF Outcomes
  <2>2. PICK outcome \in Outcomes : outcome = "io"
    BY <2>1
  <2>3. PICK n : n = Len(taken) + 1
    OBVIOUS
  <2>4. Return(outcome, lines) /\ UNCHANGED said
    BY <1>0, <1>5, <2>2
  <2>5. outcome # "parsing" /\ ~(outcome \notin {"parsing", "io", "cancelled"})
    BY <2>2
  <2> QED
    BY <1>2, <2>3, <2>4, <2>5, ReturnKeeps
<1>6. CASE Head(wire).utf8 /\ buffer' = lines /\ UNCHANGED <<calling, taken>>
  <2>1. /\ Len(buffer') = Len(buffer) + 1 /\ buffer'[Len(buffer) + 1] = Head(wire)
        /\ \A i \in 1 .. Len(buffer) : buffer'[i] = buffer[i]
    BY <1>2, <1>6
  <2>2. UNCHANGED <<open, saying, said, taken>>
    BY <1>0, <1>6
  <2>3. ASSUME InPlace, Len(taken) <= Len(said) PROVE InPlace'
    BY <1>0, <2>1, <2>2, <2>3, LineKept
  <2>4. Len(Clean) = Len(taken) => \A i \in 1 .. Len(buffer') : buffer'[i].utf8
    BY <1>4, <1>6, <2>1
  <2> QED
    BY <2>2, <2>3, <2>4, SameCalls
<1>7. CASE /\ Head(wire).utf8 /\ parse_response(lines) # Incomplete
           /\ Return(Outcome(parse_response(lines)), lines)
  <2>1. PICK outcome : outcome = Outcome(parse_response(lines))
    OBVIOUS
  <2>2. parse_response(lines) \in Codes \/ parse_response(lines) = Malformed
    BY <1>2, <1>7, VerdictType
  <2>3. /\ outcome \in Outcomes
        /\ outcome = "parsing" => parse_response(lines) = Malformed
        /\ outcome \notin {"parsing", "io", "cancelled"} => parse_response(lines) \in Codes
    BY <2>1, <2>2, OutcomeIs
  <2>4. PICK n : n = Len(taken) + 1
    OBVIOUS
  <2>5. buffer' = <<>> /\ Len(taken') = Len(taken) + 1
    <3>1. [outcome |-> outcome, lines |-> lines] \in Entries
      BY <1>2, <2>3 DEF Entries
    <3>2. taken' = Append(taken, [outcome |-> outcome, lines |-> lines]) /\ buffer' = <<>>
      BY <1>7, <2>1 DEF Return
    <3> QED
      BY <1>4, <3>1, <3>2, AppendProperties
  <2>6. ASSUME Len(Clean) = Len(taken)
        PROVE  /\ n \in 1 .. Len(said)
               /\ parse_response(lines) = Malformed => ~Parsable(said[n])
               /\ parse_response(lines) \in Codes /\ ~BareLF(said[n]) =>
                    /\ lines = said[n] /\ Parsable(said[n])
                    /\ parse_response(lines) = said[n][1].code
                    /\ InPlace'
    BY <1>0, <1>2, <1>4, <1>7, <2>4, <2>5, <2>6, VerdictRead
  <2>7. Len(Clean) = Len(taken) /\ outcome = "parsing" => n <= Len(said) /\ ~Parsable(said[n])
    BY <1>4, <2>3, <2>6
  <2>8. Len(Clean) = Len(taken) /\ outcome \notin {"parsing", "io", "cancelled"}
          /\ ~(n <= Len(said) /\ BareLF(said[n])) =>
               /\ n <= Len(said) /\ lines = said[n] /\ Parsable(said[n])
               /\ outcome = Outcome(said[n][1].code)
               /\ InPlace'
    <3> SUFFICES ASSUME Len(Clean) = Len(taken), outcome \notin {"parsing", "io", "cancelled"},
                        ~(n <= Len(said) /\ BareLF(said[n]))
                 PROVE  /\ n <= Len(said) /\ lines = said[n] /\ Parsable(said[n])
                        /\ outcome = Outcome(said[n][1].code)
                        /\ InPlace'
      OBVIOUS
    <3>1. n <= Len(said)
      BY <1>4, <2>6
    <3>2. parse_response(lines) \in Codes /\ ~BareLF(said[n])
      BY <2>3, <3>1
    <3>3. /\ lines = said[n] /\ Parsable(said[n])
          /\ parse_response(lines) = said[n][1].code
          /\ InPlace'
      BY <2>6, <3>2
    <3>4. outcome = Outcome(said[n][1].code)
      BY <2>1, <3>3
    <3> QED
      BY <3>1, <3>3, <3>4
  <2>9. Return(outcome, lines) /\ UNCHANGED said
    BY <1>0, <1>7, <2>1
  <2> QED
    BY <1>2, <2>3, <2>4, <2>7, <2>8, <2>9, ReturnKeeps
<1> QED
  BY <1>3, <1>5, <1>6, <1>7

-----------------------------------------------------------------------------
(* The verdicts *)

\* At first nothing is said and nothing taken.
LEMMA InitStream == Init => StreamInv /\ Clean = <<>>
<1> SUFFICES ASSUME Init PROVE StreamInv /\ Clean = <<>>
  OBVIOUS
<1>1. /\ TypeOK /\ taken = <<>> /\ said = <<>> /\ wire = <<>> /\ buffer = <<>> /\ saying = <<>>
      /\ Len(<<>>) = 0
  BY InitType, EmptySeq DEF Init
<1>2. Len(Clean) = 0 /\ Clean = <<>>
  <2>1. /\ taken \in Seq(Entries) /\ Len(Clean) \in 0 .. Len(taken) /\ Len(taken) = 0
    BY <1>1, TakenType
  <2>2. Clean \in Seq(Entries) /\ Len(Clean) = 0
    BY <2>1, CleanIs, CleanFacts
  <2> QED
    BY <2>2, EmptySeq
<1>3. InPlace
  <2>1. PICK all : all = <<>>
    OBVIOUS
  <2>2. PICK cut : cut = [k \in 1 .. 1 |-> 0]
    OBVIOUS
  <2>3. all \in Seq(Lines) /\ Len(all) = 0 /\ Len(said) = 0 /\ cut \in [1 .. 1 -> 0 .. 0] /\ cut[1] = 0
    BY <1>1, <2>1, <2>2, EmptySeq
  <2>4. Laid(said, all, cut)
    BY <2>3 DEF Laid
  <2>5. Len(wire) = 0 /\ Len(buffer) = 0 /\ Len(saying) = 0 /\ Len(taken) + 1 = 1
    BY <1>1
  <2>6. ReadsOn(all, 0)
    BY <2>3, <2>5 DEF ReadsOn, Rest
  <2>7. cut[Len(taken) + 1] = 0
    BY <2>3, <2>5
  <2> QED
    BY <2>4, <2>6, <2>7 DEF InPlace
<1> QED
  BY <1>1, <1>2, <1>3 DEF StreamInv, OnTrack, Told, Blamed

\* Every step keeps StreamInv.
LEMMA StreamKept ==
    ASSUME Delimited, TypeOK, TypeOK', CutLast, Unended, StreamInv, [Next]_vars
    PROVE  StreamInv'
<1>1. CASE StartReply
  BY <1>1, StartKeeps
<1>2. CASE SendLine
  <2>1. UNCHANGED <<said, taken, buffer>>
    BY <1>2 DEF SendLine, reader
  <2>2. InPlace /\ Len(taken) <= Len(said) => InPlace'
    BY <1>2, SendKeeps
  <2>3. Len(Clean) = Len(taken) => \A i \in 1 .. Len(buffer') : buffer'[i].utf8
    BY <2>1 DEF StreamInv, OnTrack
  <2> QED
    BY <2>1, <2>2, <2>3, SameCalls
<1>3. CASE Close
  <2>1. UNCHANGED <<said, taken, buffer>>
    BY <1>3 DEF Close, reader
  <2>2. InPlace /\ Len(taken) <= Len(said) => InPlace'
    BY <1>3, CloseKeeps
  <2>3. Len(Clean) = Len(taken) => \A i \in 1 .. Len(buffer') : buffer'[i].utf8
    BY <2>1 DEF StreamInv, OnTrack
  <2> QED
    BY <2>1, <2>2, <2>3, SameCalls
<1>4. CASE ReadLine
  BY <1>4, ReadLineKeeps
<1>5. CASE ReadEof \/ Cancel
  <2>1. PICK outcome \in {"io", "cancelled"} : Return(outcome, buffer) /\ UNCHANGED said
    BY <1>5 DEF ReadEof, Cancel
  <2>2. PICK n : n = Len(taken) + 1
    OBVIOUS
  <2>3. /\ outcome \in Outcomes /\ outcome # "parsing"
        /\ ~(outcome \notin {"parsing", "io", "cancelled"})
    BY <2>1 DEF Outcomes
  <2>4. buffer \in Seq(Lines)
    BY TakenType
  <2> QED
    BY <2>1, <2>2, <2>3, <2>4, ReturnKeeps
<1>6. CASE Call \/ UNCHANGED vars
  <2>1. UNCHANGED <<open, saying, wire, buffer, said, taken>>
    BY <1>6 DEF Call, vars
  <2>2. InPlace => InPlace'
    BY <2>1 DEF InPlace, ReadsOn, Rest
  <2>3. Len(Clean) = Len(taken) => \A i \in 1 .. Len(buffer') : buffer'[i].utf8
    BY <2>1 DEF StreamInv, OnTrack
  <2> QED
    BY <2>1, <2>2, <2>3, SameCalls
<1> QED
  BY <1>1, <1>2, <1>3, <1>4, <1>5, <1>6 DEF Next, Finished

\* What the proofs about replies have in common.
ReaderInv == TypeOK /\ CutLast /\ Unended /\ StreamInv

\* Every step leaves the parser wanting more of what is in the buffer.
LEMMA UnendedKept ==
    ASSUME TypeOK, Unended, [Next]_vars
    PROVE  Unended'
<1>1. CASE buffer' = buffer
  BY <1>1 DEF Unended
<1>2. CASE buffer' = <<>>
  BY <1>2, NothingRead DEF Unended
<1>3. CASE buffer' # buffer /\ buffer' # <<>>
  <2>1. ReadLine
    BY <1>3 DEF Next, Finished, StartReply, SendLine, Close, Call, ReadLine, ReadEof, Cancel,
                Return, vars, reader
  <2>2. parse_response(buffer') = Incomplete
    BY <1>3, <2>1, ReadLineType DEF Return
  <2> QED
    BY <2>2 DEF Unended
<1> QED
  BY <1>1, <1>2, <1>3

\* The invariant, for replies that are Delimited.
LEMMA ReaderInvariant == ASSUME Delimited PROVE Spec => []ReaderInv
<1>1. Init => ReaderInv
  <2> SUFFICES ASSUME Init PROVE ReaderInv
    OBVIOUS
  <2>1. /\ TypeOK /\ StreamInv /\ Len(saying) = 0 /\ Len(wire) = 0 /\ Len(buffer) = 0
        /\ buffer = <<>>
    BY InitType, InitStream, EmptySeq DEF Init
  <2>2. Unended
    BY <2>1, NothingRead DEF Unended
  <2> QED
    BY <2>1, <2>2 DEF CutLast, ReaderInv
<1>2. ReaderInv /\ [Next]_vars => ReaderInv'
  <2> SUFFICES ASSUME ReaderInv, [Next]_vars PROVE ReaderInv'
    OBVIOUS
  <2>1. TypeOK /\ CutLast /\ Unended /\ StreamInv
    BY DEF ReaderInv
  <2>2. TypeOK'
    BY <2>1, NextType
  <2> QED
    BY <2>1, <2>2, CutLastKept, UnendedKept, StreamKept DEF ReaderInv
<1> QED
  BY <1>1, <1>2, PTL DEF Spec

\* What read_response returns is a well-formed reply, with the severity of its code, and the
\* first error that is no reply is the fault of the reply that was next, or of its being a
\* bare code.
THEOREM TheRightVerdict == ASSUME Delimited PROVE Spec => []RightVerdict
<1>1. ReaderInv => RightVerdict
  <2> SUFFICES ASSUME ReaderInv PROVE RightVerdict
    OBVIOUS
  <2>1. TypeOK /\ Told /\ Blamed
    BY DEF ReaderInv, StreamInv
  <2>2. \A i \in 1 .. Len(Clean) : Clean[i] = taken[i]
    <3>1. taken \in Seq(Entries)
      BY <2>1, TakenType
    <3> QED
      BY <3>1, CleanIs, CleanFacts
  <2>3. Len(Clean) \in Nat /\ Len(taken) \in Nat
    BY <2>1, TakenType
  <2>4. \A i \in 1 .. Len(Clean) :
           Parsable(said[i]) /\ Clean[i].outcome = Outcome(said[i][1].code)
    BY <2>1, <2>2 DEF Told
  <2>5. Len(Clean) + 1 <= Len(taken) /\ taken[Len(Clean) + 1].outcome = "parsing" =>
           ~Parsable(said[Len(Clean) + 1])
    BY <2>1, <2>3 DEF Blamed
  <2> QED
    BY <2>4, <2>5 DEF RightVerdict, Parsable
<1> QED
  BY <1>1, ReaderInvariant, PTL

-----------------------------------------------------------------------------
(* Whole replies *)

\* The replies still to take: those after the first c.
LEMMA Pending ==
    ASSUME NEW s \in Seq(Replies), NEW c \in 0 .. Len(s)
    PROVE  /\ SubSeq(s, c + 1, Len(s)) \in Seq(Replies)
           /\ Len(SubSeq(s, c + 1, Len(s))) = Len(s) - c
           /\ \A i \in 1 .. Len(s) - c : SubSeq(s, c + 1, Len(s))[i] = s[c + i]
<1>1. Len(s) \in Nat /\ \A i \in c + 1 .. Len(s) : s[i] \in Replies
  <2>1. \A i \in 1 .. Len(s) : s[i] \in Replies
    BY ElementOfSeq
  <2> QED
    BY <2>1, LenProperties
<1>2. PICK m : m = c + 1
  OBVIOUS
<1>3. m \in Int /\ \A i \in m .. Len(s) : s[i] \in Replies
  BY <1>1, <1>2
<1>4. /\ SubSeq(s, m, Len(s)) \in Seq(Replies)
      /\ Len(SubSeq(s, m, Len(s))) = IF m <= Len(s) THEN Len(s) - m + 1 ELSE 0
      /\ \A i \in 1 .. Len(s) - m + 1 : SubSeq(s, m, Len(s))[i] = s[m + i - 1]
  BY <1>1, <1>3, SubSeqProperties
<1>5. /\ (IF m <= Len(s) THEN Len(s) - m + 1 ELSE 0) = Len(s) - c
      /\ Len(s) - m + 1 = Len(s) - c
      /\ \A i \in 1 .. Len(s) - c : m + i - 1 = c + i
  BY <1>1, <1>2
<1> QED
  BY <1>2, <1>4, <1>5

\* What is still to take, after a reply more.
LEMMA PendingMore ==
    ASSUME NEW s \in Seq(Replies), NEW c \in 0 .. Len(s), NEW r \in Replies
    PROVE  SubSeq(Append(s, r), c + 1, Len(Append(s, r))) = Append(SubSeq(s, c + 1, Len(s)), r)
<1>1. PICK t : t = Append(s, r)
  OBVIOUS
<1>2. PICK u : u = SubSeq(s, c + 1, Len(s))
  OBVIOUS
<1>3. /\ Len(s) \in Nat /\ t \in Seq(Replies) /\ Len(t) = Len(s) + 1 /\ t[Len(s) + 1] = r
      /\ \A i \in 1 .. Len(s) : t[i] = s[i]
  BY <1>1, LenProperties, AppendProperties
<1>4. u \in Seq(Replies) /\ Len(u) = Len(s) - c /\ \A i \in 1 .. Len(s) - c : u[i] = s[c + i]
  BY <1>2, Pending
<1>5. PICK v : v = SubSeq(t, c + 1, Len(t))
  OBVIOUS
<1>6. v \in Seq(Replies) /\ Len(v) = Len(t) - c /\ \A i \in 1 .. Len(t) - c : v[i] = t[c + i]
  <2>1. c \in 0 .. Len(t)
    BY <1>3
  <2> QED
    BY <1>3, <1>5, <2>1, Pending
<1>7. PICK w : w = Append(u, r)
  OBVIOUS
<1>8. /\ w \in Seq(Replies) /\ Len(w) = Len(u) + 1 /\ w[Len(u) + 1] = r
      /\ \A i \in 1 .. Len(u) : w[i] = u[i]
  BY <1>4, <1>7, AppendProperties
<1>9. Len(v) = Len(w)
  BY <1>3, <1>4, <1>6, <1>8
<1>10. ASSUME NEW i \in 1 .. Len(v) PROVE v[i] = w[i]
  <2>1. CASE i \in 1 .. Len(s) - c
    <3>1. c + i \in 1 .. Len(s) /\ i \in 1 .. Len(u) /\ i \in 1 .. Len(t) - c
      BY <1>3, <1>4, <2>1
    <3> QED
      BY <1>3, <1>4, <1>6, <1>8, <2>1, <3>1
  <2>2. CASE i = Len(s) - c + 1
    <3>1. c + i = Len(s) + 1 /\ i = Len(u) + 1 /\ i \in 1 .. Len(t) - c
      BY <1>3, <1>4, <2>2
    <3> QED
      BY <1>3, <1>6, <1>8, <3>1
  <2> QED
    BY <1>3, <1>6, <2>1, <2>2
<1>11. v = w
  BY <1>6, <1>8, <1>9, <1>10, SeqEqual
<1> QED
  BY <1>1, <1>2, <1>5, <1>7, <1>11

\* What is still to take, without its first reply.
LEMMA PendingLess ==
    ASSUME NEW s \in Seq(Replies), NEW c \in Nat, c < Len(s)
    PROVE  /\ SubSeq(s, c + 1, Len(s)) # <<>>
           /\ Head(SubSeq(s, c + 1, Len(s))) = s[c + 1]
           /\ Tail(SubSeq(s, c + 1, Len(s))) = SubSeq(s, c + 2, Len(s))
<1>1. PICK u : u = SubSeq(s, c + 1, Len(s))
  OBVIOUS
<1>2. Len(s) \in Nat
  BY LenProperties
<1>3. u \in Seq(Replies) /\ Len(u) = Len(s) - c /\ \A i \in 1 .. Len(s) - c : u[i] = s[c + i]
  <2>1. c \in 0 .. Len(s)
    BY <1>2
  <2> QED
    BY <1>1, <2>1, Pending
<1>4. u # <<>> /\ Head(u) = s[c + 1]
  <2>1. Len(u) # 0 /\ 1 \in 1 .. Len(s) - c
    BY <1>2, <1>3
  <2>2. u # <<>>
    BY <2>1, EmptySeq
  <2> QED
    BY <1>3, <2>1, <2>2
<1>5. PICK v : v = SubSeq(s, c + 2, Len(s))
  OBVIOUS
<1>6. /\ v \in Seq(Replies) /\ Len(v) = Len(s) - c - 1
      /\ \A i \in 1 .. Len(s) - c - 1 : v[i] = s[c + 1 + i]
  <2>1. PICK d : d = c + 1
    OBVIOUS
  <2>2. d \in 0 .. Len(s) /\ d + 1 = c + 2
    BY <1>2, <2>1
  <2>3. v = SubSeq(s, d + 1, Len(s))
    BY <1>5, <2>2
  <2>4. v \in Seq(Replies) /\ Len(v) = Len(s) - d /\ \A i \in 1 .. Len(s) - d : v[i] = s[d + i]
    BY <2>2, <2>3, Pending
  <2>5. Len(s) - d = Len(s) - c - 1 /\ \A i \in 1 .. Len(s) - d : d + i = c + 1 + i
    BY <1>2, <2>1
  <2> QED
    BY <2>4, <2>5
<1>7. PICK w : w = Tail(u)
  OBVIOUS
<1>8. w \in Seq(Replies) /\ Len(w) = Len(u) - 1 /\ \A i \in 1 .. Len(w) : w[i] = u[i + 1]
  BY <1>3, <1>4, <1>7, HeadTailProperties
<1>9. Len(w) = Len(v)
  BY <1>2, <1>3, <1>6, <1>8
<1>10. ASSUME NEW i \in 1 .. Len(w) PROVE w[i] = v[i]
  <2>1. i + 1 \in 1 .. Len(s) - c /\ i \in 1 .. Len(s) - c - 1 /\ c + (i + 1) = c + 1 + i
    BY <1>2, <1>3, <1>8
  <2> QED
    BY <1>3, <1>6, <1>8, <2>1
<1>11. w = v
  BY <1>6, <1>8, <1>9, <1>10, SeqEqual
<1> QED
  BY <1>1, <1>4, <1>5, <1>7, <1>11

\* What the calls of Clean took.
TakenOf(t) == [i \in 1 .. Len(t) |-> t[i].lines]

\* What was taken, after a call more.
LEMMA TakenMore ==
    ASSUME NEW t \in Seq(Entries), NEW e \in Entries
    PROVE  TakenOf(Append(t, e)) = Append(TakenOf(t), e.lines)
<1>1. PICK u : u = Append(t, e)
  OBVIOUS
<1>2. /\ Len(t) \in Nat /\ Len(u) = Len(t) + 1 /\ u[Len(t) + 1] = e /\ u \in Seq(Entries)
      /\ \A i \in 1 .. Len(t) : u[i] = t[i]
  BY <1>1, LenProperties, AppendProperties
<1>3. ASSUME NEW s \in Seq(Entries)
      PROVE  /\ TakenOf(s) \in Seq(Seq(Lines)) /\ Len(TakenOf(s)) = Len(s)
             /\ \A i \in 1 .. Len(s) : TakenOf(s)[i] = s[i].lines
  <2>1. \A i \in 1 .. Len(s) : s[i] \in Entries
    BY ElementOfSeq
  <2>2. \A i \in 1 .. Len(s) : s[i].lines \in Seq(Lines)
    BY <2>1 DEF Entries
  <2>3. Len(s) \in Nat
    BY LenProperties
  <2> QED
    BY <2>2, <2>3 DEF TakenOf
<1>4. PICK v : v = TakenOf(t)
  OBVIOUS
<1>5. PICK w : w = TakenOf(u)
  OBVIOUS
<1>6. /\ v \in Seq(Seq(Lines)) /\ Len(v) = Len(t) /\ \A i \in 1 .. Len(t) : v[i] = t[i].lines
      /\ w \in Seq(Seq(Lines)) /\ Len(w) = Len(u) /\ \A i \in 1 .. Len(u) : w[i] = u[i].lines
  BY <1>2, <1>3, <1>4, <1>5
<1>7. PICK x \in Seq(Lines) : x = e.lines
  BY DEF Entries
<1>8. PICK y : y = Append(v, x)
  OBVIOUS
<1>9. /\ y \in Seq(Seq(Lines)) /\ Len(y) = Len(v) + 1 /\ y[Len(v) + 1] = x
      /\ \A i \in 1 .. Len(v) : y[i] = v[i]
  BY <1>6, <1>7, <1>8, AppendProperties
<1>10. ASSUME NEW i \in 1 .. Len(w) PROVE w[i] = y[i]
  <2>1. CASE i \in 1 .. Len(t)
    BY <1>2, <1>6, <1>9, <2>1
  <2>2. CASE i = Len(t) + 1
    BY <1>2, <1>6, <1>7, <1>9, <2>2
  <2> QED
    BY <1>2, <1>6, <2>1, <2>2
<1>11. w = y
  BY <1>2, <1>6, <1>9, <1>10, SeqEqual
<1> QED
  BY <1>1, <1>4, <1>5, <1>7, <1>8, <1>11

ToTake == SubSeq(said, Len(Clean) + 1, Len(said))

\* A call that returns takes the next reply, or is not one of Clean.
LEMMA ReturnTakes ==
    ASSUME TypeOK, TypeOK', StreamInv, StreamInv', NEW e \in Entries,
           taken' = Append(taken, e), said' = said
    PROVE  \/ ToTake' = ToTake /\ TakenOf(Clean)' = TakenOf(Clean)
           \/ /\ ToTake # <<>> /\ ToTake' = Tail(ToTake)
              /\ TakenOf(Clean)' = Append(TakenOf(Clean), Head(ToTake))
<1>1. taken \in Seq(Entries) /\ said \in Seq(Replies) /\ Len(taken) \in Nat /\ Len(said) \in Nat
  BY TakenType
<1>2. Clean = CleanOf(taken, said) /\ Clean' = CleanOf(taken', said')
  BY CleanIs DEF Clean, CleanOf, StopsOf
<1>3. Clean' = CleanOf(Append(taken, e), said)
  BY <1>2
<1>4. \/ Clean' = Clean
      \/ Clean = taken /\ Clean' = Append(taken, e)
  BY <1>1, <1>2, <1>3, CleanReturn
<1>5. CASE Clean' = Clean
  BY <1>5 DEF ToTake
<1>6. CASE Clean = taken /\ Clean' = Append(taken, e)
  <2>1. PICK c : c = Len(taken)
    OBVIOUS
  <2>2. c \in Nat /\ Len(Clean) = c /\ Len(Clean') = c + 1 /\ taken'[c + 1] = e
    BY <1>1, <1>6, <2>1, AppendProperties
  <2>3. c + 1 <= Len(said) /\ e.lines = said[c + 1]
    <3>1. Len(Clean') <= Len(said') /\ Told'
      BY DEF StreamInv, OnTrack
    <3>2. c + 1 \in 1 .. Len(Clean')
      BY <2>2
    <3> QED
      BY <2>2, <3>1, <3>2 DEF Told
  <2>4. ToTake = SubSeq(said, c + 1, Len(said)) /\ ToTake' = SubSeq(said, c + 2, Len(said))
    <3>1. Len(Clean') + 1 = c + 2
      BY <2>2
    <3> QED
      BY <2>2, <3>1 DEF ToTake
  <2>5. c < Len(said)
    BY <1>1, <2>2, <2>3
  <2>6. ToTake # <<>> /\ Head(ToTake) = said[c + 1] /\ ToTake' = Tail(ToTake)
    BY <1>1, <2>2, <2>4, <2>5, PendingLess
  <2>7. TakenOf(Append(taken, e)) = Append(TakenOf(taken), e.lines)
    BY <1>1, TakenMore
  <2>8. TakenOf(Clean) = TakenOf(taken) /\ TakenOf(Clean)' = TakenOf(Append(taken, e))
    BY <1>6
  <2> QED
    BY <2>3, <2>6, <2>7, <2>8
<1> QED
  BY <1>4, <1>5, <1>6

\* A new reply is one more to take.
LEMMA StartSays ==
    ASSUME TypeOK, TypeOK', StreamInv, StartReply
    PROVE  /\ TakenOf(Clean)' = TakenOf(Clean)
           /\ \E r \in Replies : ToTake' = Append(ToTake, r)
<1>1. PICK r \in Replies : said' = Append(said, r)
  BY DEF StartReply
<1>2. Clean' = Clean
  BY StartKeeps
<1>3. said \in Seq(Replies) /\ Len(said) \in Nat /\ Len(Clean) \in 0 .. Len(said)
  BY TakenType DEF StreamInv, OnTrack
<1>4. SubSeq(said', Len(Clean) + 1, Len(said')) = Append(SubSeq(said, Len(Clean) + 1, Len(said)), r)
  BY <1>1, <1>3, PendingMore
<1>5. ToTake' = Append(ToTake, r)
  BY <1>2, <1>4 DEF ToTake
<1> QED
  BY <1>2, <1>5

\* Every step is one of ReplyStream, or none: a reply said, the next one taken, or
\* neither.
LEMMA StepTakes ==
    ASSUME TypeOK, TypeOK', StreamInv, StreamInv', [Next]_vars
    PROVE  \/ TakenOf(Clean)' = TakenOf(Clean) /\ \E r \in Replies : ToTake' = Append(ToTake, r)
           \/ ToTake' = ToTake /\ TakenOf(Clean)' = TakenOf(Clean)
           \/ /\ ToTake # <<>> /\ ToTake' = Tail(ToTake)
              /\ TakenOf(Clean)' = Append(TakenOf(Clean), Head(ToTake))
<1>1. CASE StartReply
  BY <1>1, StartSays
<1>2. CASE UNCHANGED <<said, taken>>
  <2>1. Clean' = Clean
    BY <1>2 DEF Clean
  <2> QED
    BY <1>2, <2>1 DEF ToTake
<1>3. ASSUME NEW outcome, NEW lines, Return(outcome, lines), outcome \in Outcomes,
             lines \in Seq(Lines), said' = said
      PROVE  \/ ToTake' = ToTake /\ TakenOf(Clean)' = TakenOf(Clean)
             \/ /\ ToTake # <<>> /\ ToTake' = Tail(ToTake)
                /\ TakenOf(Clean)' = Append(TakenOf(Clean), Head(ToTake))
  <2>1. PICK e \in Entries : e = [outcome |-> outcome, lines |-> lines]
    BY <1>3 DEF Entries
  <2>2. taken' = Append(taken, e)
    BY <1>3, <2>1 DEF Return
  <2> QED
    BY <1>3, <2>2, ReturnTakes
<1>4. CASE ReadLine
  <2>1. UNCHANGED said /\ Append(buffer, Head(wire)) \in Seq(Lines)
    BY <1>4, ReadLineType
  <2>2. CASE UNCHANGED taken
    BY <1>2, <2>1, <2>2
  <2>3. CASE \E outcome \in Outcomes : Return(outcome, Append(buffer, Head(wire)))
    BY <1>3, <2>1, <2>3
  <2> QED
    BY <1>4, <2>2, <2>3, ReadLineType
<1>5. CASE ReadEof \/ Cancel
  <2>1. PICK outcome \in {"io", "cancelled"} : Return(outcome, buffer) /\ UNCHANGED said
    BY <1>5 DEF ReadEof, Cancel
  <2>2. outcome \in Outcomes /\ buffer \in Seq(Lines)
    BY <2>1, TakenType DEF Outcomes
  <2> QED
    BY <1>3, <2>1, <2>2
<1>6. CASE SendLine \/ Close \/ Call \/ UNCHANGED vars
  <2>1. UNCHANGED <<said, taken>>
    BY <1>6 DEF SendLine, Close, Call, vars, reader
  <2> QED
    BY <1>2, <2>1
<1> QED
  BY <1>1, <1>4, <1>5, <1>6 DEF Next, Finished

\* Each call takes the lines of the next reply, all of them and no other, up to the first
\* error that is no reply: read_response implements the stream of whole replies the
\* transport model reads from, whatever the server says that Delimited allows.
THEOREM ReadsWholeReplies == ASSUME Delimited PROVE Spec => WholeReplies
<1>1. Init => Whole!Init
  <2> SUFFICES ASSUME Init PROVE Whole!Init
    OBVIOUS
  <2>1. Clean = <<>> /\ said = <<>>
    BY InitStream DEF Init
  <2>2. Len(<<>>) = 0
    BY EmptySeq
  <2>3. SubSeq(said, Len(Clean) + 1, Len(said)) = <<>>
    <3>1. SubSeq(said, 1, 0) = <<>>
      BY SubSeqEmpty
    <3>2. Len(Clean) + 1 = 1 /\ Len(said) = 0
      BY <2>1, <2>2
    <3> QED
      BY <3>1, <3>2
  <2>4. [i \in 1 .. Len(Clean) |-> Clean[i].lines] = <<>>
    <3>1. Len(Clean) = 0 /\ 1 .. 0 = {}
      BY <2>1, <2>2
    <3>2. [i \in {} |-> Clean[i].lines] = <<>>
      OBVIOUS
    <3> QED
      BY <3>1, <3>2
  <2> QED
    BY <2>3, <2>4 DEF Whole!Init
<1>2. ReaderInv /\ ReaderInv' /\ [Next]_vars => [Whole!Next]_(Whole!vars)
  <2> SUFFICES ASSUME ReaderInv, ReaderInv', [Next]_vars PROVE [Whole!Next]_(Whole!vars)
    OBVIOUS
  <2>1. TypeOK /\ TypeOK' /\ StreamInv /\ StreamInv'
    BY DEF ReaderInv
  <2>2. /\ ToTake = SubSeq(said, Len(Clean) + 1, Len(said))
        /\ TakenOf(Clean) = [i \in 1 .. Len(Clean) |-> Clean[i].lines]
        /\ ToTake' = SubSeq(said, Len(Clean) + 1, Len(said))'
        /\ TakenOf(Clean)' = [i \in 1 .. Len(Clean) |-> Clean[i].lines]'
    BY DEF ToTake, TakenOf
  <2>3. CASE TakenOf(Clean)' = TakenOf(Clean) /\ \E r \in Replies : ToTake' = Append(ToTake, r)
    BY <2>2, <2>3, Zenon DEF Whole!Next, Whole!Say
  <2>4. CASE ToTake' = ToTake /\ TakenOf(Clean)' = TakenOf(Clean)
    BY <2>2, <2>4, Zenon DEF Whole!vars
  <2>5. CASE /\ ToTake # <<>> /\ ToTake' = Tail(ToTake)
             /\ TakenOf(Clean)' = Append(TakenOf(Clean), Head(ToTake))
    BY <2>2, <2>5, Zenon DEF Whole!Next, Whole!Take
  <2> QED
    BY <2>1, <2>3, <2>4, <2>5, StepTakes
<1> QED
  BY <1>1, <1>2, ReaderInvariant, PTL DEF Spec, WholeReplies, Whole!Spec

=============================================================================
