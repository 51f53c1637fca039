----------------------------- MODULE ReplyReader -----------------------------
(***************************************************************************)
(* SmtpStream::read_response (stream.rs) and parse_response (response.rs): *)
(* how lines become replies.  The reader has no mark of where a reply      *)
(* ends but the separator after the code, and keeps nothing between calls: *)
(* what a call has read and not used is lost.                              *)
(*                                                                         *)
(* A line is what read_line returns, up to a LF: its code, what follows    *)
(* the code, how it ends and whether it is UTF-8; its text is left out.    *)
(* parse_response knows no end of a line but CR LF.                        *)
(***************************************************************************)
EXTENDS Integers, Sequences, SequencesExt

CONSTANTS
    Replies,    \* what a server may say: each reply a sequence of lines
    MaxReplies  \* bound: replies said

\* Three digits, or none at all.
Digits == (0 .. 9) \X (0 .. 9) \X (0 .. 9)
NoDigits == <<>>

\* Severity, Category and Detail: the digits parse_code takes.
Codes == (2 .. 5) \X (0 .. 5) \X (0 .. 9)

\* How a line ends: "none" when the connection closes inside it.
Ends == {"CRLF", "LF", "none"}

Lines == [code : Digits \cup {NoDigits}, sep : {"-", " ", ""}, end : Ends, utf8 : BOOLEAN]

ASSUME RepliesAssumption ==
    /\ Replies \subseteq Seq(Lines) \ {<<>>}
    /\ \A r \in Replies : \A i \in 1 .. Len(r) : r[i].end # "none"
    /\ MaxReplies \in Nat

VARIABLES
    open,     \* the server has not closed the connection
    saying,   \* lines of the current reply the server has yet to send
    wire,     \* lines on their way to the client
    calling,  \* a call of read_response waits
    buffer,   \* the lines that call has read: its local `buffer`
    said,     \* every reply the server started, in order
    taken     \* what each call returned, and the lines it used up

vars == <<open, saying, wire, calling, buffer, said, taken>>
reader == <<calling, buffer, taken>>

Outcomes == {"ok", "transient", "permanent", "parsing", "io", "cancelled"}

TypeOK ==
    /\ open \in BOOLEAN
    /\ saying \in Seq(Lines)
    /\ wire \in Seq(Lines)
    /\ calling \in BOOLEAN
    /\ buffer \in Seq(Lines)
    /\ said \in Seq(Replies) /\ Len(said) <= MaxReplies
    /\ taken \in Seq([outcome : Outcomes, lines : Seq(Lines)])

Init ==
    /\ open = TRUE
    /\ saying = <<>>
    /\ wire = <<>>
    /\ calling = FALSE
    /\ buffer = <<>>
    /\ said = <<>>
    /\ taken = <<>>

-----------------------------------------------------------------------------
(* The server *)

StartReply ==
    /\ open
    /\ saying = <<>>
    /\ Len(said) < MaxReplies
    /\ \E r \in Replies : saying' = r /\ said' = Append(said, r)
    /\ UNCHANGED <<open, wire, reader>>

SendLine ==
    /\ open
    /\ saying # <<>>
    /\ wire' = Append(wire, Head(saying))
    /\ saying' = Tail(saying)
    /\ UNCHANGED <<open, said, reader>>

\* The connection ends, perhaps in the middle of a line that is on its way.
Close ==
    /\ open
    /\ open' = FALSE
    /\ \E n \in 0 .. Len(wire) :
        \/ wire' = SubSeq(wire, 1, n)
        \/ n > 0 /\ wire' = [SubSeq(wire, 1, n) EXCEPT ![n].end = "none"]
    /\ UNCHANGED <<saying, said, reader>>

-----------------------------------------------------------------------------
(* The client *)

\* What parse_response says of lines that are no reply, or not yet: nom's Incomplete,
\* and its Error and Failure.
Incomplete == <<"incomplete">>
Malformed == <<"malformed">>

\* many0 goes on over such lines.
Continues(line) == line.code \in Codes /\ line.sep = "-"

\* A line after a bare LF is text of the one before it.
Start(lines, i) == i = 1 \/ lines[i - 1].end = "CRLF"

\* The line many0 stops at, if it has come.
LastLines(lines) ==
    {i \in DOMAIN lines :
        /\ Start(lines, i) /\ ~Continues(lines[i])
        /\ \A k \in 1 .. i - 1 : Start(lines, k) => Continues(lines[k])}

\* It parses, but for its end.
Final(line) == line.code \in Codes /\ line.sep = " "

\* take_until finds the end of a line.
Ended(lines, i) == \E k \in i .. Len(lines) : lines[k].end = "CRLF"

\* A mutant of parse_response: the codes of the lines are not compared.
parse_response_any_code(lines) ==
    IF LastLines(lines) = {}
      THEN Incomplete
      ELSE LET last == CHOOSE i \in LastLines(lines) : TRUE
           IN  CASE ~Final(lines[last]) -> Malformed
                 [] Final(lines[last]) /\ ~Ended(lines, last) -> Incomplete
                 [] OTHER -> lines[last].code

\* A mutant of parse_response: "250-" ends a reply as "250 " does.
parse_response_first_line(lines) ==
    LET final == lines[1].code \in Codes /\ lines[1].sep # ""
    IN  CASE ~final -> Malformed
          [] final /\ ~Ended(lines, 1) -> Incomplete
          [] OTHER -> lines[1].code

\* Incomplete, Malformed or the code of the reply.
parse_response(lines) ==
    IF LastLines(lines) = {}
      THEN Incomplete
      ELSE LET last == CHOOSE i \in LastLines(lines) : TRUE
               codes == {lines[i].code : i \in {k \in 1 .. last : Start(lines, k)}}
               good == Final(lines[last]) /\ (Ended(lines, last) => codes = {lines[last].code})
           IN  CASE ~good -> Malformed
                 [] good /\ ~Ended(lines, last) -> Incomplete
                 [] OTHER -> lines[last].code

\* is_positive and From<Response> for Error.
Outcome(verdict) ==
    IF verdict \in {Incomplete, Malformed}
      THEN "parsing"
      ELSE CASE verdict[1] \in {2, 3} -> "ok"
             [] verdict[1] = 4 -> "transient"
             [] verdict[1] = 5 -> "permanent"

Call ==
    /\ ~calling
    /\ calling' = TRUE
    /\ UNCHANGED <<open, saying, wire, buffer, said, taken>>

Return(outcome, lines) ==
    /\ taken' = Append(taken, [outcome |-> outcome, lines |-> lines])
    /\ calling' = FALSE
    /\ buffer' = <<>>

\* read_line fails on a line that is not UTF-8, which is used up all the same.
ReadLine ==
    /\ calling
    /\ wire # <<>>
    /\ wire' = Tail(wire)
    /\ LET lines == Append(buffer, Head(wire))
       IN  \/ /\ ~Head(wire).utf8
              /\ Return("io", lines)
           \/ /\ Head(wire).utf8
              /\ parse_response(lines) = Incomplete
              /\ buffer' = lines
              /\ UNCHANGED <<calling, taken>>
           \/ /\ Head(wire).utf8
              /\ parse_response(lines) # Incomplete
              /\ Return(Outcome(parse_response(lines)), lines)
    /\ UNCHANGED <<open, saying, said>>

\* A mutant of ReadEof: only a call that has read nothing sees the end.
ReadEofUnbuffered ==
    /\ calling
    /\ wire = <<>>
    /\ ~open
    /\ buffer = <<>>
    /\ Return("io", buffer)
    /\ UNCHANGED <<open, saying, wire, said>>

\* read_line returns 0: the error "incomplete".
ReadEof ==
    /\ calling
    /\ wire = <<>>
    /\ ~open
    /\ Return("io", buffer)
    /\ UNCHANGED <<open, saying, wire, said>>

\* What is left of a line that lost its start.  (Text that looks like a reply is left
\* out.)
Remnant(line) == [line EXCEPT !.code = NoDigits, !.sep = ""]

\* The future is dropped at its await, with the lines it has read and, as read_line is
\* not cancel-safe, what has come of the next one.
Cancel ==
    /\ calling
    /\ Return("cancelled", buffer)
    /\ \/ UNCHANGED wire
       \/ wire # <<>> /\ wire' = [wire EXCEPT ![1] = Remnant(@)]
    /\ UNCHANGED <<open, saying, said>>

-----------------------------------------------------------------------------

\* Bound: one call more than there are replies, so that the last one may starve.
MayCall == Len(taken) <= MaxReplies

Finished ==
    /\ ~calling /\ ~MayCall
    /\ UNCHANGED vars

Next ==
    \/ StartReply \/ SendLine \/ Close
    \/ MayCall /\ Call
    \/ ReadLine \/ ReadEof \/ Cancel \/ Finished

Spec == Init /\ [][Next]_vars

\* The runtime polls the call; nothing else has to happen.
FairSpec == Spec /\ WF_vars(ReadLine \/ ReadEof)

-----------------------------------------------------------------------------
(* Properties *)

\* RFC 5321, 4.2.1: one code, "-" on every line but the last, and on that one a blank,
\* which a client must be prepared to miss when there is no text.
WellFormed(reply) ==
    /\ reply[1].code \in Codes
    /\ \A i \in 1 .. Len(reply) :
        /\ reply[i].code = reply[1].code
        /\ reply[i].sep \in IF i < Len(reply) THEN {"-"} ELSE {" ", ""}
        /\ reply[i].end = "CRLF" /\ reply[i].utf8

\* The last line is a code and nothing else.
BareCode(reply) == reply[Len(reply)].sep = ""

\* RFC 5321, 4.2.1: a line with a code and a blank ends a reply, and one with a code
\* and "-" does not.  What else a line may be is left open.
Delimited ==
    \A r \in Replies :
        /\ ~Continues(r[Len(r)])
        /\ \A i \in 1 .. Len(r) - 1 : ~Final(r[i])

BareLF(reply) == \E i \in 1 .. Len(reply) : reply[i].end = "LF"

Bad(t) == t.outcome \in {"parsing", "io", "cancelled"}

\* The calls before the first that neither succeeded nor was refused, and before
\* the first reply with a bare LF in it.
Clean ==
    LET stops == {k \in 1 .. Len(taken) :
                    Bad(taken[k]) \/ (k <= Len(said) /\ BareLF(said[k]))}
    IN  IF stops = {} THEN taken ELSE SubSeq(taken, 1, Min(stops) - 1)

\* Up to its first error that is no reply, and for any reply a server may say
\* without a bare LF, each call of read_response takes the lines of the next reply,
\* all of them and no other: the stream is one of whole replies.
Whole == INSTANCE ReplyStream
    WITH said  <- SubSeq(said, Len(Clean) + 1, Len(said)),
         taken <- [i \in 1 .. Len(Clean) |-> Clean[i].lines]

WholeReplies == Whole!Spec

\* The caller is told what the server said: a call that returns a reply returns a
\* well-formed one, with the severity of its code, so that a reply with two codes is never
\* a success; and the first error that is no reply comes from a reply that is not
\* well-formed, a closed connection or a dropped call.  The one exception is a bare
\* code: it is well-formed, and response.rs:123 calls the text optional, but parse_response
\* demands the blank (response.rs:231) and makes a parsing error of it.
RightVerdict ==
    /\ \A i \in 1 .. Len(Clean) :
        WellFormed(said[i]) /\ Clean[i].outcome = Outcome(said[i][1].code)
    /\ LET next == Len(Clean) + 1
       IN  next <= Len(taken) /\ taken[next].outcome = "parsing" =>
               ~WellFormed(said[next]) \/ BareCode(said[next])

\* Whatever the server says and however the calls before it ended, read_response
\* never returns Ok over a refusal, but for one: a refusal that comes after a
\* bare LF is text of the reply before it.
RefusalSeen ==
    \A i \in 1 .. Len(taken) : taken[i].outcome = "ok" =>
        \A k \in 1 .. Len(taken[i].lines) :
            taken[i].lines[k].code \in Codes /\ taken[i].lines[k].code[1] \in {4, 5} =>
                k > 1 /\ taken[i].lines[k - 1].end = "LF"

\* A call returns, or is dropped, once a line that ends a reply is on its way, well
\* formed or not, or the connection is closed: of all lines only one that follows
\* a bare LF, or ends in one, leaves it waiting.
ReaderReturns ==
    LET lines == buffer \o wire
        ended == \E i \in 1 .. Len(lines) :
                    /\ Start(lines, i)
                    /\ ~Continues(lines[i])
                    /\ lines[i].end = "CRLF"
    IN  (calling /\ (~open \/ ended)) ~> ~calling

=============================================================================
