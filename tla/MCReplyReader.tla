---------------------------- MODULE MCReplyReader ----------------------------
(* An instance of ReplyReader for TLC. *)
EXTENDS ReplyReader

Line(code, sep) == [code |-> code, sep |-> sep, end |-> "CRLF", utf8 |-> TRUE]

MCWellFormed ==
    {<<Line(<<4, 2, 1>>, " ")>>,
     <<Line(<<2, 5, 0>>, "-"), Line(<<2, 5, 0>>, " ")>>}

\* A reply that changes its mind, one whose first line is not UTF-8, one ended by a
\* bare LF, one that is a code and nothing else, and one whose codes differ in a digit.
MCMalformed ==
    {<<Line(<<5, 5, 0>>, "-"), Line(<<2, 5, 0>>, " ")>>,
     <<[Line(<<2, 5, 0>>, "-") EXCEPT !.utf8 = FALSE], Line(<<2, 5, 0>>, " ")>>,
     <<[Line(<<2, 5, 0>>, " ") EXCEPT !.end = "LF"]>>,
     <<Line(<<2, 5, 0>>, "")>>,
     <<Line(<<2, 5, 0>>, "-"), Line(<<2, 6, 0>>, " ")>>}

MCReplies == MCWellFormed \cup MCMalformed

\* What the theorems of ReplyReaderProofs assume of the replies holds of these.
ASSUME MCDelimited == Delimited

=============================================================================
