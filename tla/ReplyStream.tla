----------------------------- MODULE ReplyStream -----------------------------
(***************************************************************************)
(* What SmtpTransport relies on when it reads: whole replies come in the   *)
(* order the server said them and each read_response takes the next one.   *)
(* The transport model (Consume in SmtpTransport) reads this way.          *)
(***************************************************************************)
EXTENDS Sequences

CONSTANT Replies

VARIABLES
    said,   \* the replies said and not yet taken
    taken   \* the replies taken, in order

vars == <<said, taken>>

Init == said = <<>> /\ taken = <<>>

Say(r) == said' = Append(said, r) /\ UNCHANGED taken

Take ==
    /\ said # <<>>
    /\ taken' = Append(taken, Head(said))
    /\ said' = Tail(said)

Next == Take \/ \E r \in Replies : Say(r)

Spec == Init /\ [][Next]_vars

=============================================================================
