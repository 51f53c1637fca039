------------------------------ MODULE SmtpWire ------------------------------
(***************************************************************************)
(* What travels between async-smtp and an SMTP server: the commands the    *)
(* client writes (commands.rs), the replies it reads back (response.rs)    *)
(* and, for one email, the script of commands SmtpTransport::send goes     *)
(* through (smtp_client.rs).                                               *)
(*                                                                         *)
(* Addresses, texts and message bodies are abstracted: a command is known  *)
(* by its verb, the email it belongs to and, for RCPT, the index of the    *)
(* recipient in the envelope.  Step ScriptLength(e) of an email is the     *)
(* content that SmtpStream::message writes after DATA.                     *)
(***************************************************************************)
EXTENDS Integers, Sequences, FiniteSets

CONSTANTS
    Emails,         \* the SendableEmail values handed to the transport
    NoEmail,        \* stands for "no email"
    RcptCount,      \* RcptCount[e]: the number of recipients of the envelope
    EmptyMessages,  \* the emails whose message has no byte at all
    Features        \* the EHLO keywords a server may offer

ASSUME EmailAssumption == NoEmail \notin Emails /\ EmptyMessages \subseteq Emails

\* Envelope::new refuses an envelope without recipients (types.rs).
ASSUME RcptAssumption == RcptCount \in [Emails -> Nat \ {0}]

\* "name" is the first word of the EHLO reply, which is no keyword.
ASSUME FeatureAssumption == "name" \notin Features

-----------------------------------------------------------------------------
(* Commands *)

Fragments == {"fragment", "piece"}
PlainVerbs ==
    {"EHLO", "AUTH", "SASL", "STARTTLS", "QUIT", "greeting", "unsolicited"} \cup Fragments
ScriptVerbs == {"MAIL", "RCPT", "DATA", "BODY"}

Commands ==
    [verb : PlainVerbs, email : {NoEmail}, n : {0}] \cup
    [verb : ScriptVerbs, email : Emails, n : Nat]

\* A command that belongs to no email.  "SASL" is the answer to a challenge of AUTH, a
\* line without a verb.
Plain(v) == [verb |-> v, email |-> NoEmail, n |-> 0]

\* The server's greeting answers no command, nor does a 421 it sends on its own.
Greeting == Plain("greeting")
Unsolicited == Plain("unsolicited")

\* What a write leaves behind when its future is dropped: a command line without its
\* end, or some of the content.  TextSession shows what the next line makes of it.
Fragment == Plain("fragment")
Piece == Plain("piece")

DataStep(e) == RcptCount[e] + 2
\* A mutant of ScriptLength: `send` returns on the reply to DATA.
ScriptLengthShort(e) == RcptCount[e] + 2

ScriptLength(e) == RcptCount[e] + 3

\* The k-th thing `send` writes for e: MAIL, one RCPT per recipient, DATA, content.
Step(e, k) ==
    [verb  |-> CASE k = 1 -> "MAIL"
                 [] k \in 2 .. RcptCount[e] + 1 -> "RCPT"
                 [] k = DataStep(e) -> "DATA"
                 [] OTHER -> "BODY",
     email |-> e,
     n     |-> k]

\* The recipients of e's envelope, each named by the step that declares it.
Envelope(e) == {e} \X (2 .. RcptCount[e] + 1)

-----------------------------------------------------------------------------
(* Replies *)

Negative == {"TransientNegative", "PermanentNegative"}
Positive == {"PositiveCompletion", "PositiveIntermediate", "Challenge"}

\* Severity of the reply code, 334 apart from the other PositiveIntermediate, or what
\* read_response makes no reply of: text parse_response rejects, bytes that are no text.
Severities == Positive \cup Negative \cup {"Malformed", "NotText"}

Words == Features \cup {"name"}

\* `to`, which no client can see, is the command the server answers; `words`
\* are the keywords of an EHLO reply.
Replies == [severity : Severities, to : Commands, words : SUBSET Words]

Reply(severity, to) == [severity |-> severity, to |-> to, words |-> {}]

\* A mutant of is_positive: 4yz passes for success.
is_positive_lax(reply) == reply.severity \in Positive \cup {"TransientNegative"}

is_positive(reply) == reply.severity \in Positive

\* A mutant of ErrorKind: text that is no reply counts as a refusal.
ErrorKindGuessed(reply) ==
    IF reply.severity = "TransientNegative" THEN "transient" ELSE "permanent"

\* What read_response returns as an error for a reply that is not positive.
ErrorKind(reply) ==
    CASE reply.severity = "TransientNegative" -> "transient"
      [] reply.severity = "PermanentNegative" -> "permanent"
      [] reply.severity = "NotText" -> "io"
      [] OTHER -> "parsing"

=============================================================================
