----------------------------- MODULE TextSession -----------------------------
(***************************************************************************)
(* Commands as text on the stream: SmtpTransport writes each with          *)
(* write_all (stream.rs), which hands it over piece by piece, its caller   *)
(* may drop the future in between, and the server finds the lines again    *)
(* by their CR LF.  SmtpTransport takes for granted what is checked here:  *)
(* a command written is one line, read as it was meant, and one cut short  *)
(* makes one unknown line of itself and the next (SGlue in SmtpServer):     *)
(* CommandStream says this of the whole session.                           *)
(***************************************************************************)
EXTENDS CommandText

CONSTANTS
    EhloReplies,  \* the texts of the reply to EHLO: each a sequence of lines of words
    ClientIds,    \* SmtpClient::hello_name: pairs of kind and text
    Addresses,    \* the texts a caller tries EmailAddress::new on
    SmtpUtf8,     \* SmtpClient::smtp_utf8
    OtherCommands, \* commands a caller may write and `send` does not
    MaxCommands   \* bound: commands written

\* The end of a line is in no text that the crate writes as it is given.
ASSUME TextAssumption ==
    /\ EhloReplies \subseteq Seq(Seq(STRING)) \ {<<>>}
    /\ ClientIds \subseteq {"Domain", "Ipv4", "Ipv6"} \X Seq(STRING \ {"CR", "LF"})
    /\ Addresses \subseteq Seq(Characters)
    /\ SmtpUtf8 \in BOOLEAN
    /\ OtherCommands \subseteq OneLiners
    /\ MaxCommands \in Nat \ {0}

VARIABLES
    reply,        \* what the server answers to EHLO
    server_info,  \* SmtpTransport::server_info
    todo,         \* what write_all has still to hand over
    stream,       \* text on its way to the server
    meant,        \* the commands the caller wrote, and whether it cut them short
    read          \* the commands the server read, one for each line

vars == <<reply, server_info, todo, stream, meant, read>>

Init ==
    /\ reply \in EhloReplies
    /\ server_info = NoInfo
    /\ todo = <<>>
    /\ stream = <<>>
    /\ meant = <<>>
    /\ read = <<>>

-----------------------------------------------------------------------------
(* The client *)

\* write_all starts on the text of a command.
Start(cmd) ==
    /\ todo = <<>>
    /\ Len(meant) < MaxCommands
    /\ todo' = Display(cmd)
    /\ meant' = Append(meant, [cmd |-> cmd, cut |-> FALSE])

EhloCommands == {Command("EHLO", id[1], id[2], <<>>) : id \in ClientIds}

Ehlo ==
    /\ meant = <<>>
    /\ \E cmd \in EhloCommands : Start(cmd)
    /\ UNCHANGED <<reply, server_info, stream, read>>

\* SmtpTransport::new returns with the features, or an error.
ReadEhloReply ==
    /\ server_info = NoInfo
    /\ Len(read) = 1
    /\ from_response(reply) # NoInfo
    /\ server_info' = from_response(reply)
    /\ UNCHANGED <<reply, todo, stream, meant, read>>

supports_feature(f) == f \in server_info.features

mail_options ==
    (IF supports_feature(<<"8BITMIME">>) THEN <<BodyOption>> ELSE <<>>)
    \o (IF supports_feature(<<"SMTPUTF8">>) /\ SmtpUtf8 THEN <<Utf8Option>> ELSE <<>>)

\* The commands of `send` with some options; an envelope without a sender has an empty
\* path.
Sending(options) ==
    LET accepted == {a \in Addresses : EmailAddress_new(a)}
    IN  {Command("MAIL", "none", a, options) : a \in accepted \cup {<<>>}}
        \cup {Command("RCPT", "none", a, <<>>) : a \in accepted}
        \cup {Bare("DATA")}

SendCommands == Sending(mail_options)

\* Which of its steps `send` takes when is the matter of SmtpTransport.
Issue ==
    /\ server_info # NoInfo
    /\ \E cmd \in SendCommands \cup OtherCommands : Start(cmd)
    /\ UNCHANGED <<reply, server_info, stream, read>>

\* A mutant of Flow: after a write of some of the text all of it is handed over again.
FlowAgain ==
    /\ \E n \in 1 .. Len(todo) :
        /\ stream' = stream \o SubSeq(todo, 1, n)
        /\ todo' = IF n = Len(todo) THEN <<>> ELSE todo
    /\ UNCHANGED <<reply, server_info, meant, read>>

\* poll_write takes some of the text, or all.
Flow ==
    /\ \E n \in 1 .. Len(todo) :
        /\ stream' = stream \o SubSeq(todo, 1, n)
        /\ todo' = SubSeq(todo, n + 1, Len(todo))
    /\ UNCHANGED <<reply, server_info, meant, read>>

\* The caller drops the future of `send` in the middle of a write and goes on with
\* its transport.
Cut ==
    /\ server_info # NoInfo
    /\ todo # <<>>
    /\ todo' = <<>>
    /\ IF todo = Display(Last(meant).cmd)
         THEN meant' = Front(meant)
         ELSE meant' = [meant EXCEPT ![Len(meant)].cut = TRUE]
    /\ UNCHANGED <<reply, server_info, stream, read>>

-----------------------------------------------------------------------------
(* The server *)

\* The first CR LF of the stream.
LineEnds == {i \in 1 .. Len(stream) - 1 : stream[i] = "CR" /\ stream[i + 1] = "LF"}

ReadLine ==
    /\ LineEnds # {}
    /\ read' = Append(read, ReadCommand(SubSeq(stream, 1, Min(LineEnds) - 1)))
    /\ stream' = SubSeq(stream, Min(LineEnds) + 2, Len(stream))
    /\ UNCHANGED <<reply, server_info, todo, meant>>

-----------------------------------------------------------------------------

\* No transport, or no more commands.
Finished ==
    /\ LineEnds = {} /\ todo = <<>>
    /\ Len(meant) = MaxCommands \/ (Len(read) = 1 /\ from_response(reply) = NoInfo)
    /\ UNCHANGED vars

Next == Ehlo \/ ReadEhloReply \/ Issue \/ Flow \/ Cut \/ ReadLine \/ Finished

Spec == Init /\ [][Next]_vars

-----------------------------------------------------------------------------
(* Properties *)

\* The commands written to their end: each is the end of a line.
Whole == {i \in DOMAIN meant : ~meant[i].cut}

\* The lines read, but for any the server made of a command still to be ended.
LinesRead == {n \in DOMAIN read : n <= Cardinality(Whole)}

\* The one that ended the n-th line.
Ender(n) == CHOOSE i \in Whole : Cardinality({k \in Whole : k <= i}) = n

\* The commands that went into the n-th line: it and those cut short before it.
Parts(n) == {i \in 1 .. Ender(n) : \A k \in i .. Ender(n) - 1 : meant[k].cut}

\* util.rs:20 writes a character below 16 with one digit.
OneDigit(cmd) ==
    \E p \in ToSet(cmd.params) : \E c \in ToSet(p.value) :
        c \in Characters /\ CodePoint[c] < 16

\* The server reads what the caller meant, command for command, with the same address,
\* client id and parameters: no address EmailAddress::new takes, and no value XText
\* encodes, can end its field or its line.  The one exception is a value with a
\* character below 16, which is always misread.
ReadAsMeant ==
    \A n \in LinesRead : Cardinality(Parts(n)) = 1 =>
        (read[n] = meant[Ender(n)].cmd <=> ~OneDigit(meant[Ender(n)].cmd))

\* A command of `send` that its caller cuts short, and whatever is written after it,
\* are one line, which the server takes for no command: what was cut is never
\* carried out, and neither is what follows.
CutIsRefused ==
    \A n \in LinesRead :
        (Cardinality(Parts(n)) > 1 /\ \A i \in Parts(n) \ {Ender(n)} : meant[i].cmd \in SendCommands)
            => read[n] = Unknown

\* A server that spells its keywords in capitals, and whose name is none, has all the
\* features it offers used, and no other.
FeaturesRead ==
    LET shouted == \A line \in ToSet(reply) : ToSet(line) \cap DOMAIN Upper = {}
    IN  (server_info # NoInfo /\ server_info.name \notin Keywords \cup {"AUTH"} /\ shouted)
            => server_info.features = Offered(reply)

\* However the server spells them, it reads no parameter in a MAIL of `send` that it
\* has not offered, unless its name is a keyword.
ParametersOffered ==
    (server_info # NoInfo /\ server_info.name \notin Keywords) =>
        \A n \in LinesRead :
            (read[n].verb = "MAIL" /\ \A i \in Parts(n) : meant[i].cmd \in SendCommands) =>
                \A p \in ToSet(read[n].params) :
                    <<IF p.keyword = "BODY" THEN "8BITMIME" ELSE p.keyword>> \in Offered(reply)

\* The commands whose line has been read.
Done == IF read = <<>> THEN 0 ELSE Ender(Len(read))

EverSent == UNION {Sending(options) : options \in MailOptions}

\* Commands that lack what their verb asks for, or whose value is misread.
Doubtful ==
    {cmd \in EhloCommands : ~IdRead(cmd.kind, cmd.text)}
    \cup {cmd \in OtherCommands : cmd \notin WellFormed \/ OneDigit(cmd)}

Stream == INSTANCE CommandStream
    WITH Commands <- EhloCommands \cup EverSent \cup OtherCommands,
         Refused  <- EverSent,
         written  <- SubSeq(meant, Done + 1, Len(meant))

\* Whatever pieces the text comes in and wherever it is cut, the server reads commands:
\* whole and in the order in which they were written, each line that of one command, or
\* of some cut short and the next whole one, which is no command if a cut one of `send`
\* is the first.
WholeCommands == Stream!Spec

\* When all that was handed over is read, the server has read one line for each command
\* written to its end: none leaves it waiting for the end of a line, and none is two.
OneLineEach ==
    (todo = <<>> /\ LineEnds = {}) => Len(read) = Cardinality(Whole)

=============================================================================
