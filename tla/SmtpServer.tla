----------------------------- MODULE SmtpServer -----------------------------
(***************************************************************************)
(* The environment of async-smtp: one TCP connection at a time and the     *)
(* SMTP server (RFC 5321, RFC 2920) at its other end.  The repository has  *)
(* no server; this one does what smtp_client.rs and stream.rs rely on: it  *)
(* takes commands in order, answers each with one reply, may refuse any of *)
(* them, reads everything after 354 as content up to the final dot, and    *)
(* may close the connection or lose it at any time.                        *)
(***************************************************************************)
EXTENDS SmtpWire

CONSTANTS
    Window,     \* commands, and replies, that fit in the buffers of the connection
    MaxFaults   \* bound: shutdowns, lost connections and garbled replies

ASSUME ServerAssumption == Window \in Nat \ {0} /\ MaxFaults \in Nat

VARIABLES
    link,       \* "up" while both ends can still write to each other
    c2s,        \* commands on their way to the server
    s2c,        \* replies on their way to the client
    smode,      \* what the server does with the next thing it reads
    txn,        \* the mail transaction the server has open
    offers,     \* the EHLO keywords the server offered in the current session
    delivered,  \* messages the server accepted responsibility for, in order
    faults      \* faults so far

wire == <<link, c2s, s2c>>
server == <<smode, txn, offers, delivered>>
serverVars == <<link, c2s, s2c, smode, txn, offers, delivered, faults>>

ServerModes == {"greet", "command", "sasl", "data", "tls", "closed"}

\* `intact` is lost once the text of a command has been read as content.
Transactions == [from : Emails \cup {NoEmail}, to : SUBSET (Emails \X Nat), intact : BOOLEAN]

NoTransaction == [from |-> NoEmail, to |-> {}, intact |-> TRUE]

Messages == [from : Emails, to : SUBSET (Emails \X Nat), intact : BOOLEAN, body : Emails]

ServerTypeOK ==
    /\ link \in {"up", "down"}
    /\ c2s \in Seq(Commands)
    /\ s2c \in Seq(Replies)
    /\ smode \in ServerModes
    /\ txn \in Transactions
    /\ txn.to # {} => txn.from \in Emails
    /\ offers \in SUBSET Features
    /\ delivered \in Seq(Messages)
    /\ faults \in 0 .. MaxFaults

ServerInit ==
    /\ link = "down"
    /\ c2s = <<>>
    /\ s2c = <<>>
    /\ smode = "closed"
    /\ txn = NoTransaction
    /\ offers = {}
    /\ delivered = <<>>
    /\ faults = 0

-----------------------------------------------------------------------------
(* One action per thing the server may do with what it reads *)

\* A server whose replies nobody reads blocks before it takes another command.
RoomForReply == link = "up" => Len(s2c) < Window

\* Replies written once the connection is down reach nobody.
Say(reply) == s2c' = IF link = "up" THEN Append(s2c, reply) ELSE s2c

Answer(reply) == RoomForReply /\ Say(reply)

\* `reply`, then k replies to lines the client does not know it has written.
Strays(cmd, k) == [i \in 1 .. k |-> Reply("PermanentNegative", cmd)]

AnswerMore(reply, k) ==
    /\ RoomForReply
    /\ s2c' = IF link = "up" THEN Append(s2c, reply) \o Strays(reply.to, k) ELSE s2c

Take(verbs) == c2s # <<>> /\ Head(c2s).verb \in verbs /\ c2s' = Tail(c2s)

SGreet ==
    /\ smode = "greet"
    /\ \/ /\ Answer(Reply("PositiveCompletion", Greeting))
          /\ smode' = "command"
       \/ /\ \E sev \in Negative : Answer(Reply(sev, Greeting))
          /\ smode' = "closed"
    /\ UNCHANGED <<link, c2s, txn, offers, delivered, faults>>

\* A server that leaves the first line of its reply empty has no "name" to read.
SEhlo ==
    /\ smode = "command"
    /\ Take({"EHLO"})
    /\ \E words \in SUBSET Words :
        /\ Answer([severity |-> "PositiveCompletion", to |-> Head(c2s), words |-> words])
        /\ offers' = words \ {"name"}
    /\ txn' = NoTransaction
    /\ UNCHANGED <<link, smode, delivered, faults>>

\* A MAIL inside a transaction is refused (SRefuse) or starts over.
SMail ==
    /\ smode = "command"
    /\ Take({"MAIL"})
    /\ Answer(Reply("PositiveCompletion", Head(c2s)))
    /\ txn' = [from |-> Head(c2s).email, to |-> {}, intact |-> TRUE]
    /\ UNCHANGED <<link, smode, offers, delivered, faults>>

SRcpt ==
    /\ smode = "command"
    /\ txn.from # NoEmail
    /\ Take({"RCPT"})
    /\ Answer(Reply("PositiveCompletion", Head(c2s)))
    /\ txn' = [txn EXCEPT !.to = @ \cup {<<Head(c2s).email, Head(c2s).n>>}]
    /\ UNCHANGED <<link, smode, offers, delivered, faults>>

\* RFC 2920, 3.1: DATA may get 354 even when every recipient was refused.
SData ==
    /\ smode = "command"
    /\ txn.from # NoEmail
    /\ Take({"DATA"})
    /\ Answer(Reply("PositiveIntermediate", Head(c2s)))
    /\ smode' = "data"
    /\ UNCHANGED <<link, txn, offers, delivered, faults>>

\* RFC 4954: what the server says to AUTH, or to the answer to a challenge of it.
Verdicts == {"PositiveCompletion", "Challenge"} \cup Negative

ModeAfter(sev) == IF sev = "Challenge" THEN "sasl" ELSE "command"

SAuth ==
    /\ smode = "command"
    /\ Take({"AUTH"})
    /\ \E sev \in {"PositiveCompletion", "Challenge"} :
        /\ Answer(Reply(sev, Head(c2s)))
        /\ smode' = ModeAfter(sev)
    /\ UNCHANGED <<link, txn, offers, delivered, faults>>

\* After a challenge the next line, whatever it is, is the answer to it.
SSasl ==
    /\ smode = "sasl"
    /\ Take((PlainVerbs \cup ScriptVerbs) \ Fragments)
    /\ \E sev \in Verdicts, k \in 0 .. (IF Head(c2s).verb = "BODY" THEN 1 ELSE 0) :
        /\ AnswerMore(Reply(sev, Head(c2s)), k)
        /\ smode' = ModeAfter(sev)
    /\ UNCHANGED <<link, txn, offers, delivered, faults>>

\* Any command but QUIT may be refused; content outside DATA is read as a few
\* unknown commands.
SRefuse ==
    /\ smode = "command"
    /\ Take({"EHLO", "AUTH", "SASL", "STARTTLS"} \cup ScriptVerbs)
    /\ \E sev \in Negative, k \in 0 .. (IF Head(c2s).verb = "BODY" THEN 1 ELSE 0) :
        AnswerMore(Reply(sev, Head(c2s)), k)
    /\ UNCHANGED <<link, smode, txn, offers, delivered, faults>>

\* An empty message is written with two final dots: the server takes the first
\* and answers the blank line and the dot that follow as unknown commands.
SBody ==
    LET email == Head(c2s).email
        strays == IF email \in EmptyMessages THEN 1 .. 2 ELSE {0}
    IN  /\ smode = "data"
        /\ Take({"BODY"})
        /\ \E k \in strays :
            \/ /\ txn.to # {}
               /\ AnswerMore(Reply("PositiveCompletion", Head(c2s)), k)
               /\ delivered' = Append(delivered,
                      [from |-> txn.from, to |-> txn.to, intact |-> txn.intact, body |-> email])
            \/ /\ \E sev \in Negative :
                   AnswerMore(Reply(sev, Head(c2s)), k)
               /\ UNCHANGED delivered
        /\ smode' = "command"
        /\ txn' = NoTransaction
        /\ UNCHANGED <<link, offers, faults>>

\* After 354 a command line is content like any other.
SAbsorb ==
    /\ smode = "data"
    /\ Take((PlainVerbs \cup ScriptVerbs) \ {"BODY"})
    /\ txn' = [txn EXCEPT !.intact = FALSE]
    /\ UNCHANGED <<link, s2c, smode, offers, delivered, faults>>

\* A line cut short and the one written after it are one line, which is no command but
\* may answer a challenge.  A piece of content may be several.
SGlue ==
    /\ smode \in {"command", "sasl"}
    /\ Len(c2s) > 1
    /\ Head(c2s).verb \in Fragments
    /\ LET rest == Tail(c2s)
           more == IF Head(c2s) = Piece THEN 0 .. 1 ELSE {0}
       IN  \/ /\ Head(rest).verb \in Fragments
              /\ c2s' = <<Head(c2s)>> \o Tail(rest)
              /\ UNCHANGED <<s2c, smode>>
           \/ /\ Head(rest).verb \notin Fragments
              /\ c2s' = Tail(rest)
              /\ \E sev \in IF smode = "sasl" THEN Verdicts ELSE Negative, k \in more :
                  /\ AnswerMore(Reply(sev, Head(rest)), k)
                  /\ smode' = ModeAfter(sev)
    /\ UNCHANGED <<link, txn, offers, delivered, faults>>

SQuit ==
    /\ smode = "command"
    /\ Take({"QUIT"})
    /\ Answer(Reply("PositiveCompletion", Head(c2s)))
    /\ smode' = "closed"
    /\ txn' = NoTransaction
    /\ UNCHANGED <<link, offers, delivered, faults>>

SStarttls ==
    /\ smode = "command"
    /\ "STARTTLS" \in offers
    /\ Take({"STARTTLS"})
    /\ Answer(Reply("PositiveCompletion", Head(c2s)))
    /\ smode' = "tls"
    /\ UNCHANGED <<link, txn, offers, delivered, faults>>

\* What is still in flight when the server has closed is read by nobody.
SDiscard ==
    /\ smode = "closed"
    /\ c2s # <<>>
    /\ c2s' = Tail(c2s)
    /\ UNCHANGED <<link, s2c, smode, txn, offers, delivered, faults>>

\* The server sees the end of the stream, perhaps before the end of a line, and
\* forgets the transaction.
SHangup ==
    /\ link = "down"
    /\ smode # "closed"
    /\ c2s = <<>> \/ (Len(c2s) = 1 /\ Head(c2s).verb \in Fragments)
    /\ c2s' = <<>>
    /\ smode' = "closed"
    /\ txn' = NoTransaction
    /\ UNCHANGED <<link, s2c, offers, delivered, faults>>

ServerStep ==
    \/ SGreet \/ SEhlo \/ SAuth \/ SSasl \/ SMail \/ SRcpt \/ SData \/ SRefuse
    \/ SBody \/ SAbsorb \/ SGlue \/ SQuit \/ SStarttls \/ SDiscard \/ SHangup

-----------------------------------------------------------------------------
(* Faults *)

Fault == faults < MaxFaults /\ faults' = faults + 1

\* The server shuts down: it says 421 on its own and closes.
SShutdown ==
    /\ Fault
    /\ smode \in {"greet", "command", "sasl", "data"}
    /\ Say(Reply("TransientNegative", Unsolicited))
    /\ smode' = "closed"
    /\ txn' = NoTransaction
    /\ UNCHANGED <<link, c2s, offers, delivered>>

\* The connection breaks; either end still gets a prefix of what was in flight.
LoseConnection ==
    /\ Fault
    /\ link = "up"
    /\ link' = "down"
    /\ \E i \in 0 .. Len(c2s) : c2s' = SubSeq(c2s, 1, i)
    /\ \E i \in 0 .. Len(s2c) : s2c' = SubSeq(s2c, 1, i)
    /\ UNCHANGED server

\* The newest reply is no reply read_response accepts.
GarbleReply ==
    /\ Fault
    /\ s2c # <<>>
    /\ \E sev \in {"Malformed", "NotText"} : s2c' = [s2c EXCEPT ![Len(s2c)] = Reply(sev, @.to)]
    /\ UNCHANGED <<link, c2s, smode, txn, offers, delivered>>

NetworkStep == SShutdown \/ LoseConnection \/ GarbleReply

=============================================================================
