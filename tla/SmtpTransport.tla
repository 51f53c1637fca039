---------------------------- MODULE SmtpTransport ----------------------------
(***************************************************************************)
(* The client side of async-smtp (smtp_client.rs, stream.rs): one          *)
(* SmtpTransport at a time over one stream, its calls new, auth, send,     *)
(* quit and starttls cut at every await, together with the caller that     *)
(* owns it and the server and network of module SmtpServer.  What the      *)
(* lines of a login say is in SaslExchange.                                *)
(*                                                                         *)
(* The crate has no timeout and no retry: what the caller does with an     *)
(* error, and when it gives up waiting, is part of the model (Reuse,       *)
(* Cancel, Abandon, Drop).                                                 *)
(***************************************************************************)
EXTENDS SmtpServer

CONSTANTS
    Pipelining,         \* SmtpClient::pipelining (the default is true)
    SmtpUtf8,           \* SmtpClient::smtp_utf8
    UnreadableMessages, \* emails whose Message::Reader may fail when it is read
    Challenges,         \* challenges `auth` answers before it gives up (10)
    Reuse,              \* errors of auth, send and quit after which the caller keeps the
                        \* transport: "cancelled" when it drops the future of one of them,
                        \* "between" when it drops that of `send` between two commands
    MaxConns            \* bound: connections the caller opens

ASSUME ClientAssumption ==
    /\ Pipelining \in BOOLEAN
    /\ SmtpUtf8 \in BOOLEAN
    /\ UnreadableMessages \subseteq Emails
    /\ Challenges \in Nat \ {0}
    /\ Reuse \subseteq {"transient", "permanent", "parsing", "io", "challenge", "reader",
                        "cancelled", "between"}
    /\ MaxConns \in Nat

VARIABLES
    pc,            \* the await the caller is at, or "idle" / "dropped"
    email,         \* the email of the current call of `send`
    sent,          \* steps of its script, or lines of the login, written
    acked,         \* how many of them are answered positively
    pipelining,    \* `pipelining` of the current call
    mail_options,  \* keywords whose parameters its MAIL carries
    server_info,   \* SmtpTransport::server_info: the features parsed from EHLO
    result,        \* what `send` returned for each email
    conns          \* connections opened so far

call == <<email, sent, acked, pipelining, mail_options>>
clientVars == <<pc, call, server_info, result, conns>>
vars == <<serverVars, clientVars>>

AwaitsReply == {"greeting", "ehlo", "auth", "send", "quit", "starttls"}
PCs == AwaitsReply \cup {"hello", "challenged", "idle", "upgrade", "dropped"}

\* The errors of `send` that say the server did not take the message.
Rejections == {"transient", "permanent", "reader"}
Results == {"unsent", "sending", "ok", "parsing", "io", "cancelled"} \cup Rejections

ClientTypeOK ==
    /\ pc \in PCs
    /\ email \in Emails \cup {NoEmail}
    /\ pc = "send" => email \in Emails
    /\ sent \in Nat
    /\ acked \in 0 .. sent
    /\ pc = "auth" => acked < sent
    /\ pipelining \in BOOLEAN
    /\ mail_options \in SUBSET {"8BITMIME", "SMTPUTF8"}
    /\ server_info \in SUBSET Features
    /\ result \in [Emails -> Results]
    /\ conns \in 0 .. MaxConns

TypeOK == ServerTypeOK /\ ClientTypeOK

Init ==
    /\ ServerInit
    /\ pc = "dropped"
    /\ email = NoEmail
    /\ sent = 0
    /\ acked = 0
    /\ pipelining = FALSE
    /\ mail_options = {}
    /\ server_info = {}
    /\ result = [e \in Emails |-> "unsent"]
    /\ conns = 0

-----------------------------------------------------------------------------
(* The stream: stream.rs *)

\* A mutant of Write: the buffer is never flushed.
WriteUnflushed(cmd) ==
    /\ link = "up" => Len(c2s) < Window
    /\ UNCHANGED c2s

\* write_all and flush wait for room; what is written once the other end is gone
\* may seem to succeed and reaches nobody (else WriteFails).
Write(cmd) ==
    /\ link = "up" => Len(c2s) < Window
    /\ c2s' = IF link = "up" THEN Append(c2s, cmd) ELSE c2s

\* read_response takes the next reply, whatever it answers.
ReplyArrived == s2c # <<>>
response == Head(s2c)
Consume == s2c' = Tail(s2c) /\ UNCHANGED link

\* A mutant of EndOfStream: a read of 0 bytes is no end while the link is up.
EndOfLink == s2c = <<>> /\ link = "down"

EndOfStream == s2c = <<>> /\ (link = "down" \/ smode = "closed")

DropTransport ==
    /\ pc' = "dropped"
    /\ link' = "down"
    /\ s2c' = <<>>

\* An error of a call that borrows the transport: it is the caller who decides
\* whether to go on with it.
KeepOrDrop(kind, unread) ==
    IF kind \in Reuse
      THEN pc' = "idle" /\ s2c' = unread /\ UNCHANGED link
      ELSE DropTransport

\* A mutant of Resets: the count of positive replies outlives the call.
ResetsButAcked ==
    /\ email' = NoEmail
    /\ sent' = 0
    /\ acked' = acked
    /\ pipelining' = FALSE
    /\ mail_options' = {}

\* The locals of `send` are gone.
Resets ==
    /\ email' = NoEmail
    /\ sent' = 0
    /\ acked' = 0
    /\ pipelining' = FALSE
    /\ mail_options' = {}

-----------------------------------------------------------------------------
(* SmtpTransport::new *)

\* A mutant of Connect: without_greeting where there is one.
ConnectWithoutGreeting ==
    /\ pc = "dropped"
    /\ conns < MaxConns
    /\ smode = "closed"
    /\ c2s = <<>>
    /\ pc' = "hello"
    /\ conns' = conns + 1
    /\ link' = "up"
    /\ smode' = "greet"
    /\ offers' = {}
    /\ UNCHANGED <<c2s, s2c, txn, delivered, faults, call, server_info, result>>

\* The caller opens a stream and calls `new` on it.  The server is modelled for
\* one connection at a time: it is done with the one before.
Connect ==
    /\ pc = "dropped"
    /\ conns < MaxConns
    /\ smode = "closed"
    /\ c2s = <<>>
    /\ pc' = "greeting"
    /\ conns' = conns + 1
    /\ link' = "up"
    /\ smode' = "greet"
    /\ offers' = {}
    /\ UNCHANGED <<c2s, s2c, txn, delivered, faults, call, server_info, result>>

ReadGreeting ==
    /\ pc = "greeting"
    /\ ReplyArrived
    /\ IF is_positive(response)
         THEN pc' = "hello" /\ Consume
         ELSE DropTransport
    /\ UNCHANGED <<c2s, server, faults, call, server_info, result, conns>>

SendEhlo ==
    /\ pc = "hello"
    /\ Write(Plain("EHLO"))
    /\ pc' = "ehlo"
    /\ UNCHANGED <<link, s2c, server, faults, call, server_info, result, conns>>

\* ServerInfo::from_response: no first word, no transport.
ReadEhlo ==
    /\ pc = "ehlo"
    /\ ReplyArrived
    /\ IF is_positive(response) /\ "name" \in response.words
         THEN /\ server_info' = response.words \ {"name"}
              /\ pc' = "idle"
              /\ Consume
         ELSE /\ DropTransport
              /\ UNCHANGED server_info
    /\ UNCHANGED <<c2s, server, faults, call, result, conns>>

-----------------------------------------------------------------------------
(* SmtpTransport::send *)

\* `send` takes the email by value: no email is sent twice.
Send(e) ==
    /\ pc = "idle"
    /\ result[e] = "unsent"
    /\ pc' = "send"
    /\ email' = e
    /\ sent' = 0
    /\ acked' = 0
    /\ pipelining' = (Pipelining /\ "PIPELINING" \in server_info)
    /\ mail_options' = {o \in server_info :
                          o = "8BITMIME" \/ (o = "SMTPUTF8" /\ SmtpUtf8)}
    /\ result' = [result EXCEPT ![e] = "sending"]
    /\ UNCHANGED <<serverVars, server_info, conns>>

\* A mutant of MayWrite: commands go out ahead of the replies without PIPELINING.
MayWriteEagerly == sent < DataStep(email)

\* `command` waits for the reply before it returns; with pipelining MAIL, every
\* RCPT and DATA are written before the first reply is read.
MayWrite ==
    /\ sent < DataStep(email)
    /\ pipelining \/ acked = sent

\* A mutant of MayRead: the pipelined loop reads one reply too many.
MayReadTooMany ==
    IF pipelining
      THEN acked <= sent /\ sent >= DataStep(email)
      ELSE acked < sent

MayRead ==
    /\ acked < sent
    /\ pipelining => sent >= DataStep(email)

\* Every reply to MAIL, RCPT and DATA was positive: `message` is next.
MayWriteMessage == sent = DataStep(email) /\ acked = sent

WriteCommand ==
    /\ pc = "send"
    /\ MayWrite
    /\ Write(Step(email, sent + 1))
    /\ sent' = sent + 1
    /\ UNCHANGED <<link, s2c, server, faults, pc, email, acked, pipelining,
                   mail_options, server_info, result, conns>>

\* SmtpStream::message reads all of the message, then writes it.
WriteMessage ==
    /\ pc = "send"
    /\ MayWriteMessage
    /\ Write(Step(email, sent + 1))
    /\ sent' = sent + 1
    /\ UNCHANGED <<link, s2c, server, faults, pc, email, acked, pipelining,
                   mail_options, server_info, result, conns>>

\* `send` returns an error; what it leaves unread stays in the stream.
Fail(kind, unread) ==
    /\ result' = [result EXCEPT ![email] = kind]
    /\ Resets
    /\ KeepOrDrop(kind, unread)

\* read_to_end fails on a reader of the caller's after the server said 354: nothing at all is written.
ReaderFails ==
    /\ pc = "send"
    /\ MayWriteMessage
    /\ email \in UnreadableMessages
    /\ Fail("reader", s2c)
    /\ UNCHANGED <<c2s, server, faults, server_info, conns>>

\* The reply to MAIL, RCPT or DATA is positive: on to the next step.
ReadStepReply ==
    /\ pc = "send"
    /\ MayRead
    /\ ReplyArrived
    /\ is_positive(response)
    /\ acked + 1 < ScriptLength(email)
    /\ acked' = acked + 1
    /\ Consume
    /\ UNCHANGED <<c2s, server, faults, pc, email, sent, pipelining,
                   mail_options, server_info, result, conns>>

\* The reply to the message is positive: `send` returns Ok.
ReadFinalReply ==
    /\ pc = "send"
    /\ MayRead
    /\ ReplyArrived
    /\ is_positive(response)
    /\ acked + 1 = ScriptLength(email)
    /\ result' = [result EXCEPT ![email] = "ok"]
    /\ Resets
    /\ pc' = "idle"
    /\ Consume
    /\ UNCHANGED <<c2s, server, faults, server_info, conns>>

\* The first reply that is not positive ends the call, sequential or pipelined.
ReadNegativeReply ==
    /\ pc = "send"
    /\ MayRead
    /\ ReplyArrived
    /\ ~is_positive(response)
    /\ Fail(ErrorKind(response), Tail(s2c))
    /\ UNCHANGED <<c2s, server, faults, server_info, conns>>

-----------------------------------------------------------------------------
(* SmtpTransport::auth, on its own or as try_login calls it *)

\* A command that cannot be formed fails before it is written.
Auth ==
    /\ pc = "idle"
    /\ Write(Plain("AUTH"))
    /\ pc' = "auth"
    /\ sent' = 1
    /\ acked' = 0
    /\ UNCHANGED <<link, s2c, server, faults, email, pipelining, mail_options,
                   server_info, result, conns>>

\* The reply is 334, and the loop may go round.
ReadChallenge ==
    /\ pc = "auth"
    /\ ReplyArrived
    /\ response.severity = "Challenge"
    /\ sent <= Challenges
    /\ pc' = "challenged"
    /\ acked' = acked + 1
    /\ Consume
    /\ UNCHANGED <<c2s, server, faults, email, sent, pipelining, mail_options,
                   server_info, result, conns>>

\* A mutant of Respond: the answer is sent with send_command, its reply never read.
RespondUnread ==
    /\ pc = "challenged"
    /\ Write(Plain("SASL"))
    /\ pc' = "idle"
    /\ Resets
    /\ UNCHANGED <<link, s2c, server, faults, server_info, result, conns>>

Respond ==
    /\ pc = "challenged"
    /\ Write(Plain("SASL"))
    /\ pc' = "auth"
    /\ sent' = sent + 1
    /\ UNCHANGED <<link, s2c, server, faults, email, acked, pipelining, mail_options,
                   server_info, result, conns>>

\* new_from_response has no answer to the challenge: the server is told nothing.
RespondFails ==
    /\ pc = "challenged"
    /\ KeepOrDrop("challenge", s2c)
    /\ Resets
    /\ UNCHANGED <<c2s, server, faults, server_info, result, conns>>

\* Any other reply ends the loop, and so does any reply to the last answer it may
\* give, which is an error whatever it says.
ReadAuthReply ==
    /\ pc = "auth"
    /\ ReplyArrived
    /\ \/ /\ is_positive(response)
          /\ response.severity # "Challenge"
          /\ sent <= Challenges
          /\ pc' = "idle"
          /\ Consume
       \/ /\ is_positive(response)
          /\ sent > Challenges
          /\ KeepOrDrop("parsing", Tail(s2c))
       \/ /\ ~is_positive(response)
          /\ KeepOrDrop(ErrorKind(response), Tail(s2c))
    /\ Resets
    /\ UNCHANGED <<c2s, server, faults, server_info, result, conns>>

-----------------------------------------------------------------------------
(* SmtpTransport::quit and SmtpTransport::starttls *)

\* A mutant of Quit: the reply is left unread.
QuitUnread ==
    /\ pc = "idle"
    /\ Write(Plain("QUIT"))
    /\ UNCHANGED <<link, s2c, server, faults, clientVars>>

Quit ==
    /\ pc = "idle"
    /\ Write(Plain("QUIT"))
    /\ pc' = "quit"
    /\ UNCHANGED <<link, s2c, server, faults, call, server_info, result, conns>>

\* `quit` borrows the transport and leaves it as it was: nothing says it is spent.
ReadQuit ==
    /\ pc = "quit"
    /\ ReplyArrived
    /\ IF is_positive(response)
         THEN pc' = "idle" /\ Consume
         ELSE KeepOrDrop(ErrorKind(response), Tail(s2c))
    /\ UNCHANGED <<c2s, server, faults, call, server_info, result, conns>>

\* `starttls` consumes the transport: every error drops the connection.
StarttlsUnsupported ==
    /\ pc = "idle"
    /\ "STARTTLS" \notin server_info
    /\ DropTransport
    /\ UNCHANGED <<c2s, server, faults, call, server_info, result, conns>>

Starttls ==
    /\ pc = "idle"
    /\ "STARTTLS" \in server_info
    /\ Write(Plain("STARTTLS"))
    /\ pc' = "starttls"
    /\ UNCHANGED <<link, s2c, server, faults, call, server_info, result, conns>>

ReadStarttls ==
    /\ pc = "starttls"
    /\ ReplyArrived
    /\ IF is_positive(response)
         THEN pc' = "upgrade" /\ Consume
         ELSE DropTransport
    /\ UNCHANGED <<c2s, server, faults, call, server_info, result, conns>>

\* A mutant of UpgradeTls: the features of the session in clear are kept.
UpgradeTlsWithoutEhlo ==
    /\ pc = "upgrade"
    /\ link = "up"
    /\ smode = "tls"
    /\ s2c = <<>>
    /\ pc' = "idle"
    /\ smode' = "command"
    /\ txn' = NoTransaction
    /\ offers' = {}
    /\ UNCHANGED <<link, c2s, s2c, delivered, faults, call, server_info, result, conns>>

\* The caller runs the TLS handshake on the inner stream and calls `new` with
\* without_greeting: what the server said before the handshake is forgotten.
UpgradeTls ==
    /\ pc = "upgrade"
    /\ link = "up"
    /\ smode = "tls"
    /\ s2c = <<>>
    /\ pc' = "hello"
    /\ smode' = "command"
    /\ txn' = NoTransaction
    /\ offers' = {}
    /\ UNCHANGED <<link, c2s, s2c, delivered, faults, call, server_info, result, conns>>

-----------------------------------------------------------------------------
(* Errors of the stream, and the caller *)

\* The call in progress ends without an answer and its transport is dropped.
GiveUp(kind) ==
    /\ DropTransport
    /\ result' = IF pc = "send" THEN [result EXCEPT ![email] = kind] ELSE result
    /\ Resets
    /\ UNCHANGED <<c2s, server, faults, server_info, conns>>

\* A mutant of ReadEof: the end of the stream is reported as a 4yz reply.
ReadEofAsTransient ==
    /\ pc \in AwaitsReply
    /\ pc = "send" => MayRead
    /\ EndOfStream
    /\ GiveUp("transient")

\* read_line returns 0 bytes: the error "incomplete".
ReadEof ==
    /\ pc \in AwaitsReply
    /\ pc = "send" => MayRead
    /\ EndOfStream
    /\ GiveUp("io")

\* write_all or flush fails because the other end is gone.
WriteFails ==
    /\ \/ pc \in {"hello", "challenged"}
       \/ pc = "send" /\ (MayWrite \/ MayWriteMessage)
    /\ link = "down" \/ smode = "closed"
    /\ GiveUp("io")

\* The caller stops polling the future of a call, a timeout of its own for
\* instance, and drops the transport.
Cancel ==
    /\ pc \in AwaitsReply \cup {"hello", "challenged"}
    /\ GiveUp("cancelled")

\* Part of a command, or of the content, is written.
WriteCut(part) ==
    /\ link = "up"
    /\ Len(c2s) < Window
    /\ c2s' = Append(c2s, part)

\* The call is about to write a line; an idle transport's is the first of `auth` or `quit`.
MayCutLine == pc \in {"idle", "challenged"} \/ (pc = "send" /\ MayWrite)

MayCutContent == pc = "send" /\ MayWriteMessage /\ email \notin EmptyMessages

\* `send` has read the reply to one command and not written the next.
BetweenCommands == pc = "send" /\ sent = acked /\ sent < DataStep(email)

\* `auth`, `send` and `quit` borrow the transport: the caller may drop their future at
\* any await, in the middle of a write too, and go on with the transport.  (A cut
\* between the two dots of an empty message is left out.)
Abandon ==
    /\ \/ /\ "cancelled" \in Reuse
          /\ \/ pc \in {"auth", "challenged", "send", "quit"} /\ UNCHANGED c2s
             \/ MayCutLine /\ WriteCut(Fragment)
             \/ MayCutContent /\ WriteCut(Piece)
       \/ "between" \in Reuse /\ BetweenCommands /\ UNCHANGED c2s
    /\ result' = IF pc = "send" THEN [result EXCEPT ![email] = "cancelled"] ELSE result
    /\ pc' = "idle"
    /\ Resets
    /\ UNCHANGED <<link, s2c, server, faults, server_info, conns>>

\* The caller drops a transport no call uses, or fails to upgrade the stream.
Drop ==
    /\ pc \in {"idle", "upgrade"}
    /\ DropTransport
    /\ UNCHANGED <<c2s, server, faults, call, server_info, result, conns>>

-----------------------------------------------------------------------------

\* Steps a call in progress takes by itself.
CallStep ==
    \/ ReadGreeting \/ SendEhlo \/ ReadEhlo
    \/ ReadChallenge \/ Respond \/ RespondFails \/ ReadAuthReply
    \/ WriteCommand \/ WriteMessage \/ ReaderFails
    \/ ReadStepReply \/ ReadFinalReply \/ ReadNegativeReply
    \/ ReadQuit \/ ReadStarttls
    \/ ReadEof \/ WriteFails

CallerStep ==
    \/ Connect
    \/ \E e \in Emails : Send(e)
    \/ Auth \/ Quit \/ StarttlsUnsupported \/ Starttls \/ UpgradeTls
    \/ Cancel \/ Abandon \/ Drop

\* Every connection is used up and the last transport is gone.
Finished ==
    /\ pc = "dropped"
    /\ conns = MaxConns
    /\ smode = "closed"
    /\ c2s = <<>>
    /\ UNCHANGED vars

\* What goes on at the other end, or on the way to it.
ServerMoves == ServerStep /\ UNCHANGED clientVars
NetworkMoves == NetworkStep /\ UNCHANGED clientVars

Next == CallStep \/ CallerStep \/ ServerMoves \/ NetworkMoves \/ Finished

Spec == Init /\ [][Next]_vars

\* The runtime polls a call until it returns; the server, like every server that
\* is alive, gets to what it was sent.  No fault and no move of the caller is fair.
Fairness == WF_vars(CallStep) /\ WF_vars(ServerMoves)

FairSpec == Spec /\ Fairness

-----------------------------------------------------------------------------
(* Properties *)

\* The command whose reply the client waits for.
Awaited(i) ==
    CASE pc = "greeting" -> Greeting
      [] pc = "ehlo" -> Plain("EHLO")
      [] pc = "auth" -> IF acked = 0 THEN Plain("AUTH") ELSE Plain("SASL")
      [] pc = "quit" -> Plain("QUIT")
      [] pc = "starttls" -> Plain("STARTTLS")
      [] OTHER -> Step(email, acked + i)

Outstanding ==
    CASE pc = "send" -> sent - acked
      [] pc \in AwaitsReply \ {"send"} -> 1
      [] OTHER -> 0

\* A reply is only ever taken for the answer to the command it answers: whatever
\* is in the stream answers, in order, the commands the current call of `new`, `auth`,
\* `send`, `quit` or `starttls` still waits for, except for a 421 the server
\* sends on its own as its last word.  read_response (stream.rs:70) has no other
\* way to tell whose reply it reads.
AwaitsOwnReply ==
    \A i \in 1 .. Len(s2c) :
        \/ s2c[i].to = Unsolicited /\ i = Len(s2c)
        \/ i <= Outstanding /\ s2c[i].to = Awaited(i)

\* e as its caller addressed it.
Genuine(e) == [from |-> e, to |-> Envelope(e), intact |-> TRUE, body |-> e]

Accepted(e) == {m \in 1 .. Len(delivered) : delivered[m].body = e}

\* When `send` returns Ok the server has taken that very message, for every
\* recipient of its envelope and with its own sender, exactly once.
SentOkDelivered ==
    \A e \in Emails : result[e] = "ok" =>
        \E m \in 1 .. Len(delivered) :
            /\ delivered[m] = Genuine(e)
            /\ Accepted(e) = {m}

\* When `send` returns Transient or Permanent, or its reader failed, the server
\* has not taken the message and never will: the caller may send it again.
RejectedNotDelivered ==
    \A e \in Emails : result[e] \in Rejections =>
        /\ Accepted(e) = {}
        /\ smode # "closed" =>
              \A i \in 1 .. Len(c2s) : c2s[i] # Step(e, ScriptLength(e))

\* Whatever the outcome, nobody gets a message that was not addressed to them: all
\* the server takes has the sender and the recipients of its own envelope.
DeliveredIntact ==
    \A m \in 1 .. Len(delivered) : delivered[m] = Genuine(delivered[m].body)

\* A call waits only for a reply that is still to come: it never waits while
\* the server has nothing more to answer and both ends are alive.
NoStall ==
    (/\ pc \in AwaitsReply
     /\ pc = "send" => MayRead
     /\ link = "up" /\ smode # "closed"
     /\ s2c = <<>> /\ c2s = <<>>) => smode = "greet"

\* What `send` makes of the server's features, the parameters of MAIL and the
\* choice to pipeline, was offered in the session it runs in, never in the one
\* before STARTTLS or in an earlier connection.
OptionsOffered ==
    pc = "send" /\ link = "up" =>
        /\ mail_options \subseteq offers
        /\ pipelining => "PIPELINING" \in offers

Busy == pc \in AwaitsReply \cup {"hello", "challenged"}

\* Every call returns, or its caller gives up, as long as the server answers or
\* the connection ends: nothing in the client can block by itself.
CallReturns == Busy ~> ~Busy

-----------------------------------------------------------------------------
(* Why the stream stays in step: an inductive invariant of an orderly caller *)

\* No empty message; a transport kept after a negative reply does not pipeline, and one
\* is kept after no other error.
Orderly ==
    /\ EmptyMessages = {}
    /\ \/ Reuse \subseteq {"between"}
       \/ ~Pipelining /\ Reuse \subseteq {"transient", "permanent", "between"}

\* Both ends can still hear each other.
Live == link = "up" /\ smode # "closed"

InvDropped == pc = "dropped" => s2c = <<>> /\ link = "down"

\* The counters of `send`.
InvCall ==
    pc = "send" =>
        /\ sent <= ScriptLength(email)
        /\ acked < ScriptLength(email)
        /\ sent = ScriptLength(email) => acked = DataStep(email)
        /\ pipelining => Pipelining
        /\ ~pipelining => sent <= acked + 1

\* The counters of `auth`.
InvAuth ==
    /\ pc = "auth" => sent = acked + 1
    /\ pc = "challenged" => sent = acked /\ sent # 0

\* What has been answered.
InvReplies ==
    \A i \in 1 .. Len(s2c) :
        \/ /\ s2c[i].to = Unsolicited
           /\ i = Len(s2c)
           /\ smode = "closed"
           /\ ~is_positive(s2c[i])
        \/ i <= Outstanding /\ s2c[i].to = Awaited(i)

\* What is still to be answered.
InvInFlight ==
    Live =>
        /\ smode = "greet" => pc = "greeting" /\ c2s = <<>> /\ s2c = <<>>
        /\ smode # "greet" => Len(s2c) + Len(c2s) = Outstanding
        /\ \A i \in 1 .. Len(c2s) : c2s[i] = Awaited(Len(s2c) + i)

LastReply == s2c[Len(s2c)]

\* The server reads content exactly from its 354 to the content of that email.
InvData ==
    Live =>
        /\ smode = "data" =>
              /\ pc = "send"
              /\ acked + Len(s2c) = DataStep(email)
              /\ s2c # <<>> => LastReply.severity \notin Negative
        /\ (/\ pc = "send"
            /\ acked + Len(s2c) = DataStep(email)
            /\ s2c = <<>> \/ is_positive(LastReply)) => smode = "data"

\* The server waits for an answer only to a challenge that `auth` is to answer.
InvLogin ==
    Live /\ smode = "sasl" =>
        \/ pc = "challenged"
        \/ /\ pc = "auth"
           /\ s2c # <<>> => LastReply.severity \notin Negative \cup (Positive \ {"Challenge"})

SyncInv ==
    InvDropped /\ InvCall /\ InvAuth /\ InvReplies /\ InvInFlight /\ InvData /\ InvLogin

-----------------------------------------------------------------------------
(* The promise of MailSubmission *)

Outcome(r) ==
    CASE r = "unsent" -> "unsent"
      [] r = "sending" -> "pending"
      [] r = "ok" -> "sent"
      [] r \in Rejections -> "rejected"
      [] OTHER -> "unknown"

\* A delivery that is not the email as its caller addressed it is no email.
Inbox ==
    [m \in 1 .. Len(delivered) |->
        IF delivered[m] = Genuine(delivered[m].body) THEN delivered[m].body ELSE NoEmail]

Submission == INSTANCE MailSubmission
    WITH outcome <- [e \in Emails |-> Outcome(result[e])], inbox <- Inbox

\* `send` keeps the promise of MailSubmission: whatever the server and the network
\* do, each step of the transport is one of its steps or changes nothing of it.
KeepsPromise == Submission!Spec

=============================================================================
