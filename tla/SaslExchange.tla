---------------------------- MODULE SaslExchange ----------------------------
(***************************************************************************)
(* SmtpTransport::try_login and auth (smtp_client.rs), with AuthCommand    *)
(* (commands.rs) and Mechanism::response (authentication.rs), against a    *)
(* server that follows RFC 4954: after it said 334 the next line it reads  *)
(* is a response, whatever the client meant by it.                         *)
(*                                                                         *)
(* Each command is answered before the next is written, so the connection  *)
(* holds one line or one reply.  Credentials are known by what they hold.  *)
(***************************************************************************)
EXTENDS Integers, Sequences

CONSTANTS
    Accepted,     \* accepted_mechanisms of try_login, in order of preference
    Challenges,   \* challenges a call of auth answers; 10 in the code
    MaxCalls      \* bound: calls of the caller

Mechanisms == {"PLAIN", "LOGIN", "XOAUTH2"}

ASSUME SaslAssumption ==
    Accepted \in Seq(Mechanisms) /\ Challenges \in Nat \ {0} /\ MaxCalls \in Nat

VARIABLES
    offered,     \* the mechanisms of the EHLO reply, in server_info too
    pc,          \* "idle", "auth" or, in a later command, "other"
    mechanism,   \* of the current call of auth
    challenges,  \* how many more challenges it answers
    line,        \* the line on its way to the server, or NoLine
    reply,       \* the reply on its way to the client, or NoReply
    sasl,        \* the server has said 334 and waits for a response
    has,         \* what the server knows of the credentials in this exchange
    asked,       \* what its 334 asked for
    granted,     \* the server has granted the login in the current call
    misread,     \* the server has read a command as a response
    log          \* what each call returned, and whether the server granted it

vars == <<offered, pc, mechanism, challenges, line, reply, sasl, has, asked, granted,
          misread, log>>
server == <<sasl, has, asked, granted, misread>>

NoLine == [verb |-> "none", mechanism |-> "none", holds |-> {}]
NoReply == [code |-> "none", challenge |-> "none"]

Credentials == {"identity", "secret"}

\* Text of a 334: a question of LOGIN, one the client does not know, text that is
\* not base64 or UTF-8, or none.
Questions == {"user", "password", "unknown", "garbled", "absent"}

LineSet == [verb : {"none", "AUTH", "response", "command"},
            mechanism : Mechanisms \cup {"none"}, holds : SUBSET Credentials]
ReplySet == [code : {"none", "235", "250", "334", "negative", "eof"},
             challenge : Questions \cup {"none"}]

Results == {"ok", "skipped", "negative", "limit", "client", "parsing", "io"}

\* What a call returned, and whether the server granted the login in it.
Entries == [result : Results, granted : BOOLEAN]

TypeOK ==
    /\ offered \subseteq Mechanisms
    /\ pc \in {"idle", "auth", "other", "closed"}
    /\ mechanism \in Mechanisms \cup {"none"}
    /\ challenges \in 0 .. Challenges
    /\ line \in LineSet
    /\ reply \in ReplySet
    /\ sasl \in BOOLEAN /\ granted \in BOOLEAN /\ misread \in BOOLEAN
    /\ has \subseteq Credentials
    /\ asked \in Questions \cup {"none"}
    /\ log \in Seq(Entries)

Init ==
    /\ offered \in SUBSET Mechanisms
    /\ pc = "idle"
    /\ mechanism = "none"
    /\ challenges = 0
    /\ line = NoLine
    /\ reply = NoReply
    /\ sasl = FALSE
    /\ has = {}
    /\ asked = "none"
    /\ granted = FALSE
    /\ misread = FALSE
    /\ log = <<>>

-----------------------------------------------------------------------------
(* The client *)

supports_initial_response(m) == m \in {"PLAIN", "XOAUTH2"}

\* AuthCommand::new without a challenge.
AuthLine(m) ==
    [verb |-> "AUTH", mechanism |-> m,
     holds |-> IF supports_initial_response(m) THEN Credentials ELSE {}]

\* AuthCommand::new_from_response: what it answers, or its error.
Answer(m, challenge) ==
    LET decoded == challenge \notin {"garbled", "absent"}
    IN  CASE ~decoded -> "parsing"
          [] decoded /\ (m # "LOGIN" \/ challenge = "unknown") -> "client"
          [] m = "LOGIN" /\ challenge = "user" -> "identity"
          [] OTHER -> "secret"

\* The call starts and its first command is written.
Begin(m) ==
    /\ pc' = "auth"
    /\ mechanism' = m
    /\ challenges' = Challenges
    /\ line' = AuthLine(m)
    /\ granted' = FALSE

MayCall == pc = "idle" /\ Len(log) < MaxCalls

\* The call returns.  Its caller keeps the transport unless the stream has ended.
Return(result) ==
    /\ log' = Append(log, [result |-> result, granted |-> granted])
    /\ pc' = IF result = "io" THEN "closed" ELSE "idle"
    /\ mechanism' = "none"
    /\ challenges' = 0

\* A caller that names the mechanism itself.
Auth ==
    /\ MayCall
    /\ \E m \in Mechanisms : Begin(m)
    /\ UNCHANGED <<offered, reply, sasl, has, asked, misread, log>>

\* A mutant of TryLogin: only the first accepted mechanism is looked for.
TryLoginFirstOnly ==
    /\ MayCall
    /\ \/ /\ Accepted[1] \in offered
          /\ Begin(Accepted[1])
          /\ UNCHANGED log
       \/ /\ Accepted[1] \notin offered
          /\ log' = Append(log, [result |-> "skipped", granted |-> FALSE])
          /\ UNCHANGED <<pc, mechanism, challenges, line, granted>>
    /\ UNCHANGED <<offered, reply, sasl, has, asked, misread>>

\* The first accepted mechanism the server supports; without one, Ok and no login.
TryLogin ==
    /\ MayCall
    /\ \/ \E i \in 1 .. Len(Accepted) :
            /\ Accepted[i] \in offered
            /\ \A j \in 1 .. i - 1 : Accepted[j] \notin offered
            /\ Begin(Accepted[i])
            /\ UNCHANGED log
       \/ /\ \A i \in 1 .. Len(Accepted) : Accepted[i] \notin offered
          /\ log' = Append(log, [result |-> "skipped", granted |-> FALSE])
          /\ UNCHANGED <<pc, mechanism, challenges, line, granted>>
    /\ UNCHANGED <<offered, reply, sasl, has, asked, misread>>

\* A mutant of ReadChallenge: the loop does not stop when none are left.
ReadChallengeUnbounded ==
    /\ pc = "auth"
    /\ reply.code = "334"
    /\ LET answer == Answer(mechanism, reply.challenge)
       IN  IF answer \in Credentials
             THEN /\ line' = [NoLine EXCEPT !.verb = "response", !.holds = {answer}]
                  /\ challenges' = challenges - 1
                  /\ UNCHANGED <<pc, mechanism, log>>
             ELSE Return(answer) /\ UNCHANGED line
    /\ reply' = NoReply
    /\ UNCHANGED <<offered, server>>

\* A mutant of ReadChallenge: the challenges are not counted.
ReadChallengeForever ==
    /\ pc = "auth"
    /\ reply.code = "334"
    /\ challenges > 0
    /\ LET answer == Answer(mechanism, reply.challenge)
       IN  IF answer \in Credentials
             THEN /\ line' = [NoLine EXCEPT !.verb = "response", !.holds = {answer}]
                  /\ UNCHANGED <<pc, mechanism, challenges, log>>
             ELSE Return(answer) /\ UNCHANGED line
    /\ reply' = NoReply
    /\ UNCHANGED <<offered, server>>

\* 334, and there are challenges left: answer it or give up.
ReadChallenge ==
    /\ pc = "auth"
    /\ reply.code = "334"
    /\ challenges > 0
    /\ LET answer == Answer(mechanism, reply.challenge)
       IN  IF answer \in Credentials
             THEN /\ line' = [NoLine EXCEPT !.verb = "response", !.holds = {answer}]
                  /\ challenges' = challenges - 1
                  /\ UNCHANGED <<pc, mechanism, log>>
             ELSE Return(answer) /\ UNCHANGED line
    /\ reply' = NoReply
    /\ UNCHANGED <<offered, server>>

\* A mutant of ReadLast: the challenges left are not looked at after the loop.
ReadLastUncounted ==
    /\ pc = "auth"
    /\ reply.code # "none"
    /\ reply.code = "334" => challenges = 0
    /\ CASE reply.code = "negative" -> Return("negative")
         [] reply.code = "eof" -> Return("io")
         [] OTHER -> Return("ok")
    /\ reply' = NoReply
    /\ UNCHANGED <<offered, line, server>>

\* Any other reply, or one challenge too many, ends the loop.
ReadLast ==
    /\ pc = "auth"
    /\ reply.code # "none"
    /\ reply.code = "334" => challenges = 0
    /\ CASE reply.code = "negative" -> Return("negative")
         [] reply.code = "eof" -> Return("io")
         [] reply.code \notin {"negative", "eof"} /\ challenges = 0 -> Return("limit")
         [] OTHER -> Return("ok")
    /\ reply' = NoReply
    /\ UNCHANGED <<offered, line, server>>

\* The caller goes on, with `send` or `quit` for instance.
NextCommand ==
    /\ MayCall
    /\ log # <<>>
    /\ pc' = "other"
    /\ line' = [NoLine EXCEPT !.verb = "command"]
    /\ UNCHANGED <<offered, mechanism, challenges, reply, server, log>>

ReadNext ==
    /\ pc = "other"
    /\ reply.code # "none"
    /\ pc' = "closed"
    /\ reply' = NoReply
    /\ UNCHANGED <<offered, mechanism, challenges, line, server, log>>

-----------------------------------------------------------------------------
(* The server *)

Say(code) == reply' = [code |-> code, challenge |-> "none"]

\* What the exchange has told so far, with the line just read.
Knows ==
    LET response == line.verb # "AUTH"
    IN  CASE ~response -> line.holds
          [] response /\ asked = "user" -> (has \ {"identity"}) \cup (line.holds \cap {"identity"})
          [] response /\ asked = "password" -> (has \ {"secret"}) \cup (line.holds \cap {"secret"})
          [] OTHER -> has

Grant ==
    /\ Knows = Credentials
    /\ Say("235")
    /\ granted' = TRUE
    /\ sasl' = FALSE
    /\ has' = {}
    /\ asked' = "none"

Challenge ==
    /\ \E q \in Questions :
        /\ reply' = [code |-> "334", challenge |-> q]
        /\ asked' = q
    /\ sasl' = TRUE
    /\ has' = Knows
    /\ UNCHANGED granted

Refuse ==
    /\ Say("negative")
    /\ sasl' = FALSE
    /\ has' = {}
    /\ asked' = "none"
    /\ UNCHANGED granted

\* A second login after a granted one is refused, or granted anew.
ServeAuth ==
    /\ line.verb = "AUTH"
    /\ ~sasl
    /\ \/ line.mechanism \in offered /\ (Grant \/ Challenge)
       \/ Refuse
    /\ line' = NoLine
    /\ UNCHANGED <<offered, pc, mechanism, challenges, misread, log>>

ServeResponse ==
    /\ line.verb = "response"
    /\ Grant \/ Challenge \/ Refuse
    /\ line' = NoLine
    /\ UNCHANGED <<offered, pc, mechanism, challenges, misread, log>>

ServeCommand ==
    /\ line.verb = "command"
    /\ ~sasl
    /\ Say("250")
    /\ line' = NoLine
    /\ UNCHANGED <<offered, pc, mechanism, challenges, server, log>>

\* A command, or another AUTH, where a response was expected.
ServeMisread ==
    /\ line.verb \in {"AUTH", "command"}
    /\ sasl
    /\ Refuse
    /\ misread' = TRUE
    /\ line' = NoLine
    /\ UNCHANGED <<offered, pc, mechanism, challenges, log>>

\* The connection ends; the reply on its way may be lost.
Lose ==
    /\ pc \in {"auth", "other"}
    /\ reply.code # "eof"
    /\ Say("eof")
    /\ line' = NoLine
    /\ sasl' = FALSE
    /\ UNCHANGED <<offered, pc, mechanism, challenges, has, asked, granted, misread, log>>

ServerStep == ServeAuth \/ ServeResponse \/ ServeCommand \/ ServeMisread

-----------------------------------------------------------------------------

Finished ==
    /\ pc = "closed" \/ (pc = "idle" /\ Len(log) = MaxCalls)
    /\ UNCHANGED vars

ClientStep == ReadChallenge \/ ReadLast \/ ReadNext

Next == Auth \/ TryLogin \/ NextCommand \/ ClientStep \/ ServerStep \/ Lose \/ Finished

Spec == Init /\ [][Next]_vars

\* The runtime polls the call and the server answers what it reads.
FairSpec == Spec /\ WF_vars(ClientStep) /\ WF_vars(ServerStep)

-----------------------------------------------------------------------------
(* Properties *)

\* The caller is told the truth: `auth` returns Ok only for a login the server has
\* granted, and a granted login is reported as an error only when the connection
\* broke or the server asked as often as the client can answer (the test on
\* `challenges` after the loop, smtp_client.rs:190, does not look at the reply).
LoginOutcome ==
    \A i \in 1 .. Len(log) :
        /\ log[i].result = "ok" => log[i].granted
        /\ log[i].granted => log[i].result \in {"ok", "limit", "io"}

\* try_login returns Ok without a login ("skipped") too, and its caller cannot tell
\* (smtp_client.rs:138): that happens only when the server offers nothing it accepts.
OkMeansLogin ==
    (\E i \in 1 .. Len(Accepted) : Accepted[i] \in offered) =>
        \A i \in 1 .. Len(log) : log[i].result \in {"ok", "skipped"} => log[i].granted

\* Why it is so: one line or one reply is on its way, and while auth waits 235 is
\* the reply exactly when the login has been granted in this call.
GrantInFlight ==
    /\ pc = "idle" => reply.code = "none" /\ line.verb = "none"
    /\ reply.code # "none" => line.verb = "none"
    /\ line.verb = "command" => pc = "other"
    /\ pc = "auth" =>
          /\ reply.code # "250"
          /\ granted => line.verb = "none"
          /\ reply.code # "eof" => (granted <=> reply.code = "235")

LoginInv == GrantInFlight /\ LoginOutcome

\* A server that asks on and on cannot keep a call of `auth` from returning.
AuthReturns == pc = "auth" ~> pc # "auth"

\* RFC 4954, which lib.rs:10 names: a client that gives up an exchange says so ("*"),
\* so that its next command is not read as a response.
CommandsAreCommands == ~misread

=============================================================================
