------------------------ MODULE SmtpTransportProofs ------------------------
(***************************************************************************)
(* What is proved of SmtpTransport for every set of emails, every number   *)
(* of recipients, every server and every number of faults and connections. *)
(***************************************************************************)
EXTENDS SmtpTransport, SequenceTheorems, TLAPS

-----------------------------------------------------------------------------
(* The vocabulary and the channels are well typed *)

\* The commands of an email's script are commands.
LEMMA StepType ==
    ASSUME NEW e \in Emails, NEW k \in Nat
    PROVE  Step(e, k) \in Commands
BY DEF Step, Commands, ScriptVerbs

\* So are those without an email.
LEMMA PlainType ==
    ASSUME NEW v \in PlainVerbs
    PROVE  Plain(v) \in Commands
BY DEF Plain, Commands

\* A reply to a command is a reply.
LEMMA ReplyType ==
    ASSUME NEW sev \in Severities, NEW cmd \in Commands
    PROVE  Reply(sev, cmd) \in Replies
BY DEF Reply, Replies, Words

\* The server says replies.
LEMMA SayType ==
    ASSUME s2c \in Seq(Replies), NEW r \in Replies, Say(r)
    PROVE  s2c' \in Seq(Replies)
BY AppendProperties DEF Say

\* What it says without being asked are replies.
LEMMA StraysType ==
    ASSUME NEW cmd \in Commands, NEW k \in Nat
    PROVE  Strays(cmd, k) \in Seq(Replies)
<1>1. Reply("PermanentNegative", cmd) \in Replies
  BY ReplyType DEF Severities, Negative
<1>2. Strays(cmd, k) \in [1 .. k -> Replies]
  BY <1>1 DEF Strays
<1>3. QED
  BY <1>2, SeqDef

\* A reply and strays behind it are replies.
LEMMA AnswerMoreType ==
    ASSUME s2c \in Seq(Replies), NEW r \in Replies, NEW k \in Nat, AnswerMore(r, k)
    PROVE  s2c' \in Seq(Replies)
<1>1. Append(s2c, r) \in Seq(Replies)
  BY AppendProperties
<1>2. Strays(r.to, k) \in Seq(Replies)
  BY StraysType DEF Replies
<1>3. Append(s2c, r) \o Strays(r.to, k) \in Seq(Replies)
  BY <1>1, <1>2, ConcatProperties
<1>4. QED
  BY <1>3 DEF AnswerMore

\* The server takes commands.
LEMMA TakeType ==
    ASSUME c2s \in Seq(Commands), NEW verbs, Take(verbs)
    PROVE  /\ Head(c2s) \in Commands
           /\ c2s' \in Seq(Commands)
BY HeadTailProperties DEF Take

\* The client writes commands.
LEMMA WriteType ==
    ASSUME c2s \in Seq(Commands), NEW cmd \in Commands, Write(cmd)
    PROVE  c2s' \in Seq(Commands)
BY AppendProperties DEF Write

\* The client reads replies.
LEMMA ResponseType ==
    ASSUME s2c \in Seq(Replies), ReplyArrived
    PROVE  /\ response \in Replies
           /\ Tail(s2c) \in Seq(Replies)
BY HeadTailProperties DEF ReplyArrived, response

-----------------------------------------------------------------------------
(* Type correctness *)

\* The types at first.
LEMMA InitType == Init => TypeOK
<1> SUFFICES ASSUME Init
             PROVE  TypeOK
  OBVIOUS
<1>1. ServerTypeOK
  <2>1. NoTransaction \in Transactions /\ NoTransaction.to = {}
    BY DEF NoTransaction, Transactions
  <2>2. QED
    BY <2>1, ServerAssumption, EmptySeq DEF Init, ServerInit, ServerTypeOK, ServerModes
<1>2. ClientTypeOK
  <2>1. result \in [Emails -> Results]
    BY DEF Init, Results
  <2>2. pipelining \in BOOLEAN /\ mail_options \in SUBSET {"8BITMIME", "SMTPUTF8"}
    BY DEF Init
  <2>3. /\ pc \in PCs
        /\ email \in Emails \cup {NoEmail}
        /\ pc = "send" => email \in Emails
    BY DEF Init, PCs
  <2>4. /\ sent \in Nat /\ acked \in 0 .. sent /\ conns \in 0 .. MaxConns
        /\ pc = "auth" => acked < sent
    BY ClientAssumption DEF Init
  <2>5. server_info \in SUBSET Features
    BY DEF Init
  <2>6. QED
    BY <2>1, <2>2, <2>3, <2>4, <2>5 DEF ClientTypeOK
<1>3. QED
  BY <1>1, <1>2 DEF TypeOK

\* What SGlue reads is there.
LEMMA GlueTypes ==
    ASSUME c2s \in Seq(Commands), Len(c2s) > 1
    PROVE  /\ c2s # <<>>
           /\ Head(c2s) \in Commands
           /\ Tail(c2s) \in Seq(Commands)
           /\ Tail(c2s) # <<>>
<1>1. c2s # <<>>
  BY EmptySeq
<1>2. /\ Head(c2s) \in Commands
      /\ Tail(c2s) \in Seq(Commands)
      /\ Len(Tail(c2s)) = Len(c2s) - 1
  BY <1>1, HeadTailProperties
<1>3. Tail(c2s) # <<>>
  <2>1. Len(c2s) \in Nat /\ Len(Tail(c2s)) # 0
    BY <1>2, LenProperties
  <2>2. QED
    BY <2>1, EmptySeq
<1>4. QED
  BY <1>1, <1>2, <1>3

\* The server and the network keep their types.
LEMMA ServerType ==
    ASSUME ServerTypeOK, ServerStep \/ NetworkStep
    PROVE  ServerTypeOK'
<1> USE DEF ServerTypeOK, ServerModes, Answer
<1>0. /\ NoTransaction \in Transactions
      /\ NoTransaction.to = {}
  BY DEF NoTransaction, Transactions
<1>1. CASE SGreet
  <2>1. PICK sev \in Severities : Say(Reply(sev, Greeting))
    BY <1>1 DEF SGreet, Severities, Positive, Negative
  <2>2. s2c' \in Seq(Replies)
    BY <2>1, SayType, ReplyType, PlainType DEF Greeting, PlainVerbs
  <2>3. QED
    BY <1>1, <2>2 DEF SGreet
<1>2. CASE SEhlo
  <2>1. Head(c2s) \in Commands /\ c2s' \in Seq(Commands)
    BY <1>2, TakeType DEF SEhlo
  <2>2. PICK words \in SUBSET Words :
            /\ Say([severity |-> "PositiveCompletion", to |-> Head(c2s), words |-> words])
            /\ offers' = words \ {"name"}
    BY <1>2 DEF SEhlo
  <2>3. s2c' \in Seq(Replies)
    BY <2>1, <2>2, SayType DEF Replies, Severities, Positive
  <2>4. offers' \in SUBSET Features
    BY <2>2 DEF Words
  <2>5. QED
    BY <1>0, <1>2, <2>1, <2>3, <2>4 DEF SEhlo
<1>3. CASE SMail
  <2>1. Head(c2s) \in Commands /\ c2s' \in Seq(Commands)
    BY <1>3, TakeType DEF SMail
  <2>2. Head(c2s).email \in Emails
    BY <1>3, <2>1 DEF SMail, Take, Commands, PlainVerbs, Fragments
  <2>3. s2c' \in Seq(Replies)
    BY <1>3, <2>1, SayType, ReplyType DEF SMail, Severities, Positive
  <2>4. QED
    BY <1>3, <2>1, <2>2, <2>3 DEF SMail, Transactions
<1>4. CASE SRcpt
  <2>1. Head(c2s) \in Commands /\ c2s' \in Seq(Commands)
    BY <1>4, TakeType DEF SRcpt
  <2>2. Head(c2s).email \in Emails /\ Head(c2s).n \in Nat
    BY <1>4, <2>1 DEF SRcpt, Take, Commands, PlainVerbs, Fragments
  <2>3. s2c' \in Seq(Replies)
    BY <1>4, <2>1, SayType, ReplyType DEF SRcpt, Severities, Positive
  <2>4. txn.from \in Emails
    BY <1>4 DEF SRcpt, Transactions
  <2> DEFINE rcpt == <<Head(c2s).email, Head(c2s).n>>
  <2>5. rcpt \in Emails \X Nat
    BY <2>2
  <2>6. txn' = [txn EXCEPT !.to = txn.to \cup {rcpt}]
    BY <1>4 DEF SRcpt
  <2> HIDE DEF rcpt
  <2>7. txn' \in Transactions /\ txn'.from = txn.from
    BY <2>5, <2>6 DEF Transactions
  <2>8. QED
    BY <1>4, <2>1, <2>3, <2>4, <2>7 DEF SRcpt
<1>5. CASE SData
  <2>1. Head(c2s) \in Commands /\ c2s' \in Seq(Commands)
    BY <1>5, TakeType DEF SData
  <2>2. s2c' \in Seq(Replies)
    BY <1>5, <2>1, SayType, ReplyType DEF SData, Severities, Positive
  <2>3. QED
    BY <1>5, <2>1, <2>2 DEF SData
<1>6. CASE SRefuse
  <2>1. Head(c2s) \in Commands /\ c2s' \in Seq(Commands)
    BY <1>6, TakeType DEF SRefuse
  <2>2. PICK sev \in Negative, k \in {0, 1} : AnswerMore(Reply(sev, Head(c2s)), k)
    BY <1>6 DEF SRefuse
  <2>3. s2c' \in Seq(Replies)
    BY <2>1, <2>2, AnswerMoreType, ReplyType DEF Severities
  <2>4. QED
    BY <1>6, <2>1, <2>3 DEF SRefuse
<1>7. CASE SBody
  <2>1. Head(c2s) \in Commands /\ c2s' \in Seq(Commands)
    BY <1>7, TakeType DEF SBody
  <2>2. Head(c2s).email \in Emails
    BY <1>7, <2>1 DEF SBody, Take, Commands, PlainVerbs, Fragments
  <2>3. PICK sev \in Severities, k \in Nat : AnswerMore(Reply(sev, Head(c2s)), k)
    <3>1. PICK k \in Nat :
              \/ AnswerMore(Reply("PositiveCompletion", Head(c2s)), k)
              \/ \E sev \in Negative : AnswerMore(Reply(sev, Head(c2s)), k)
      BY <1>7 DEF SBody
    <3>2. QED
      BY <3>1 DEF Severities, Positive
  <2>4. s2c' \in Seq(Replies)
    BY <2>1, <2>3, AnswerMoreType, ReplyType
  <2>5. delivered' \in Seq(Messages)
    <3>1. CASE UNCHANGED delivered
      BY <3>1
    <3>2. CASE /\ txn.to # {}
               /\ delivered' = Append(delivered, [from |-> txn.from, to |-> txn.to,
                      intact |-> txn.intact, body |-> Head(c2s).email])
      <4>1. [from |-> txn.from, to |-> txn.to, intact |-> txn.intact,
             body |-> Head(c2s).email] \in Messages
        BY <2>2, <3>2 DEF Messages, Transactions
      <4>2. QED
        BY <3>2, <4>1, AppendProperties
    <3>3. QED
      BY <1>7, <3>1, <3>2 DEF SBody
  <2>6. QED
    BY <1>0, <1>7, <2>1, <2>4, <2>5 DEF SBody
<1>8. CASE SAbsorb
  <2>1. c2s' \in Seq(Commands)
    BY <1>8, TakeType DEF SAbsorb
  <2>2. QED
    BY <1>8, <2>1 DEF SAbsorb, Transactions
<1>9. CASE SQuit
  <2>1. Head(c2s) \in Commands /\ c2s' \in Seq(Commands)
    BY <1>9, TakeType DEF SQuit
  <2>2. s2c' \in Seq(Replies)
    BY <1>9, <2>1, SayType, ReplyType DEF SQuit, Severities, Positive
  <2>3. QED
    BY <1>0, <1>9, <2>1, <2>2 DEF SQuit
<1>10. CASE SStarttls
  <2>1. Head(c2s) \in Commands /\ c2s' \in Seq(Commands)
    BY <1>10, TakeType DEF SStarttls
  <2>2. s2c' \in Seq(Replies)
    BY <1>10, <2>1, SayType, ReplyType DEF SStarttls, Severities, Positive
  <2>3. QED
    BY <1>10, <2>1, <2>2 DEF SStarttls
<1>11. CASE SDiscard
  BY <1>11, HeadTailProperties DEF SDiscard
<1>12. CASE SHangup
  BY <1>0, <1>12, EmptySeq DEF SHangup
<1>13. CASE SShutdown
  <2>1. s2c' \in Seq(Replies)
    BY <1>13, SayType, ReplyType, PlainType
       DEF SShutdown, Unsolicited, PlainVerbs, Severities, Negative
  <2>2. QED
    BY <1>0, <1>13, <2>1, ServerAssumption DEF SShutdown, Fault
<1>14. CASE LoseConnection
  <2>1. PICK i \in 0 .. Len(c2s) : c2s' = SubSeq(c2s, 1, i)
    BY <1>14 DEF LoseConnection
  <2>2. PICK j \in 0 .. Len(s2c) : s2c' = SubSeq(s2c, 1, j)
    BY <1>14 DEF LoseConnection
  <2>3. c2s' \in Seq(Commands)
    BY <2>1, SubSeqProperties
  <2>4. s2c' \in Seq(Replies)
    BY <2>2, SubSeqProperties
  <2>5. QED
    BY <1>14, <2>3, <2>4, ServerAssumption DEF LoseConnection, Fault, server
<1>15. CASE GarbleReply
  <2>1. Len(s2c) \in 1 .. Len(s2c)
    BY <1>15, EmptySeq DEF GarbleReply
  <2>2. PICK sev \in {"Malformed", "NotText"} :
            s2c' = [s2c EXCEPT ![Len(s2c)] = Reply(sev, s2c[Len(s2c)].to)]
    BY <1>15 DEF GarbleReply
  <2> DEFINE r == Reply(sev, s2c[Len(s2c)].to)
  <2>5. r \in Replies
    <3>1. s2c[Len(s2c)] \in Replies
      BY <2>1, ElementOfSeq
    <3>2. QED
      BY <3>1, ReplyType DEF Replies, Severities
  <2> HIDE DEF r
  <2>6. s2c' = [s2c EXCEPT ![Len(s2c)] = r]
    BY <2>2 DEF r
  <2>3. s2c' \in Seq(Replies)
    BY <2>1, <2>5, <2>6, ExceptSeq
  <2>4. QED
    BY <1>15, <2>3, ServerAssumption DEF GarbleReply, Fault
<1>16. CASE SGlue
  <2> DEFINE rest == Tail(c2s)
  <2>1. /\ Head(c2s) \in Commands
        /\ rest \in Seq(Commands)
        /\ rest # <<>>
    BY <1>16, GlueTypes DEF SGlue
  <2>2. Head(rest) \in Commands /\ Tail(rest) \in Seq(Commands)
    BY <2>1, HeadTailProperties
  <2>3. CASE c2s' = <<Head(c2s)>> \o Tail(rest) /\ UNCHANGED <<s2c, smode>>
    <3>1. <<Head(c2s)>> \in Seq(Commands)
      BY <2>1
    <3>2. c2s' \in Seq(Commands)
      BY <2>2, <2>3, <3>1, ConcatProperties
    <3>3. QED
      BY <1>16, <2>3, <3>2 DEF SGlue
  <2>4. CASE /\ c2s' = Tail(rest)
             /\ \E sev \in Verdicts, k \in Nat :
                    AnswerMore(Reply(sev, Head(rest)), k) /\ smode' = ModeAfter(sev)
    <3>1. s2c' \in Seq(Replies)
      BY <2>2, <2>4, AnswerMoreType, ReplyType DEF Severities, Verdicts, Positive
    <3>2. c2s' \in Seq(Commands) /\ smode' \in {"command", "sasl"}
      BY <2>2, <2>4 DEF ModeAfter
    <3>3. UNCHANGED <<link, txn, offers, delivered, faults>>
      BY <1>16 DEF SGlue
    <3>4. QED
      BY <3>1, <3>2, <3>3
  <2>5. (IF Head(c2s) = Piece THEN 0 .. 1 ELSE {0}) \subseteq Nat
    OBVIOUS
  <2>6. \/ c2s' = <<Head(c2s)>> \o Tail(rest) /\ UNCHANGED <<s2c, smode>>
        \/ /\ c2s' = Tail(rest)
           /\ \E sev \in Verdicts, k \in Nat :
                  AnswerMore(Reply(sev, Head(rest)), k) /\ smode' = ModeAfter(sev)
    <3>1. CASE Head(rest).verb \in Fragments
      BY <1>16, <3>1 DEF SGlue
    <3>2. CASE Head(rest).verb \notin Fragments
      <4>1. PICK sev \in Verdicts, k \in IF Head(c2s) = Piece THEN 0 .. 1 ELSE {0} :
                AnswerMore(Reply(sev, Head(rest)), k) /\ smode' = ModeAfter(sev)
        BY <1>16, <3>2 DEF SGlue, Verdicts
      <4>2. QED
        BY <1>16, <2>5, <3>2, <4>1 DEF SGlue
    <3>3. QED
      BY <3>1, <3>2
  <2>7. QED
    BY <2>3, <2>4, <2>6
<1>17. CASE SAuth
  <2>1. Head(c2s) \in Commands /\ c2s' \in Seq(Commands)
    BY <1>17, TakeType DEF SAuth
  <2>2. PICK sev \in {"PositiveCompletion", "Challenge"} :
            Say(Reply(sev, Head(c2s))) /\ smode' = ModeAfter(sev)
    BY <1>17 DEF SAuth
  <2>3. s2c' \in Seq(Replies)
    BY <2>1, <2>2, SayType, ReplyType DEF Severities, Positive
  <2>4. QED
    BY <1>17, <2>1, <2>2, <2>3 DEF SAuth, ModeAfter
<1>18. CASE SSasl
  <2>1. Head(c2s) \in Commands /\ c2s' \in Seq(Commands)
    BY <1>18, TakeType DEF SSasl
  <2>2. PICK sev \in Verdicts, k \in {0, 1} :
            AnswerMore(Reply(sev, Head(c2s)), k) /\ smode' = ModeAfter(sev)
    BY <1>18 DEF SSasl
  <2>3. s2c' \in Seq(Replies)
    BY <2>1, <2>2, AnswerMoreType, ReplyType DEF Severities, Positive, Verdicts
  <2>4. QED
    BY <1>18, <2>1, <2>2, <2>3 DEF SSasl, ModeAfter
<1>19. QED
  BY <1>1, <1>2, <1>3, <1>4, <1>5, <1>6, <1>7, <1>8, <1>9, <1>10, <1>11, <1>12,
     <1>13, <1>14, <1>15, <1>16, <1>17, <1>18 DEF ServerStep, NetworkStep

\* A reply read, or a transport dropped, keeps the types of the wire.
LEMMA ConsumeType ==
    ASSUME ServerTypeOK, ReplyArrived, Consume \/ DropTransport,
           UNCHANGED <<c2s, server, faults>>
    PROVE  ServerTypeOK'
<1>1. s2c' \in Seq(Replies)
  BY HeadTailProperties, EmptySeq DEF ServerTypeOK, ReplyArrived, Consume, DropTransport
<1>2. link' \in {"up", "down"}
  BY DEF ServerTypeOK, Consume, DropTransport
<1>3. QED
  BY <1>1, <1>2 DEF ServerTypeOK, server

\* So does a transport dropped without one.
LEMMA DropType ==
    ASSUME ServerTypeOK, DropTransport, UNCHANGED <<c2s, server, faults>>
    PROVE  ServerTypeOK'
BY EmptySeq DEF ServerTypeOK, DropTransport, server

\* So does a command written.
LEMMA WriteServerType ==
    ASSUME ServerTypeOK, NEW cmd \in Commands, Write(cmd),
           UNCHANGED <<link, s2c, server, faults>>
    PROVE  ServerTypeOK'
BY WriteType DEF ServerTypeOK, server

\* The kind of error a reply that is not positive becomes.
LEMMA ErrorKindType ==
    ASSUME NEW r
    PROVE  ErrorKind(r) \in Results \cap {"transient", "permanent", "parsing", "io"}
<1>1. CASE r.severity = "TransientNegative"
  BY <1>1 DEF ErrorKind, Results, Rejections
<1>2. CASE r.severity = "PermanentNegative"
  BY <1>2 DEF ErrorKind, Results, Rejections
<1>3. CASE r.severity \notin {"TransientNegative", "PermanentNegative"}
  BY <1>3 DEF ErrorKind, Results, Rejections
<1>4. QED
  BY <1>1, <1>2, <1>3

\* The types of what the end of a call resets.
LEMMA ResetsType ==
    ASSUME Resets
    PROVE  /\ email' = NoEmail
           /\ sent' \in Nat
           /\ acked' \in 0 .. sent'
           /\ pipelining' \in BOOLEAN
           /\ mail_options' \in SUBSET {"8BITMIME", "SMTPUTF8"}
<1>1. email' = NoEmail /\ sent' \in Nat /\ acked' \in 0 .. sent'
  BY DEF Resets
<1>2. pipelining' \in BOOLEAN /\ mail_options' \in SUBSET {"8BITMIME", "SMTPUTF8"}
  BY DEF Resets
<1>3. QED
  BY <1>1, <1>2

\* The types after a result is noted.
LEMMA ResultType ==
    ASSUME result \in [Emails -> Results], NEW e \in Emails, NEW kind \in Results,
           result' = [result EXCEPT ![e] = kind]
    PROVE  result' \in [Emails -> Results]
OBVIOUS

\* A call that is given up keeps the types.
LEMMA GiveUpType ==
    ASSUME TypeOK, NEW kind \in Results, GiveUp(kind)
    PROVE  TypeOK'
<1>1. ServerTypeOK'
  BY DropType DEF TypeOK, GiveUp
<1>2. result' \in [Emails -> Results]
  BY ResultType DEF TypeOK, ClientTypeOK, GiveUp
<1>3. pc' = "dropped" /\ UNCHANGED <<server_info, conns>> /\ Resets
  BY DEF GiveUp, DropTransport
<1>4. ClientTypeOK'
  BY <1>2, <1>3, ResetsType DEF TypeOK, ClientTypeOK, PCs
<1>5. QED
  BY <1>1, <1>4 DEF TypeOK

\* A call that fails keeps them.
LEMMA FailType ==
    ASSUME TypeOK, pc = "send", NEW kind \in Results, NEW unread \in Seq(Replies),
           Fail(kind, unread), UNCHANGED <<c2s, server, faults, server_info, conns>>
    PROVE  TypeOK'
<1>1. s2c' \in Seq(Replies) /\ link' \in {"up", "down"} /\ pc' \in {"idle", "dropped"}
  BY EmptySeq DEF TypeOK, ServerTypeOK, Fail, KeepOrDrop, DropTransport
<1>2. ServerTypeOK'
  BY <1>1 DEF TypeOK, ServerTypeOK, server
<1>3. result' \in [Emails -> Results]
  BY ResultType DEF TypeOK, ClientTypeOK, Fail
<1>4. ClientTypeOK'
  BY <1>1, <1>3, ResetsType DEF TypeOK, ClientTypeOK, Fail, PCs
<1>5. QED
  BY <1>2, <1>4 DEF TypeOK

\* Every step of a call keeps them.
LEMMA CallType ==
    ASSUME TypeOK, CallStep
    PROVE  TypeOK'
<1>0. ServerTypeOK /\ ClientTypeOK
  BY DEF TypeOK
<1>1. CASE ReadGreeting
  <2>1. ServerTypeOK'
    BY <1>0, <1>1, ConsumeType DEF ReadGreeting
  <2>2. pc' \in {"hello", "dropped"}
    BY <1>1 DEF ReadGreeting, DropTransport
  <2>3. QED
    BY <1>0, <1>1, <2>1, <2>2 DEF ReadGreeting, TypeOK, ClientTypeOK, PCs, call
<1>2. CASE SendEhlo
  <2>1. ServerTypeOK'
    BY <1>0, <1>2, WriteServerType, PlainType DEF SendEhlo, PlainVerbs
  <2>2. QED
    BY <1>0, <1>2, <2>1 DEF SendEhlo, TypeOK, ClientTypeOK, PCs, AwaitsReply, call
<1>3. CASE ReadEhlo
  <2>1. ServerTypeOK'
    BY <1>0, <1>3, ConsumeType DEF ReadEhlo
  <2>2. pc' \in {"idle", "dropped"}
    BY <1>3 DEF ReadEhlo, DropTransport
  <2>3. server_info' \in SUBSET Features
    <3>1. response.words \in SUBSET Words
      BY <1>0, <1>3, ResponseType DEF ReadEhlo, ServerTypeOK, Replies
    <3>2. server_info' = response.words \ {"name"} \/ server_info' = server_info
      BY <1>3 DEF ReadEhlo
    <3>3. QED
      BY <1>0, <3>1, <3>2 DEF ClientTypeOK, Words
  <2>4. QED
    BY <1>0, <1>3, <2>1, <2>2, <2>3 DEF ReadEhlo, TypeOK, ClientTypeOK, PCs, call
<1>4. CASE WriteCommand \/ WriteMessage
  <2>1. Step(email, sent + 1) \in Commands
    BY <1>0, <1>4, StepType DEF ClientTypeOK, WriteCommand, WriteMessage
  <2>2. ServerTypeOK'
    BY <1>0, <1>4, <2>1, WriteServerType DEF WriteCommand, WriteMessage
  <2>3. /\ sent' = sent + 1
        /\ UNCHANGED <<pc, email, acked, pipelining, mail_options, server_info, result, conns>>
    BY <1>4 DEF WriteCommand, WriteMessage
  <2>4. sent' \in Nat /\ acked' \in 0 .. sent'
    BY <1>0, <2>3 DEF ClientTypeOK
  <2>5. QED
    BY <1>0, <2>2, <2>3, <2>4 DEF TypeOK, ClientTypeOK
<1>5. CASE ReaderFails
  BY <1>0, <1>5, FailType DEF ReaderFails, ServerTypeOK, Results, Rejections
<1>6. CASE ReadStepReply
  <2>1. ServerTypeOK'
    BY <1>0, <1>6, ConsumeType DEF ReadStepReply
  <2>2. QED
    BY <1>0, <1>6, <2>1 DEF ReadStepReply, MayRead, TypeOK, ClientTypeOK
<1>7. CASE ReadFinalReply
  <2>1. ServerTypeOK'
    BY <1>0, <1>7, ConsumeType DEF ReadFinalReply
  <2>2. result' \in [Emails -> Results]
    BY <1>0, <1>7, ResultType DEF ReadFinalReply, ClientTypeOK, Results
  <2>3. QED
    BY <1>0, <1>7, <2>1, <2>2, ResetsType DEF ReadFinalReply, TypeOK, ClientTypeOK, PCs
<1>8. CASE ReadNegativeReply
  <2>1. Tail(s2c) \in Seq(Replies)
    BY <1>0, <1>8, ResponseType DEF ReadNegativeReply, ServerTypeOK
  <2>2. ErrorKind(response) \in Results
    BY ErrorKindType
  <2>3. QED
    BY <1>8, <2>1, <2>2, FailType DEF ReadNegativeReply
<1>9. CASE ReadQuit
  <2>1. (Consume \/ DropTransport) /\ pc' \in {"idle", "dropped"}
    BY <1>9 DEF ReadQuit, KeepOrDrop, Consume, DropTransport
  <2>2. ServerTypeOK'
    BY <1>0, <1>9, <2>1, ConsumeType DEF ReadQuit
  <2>3. QED
    BY <1>0, <1>9, <2>1, <2>2 DEF ReadQuit, TypeOK, ClientTypeOK, PCs, call
<1>10. CASE ReadStarttls
  <2>1. ServerTypeOK'
    BY <1>0, <1>10, ConsumeType DEF ReadStarttls
  <2>2. pc' \in {"upgrade", "dropped"}
    BY <1>10 DEF ReadStarttls, DropTransport
  <2>3. QED
    BY <1>0, <1>10, <2>1, <2>2 DEF ReadStarttls, TypeOK, ClientTypeOK, PCs, call
<1>11. CASE ReadEof \/ WriteFails
  BY <1>11, GiveUpType DEF ReadEof, WriteFails, Results
<1>12. CASE ReadChallenge
  <2>1. ServerTypeOK'
    BY <1>0, <1>12, ConsumeType DEF ReadChallenge
  <2>2. acked' \in 0 .. sent
    BY <1>0, <1>12 DEF ReadChallenge, ClientTypeOK, TypeOK
  <2>3. QED
    BY <1>0, <1>12, <2>1, <2>2 DEF ReadChallenge, TypeOK, ClientTypeOK, PCs
<1>13. CASE Respond
  <2>1. ServerTypeOK'
    BY <1>0, <1>13, WriteServerType, PlainType DEF Respond, PlainVerbs
  <2>2. sent' \in Nat /\ acked' \in 0 .. sent' /\ acked' < sent'
    BY <1>0, <1>13 DEF Respond, ClientTypeOK
  <2>3. QED
    BY <1>0, <1>13, <2>1, <2>2 DEF Respond, TypeOK, ClientTypeOK, PCs, AwaitsReply
<1>14. CASE RespondFails \/ ReadAuthReply
  <2>1. ServerTypeOK'
    <3>1. CASE RespondFails
      BY <1>0, <3>1, DropType DEF RespondFails, KeepOrDrop, ServerTypeOK, server
    <3>2. CASE ReadAuthReply
      <4>1. Consume \/ DropTransport
        BY <3>2 DEF ReadAuthReply, KeepOrDrop, Consume
      <4>2. QED
        BY <1>0, <3>2, <4>1, ConsumeType DEF ReadAuthReply
    <3>3. QED
      BY <1>14, <3>1, <3>2
  <2>2. pc' \in {"idle", "dropped"} /\ Resets /\ UNCHANGED <<server_info, result, conns>>
    BY <1>14 DEF RespondFails, ReadAuthReply, KeepOrDrop, DropTransport
  <2>3. QED
    BY <1>0, <2>1, <2>2, ResetsType DEF TypeOK, ClientTypeOK, PCs
<1>15. QED
  BY <1>1, <1>2, <1>3, <1>4, <1>5, <1>6, <1>7, <1>8, <1>9, <1>10, <1>11, <1>12, <1>13,
     <1>14 DEF CallStep

\* Every step of the caller keeps them.
LEMMA CallerType ==
    ASSUME TypeOK, CallerStep
    PROVE  TypeOK'
<1>0. ServerTypeOK /\ ClientTypeOK
  BY DEF TypeOK
<1>1. CASE Connect
  BY <1>0, <1>1, ClientAssumption
     DEF Connect, TypeOK, ServerTypeOK, ServerModes, ClientTypeOK, PCs, AwaitsReply, call
<1>2. CASE \E e \in Emails : Send(e)
  <2>1. PICK e \in Emails : Send(e)
    BY <1>2
  <2>2. ServerTypeOK'
    BY <1>0, <2>1 DEF Send, ServerTypeOK, serverVars
  <2>3. result' \in [Emails -> Results]
    BY <1>0, <2>1, ResultType DEF Send, ClientTypeOK, Results
  <2>4. pipelining' \in BOOLEAN
    BY <2>1, ClientAssumption DEF Send
  <2>5. mail_options' \in SUBSET {"8BITMIME", "SMTPUTF8"}
    BY <2>1 DEF Send
  <2>6. /\ pc' = "send" /\ email' = e /\ sent' = 0 /\ acked' = 0
        /\ UNCHANGED <<server_info, conns>>
    BY <2>1 DEF Send
  <2>7. QED
    BY <1>0, <2>2, <2>3, <2>4, <2>5, <2>6 DEF TypeOK, ClientTypeOK, PCs, AwaitsReply
<1>3. CASE Quit
  <2>1. ServerTypeOK'
    BY <1>0, <1>3, WriteServerType, PlainType DEF Quit, PlainVerbs
  <2>2. QED
    BY <1>0, <1>3, <2>1 DEF Quit, TypeOK, ClientTypeOK, PCs, AwaitsReply, call
<1>4. CASE StarttlsUnsupported \/ Drop
  <2>1. ServerTypeOK'
    BY <1>0, <1>4, DropType DEF StarttlsUnsupported, Drop
  <2>2. QED
    BY <1>0, <1>4, <2>1
       DEF StarttlsUnsupported, Drop, DropTransport, TypeOK, ClientTypeOK, PCs, call
<1>5. CASE Starttls
  <2>1. ServerTypeOK'
    BY <1>0, <1>5, WriteServerType, PlainType DEF Starttls, PlainVerbs
  <2>2. QED
    BY <1>0, <1>5, <2>1 DEF Starttls, TypeOK, ClientTypeOK, PCs, AwaitsReply, call
<1>6. CASE UpgradeTls
  <2>1. NoTransaction \in Transactions /\ NoTransaction.to = {}
    BY DEF NoTransaction, Transactions
  <2>2. ServerTypeOK'
    BY <1>0, <1>6, <2>1 DEF UpgradeTls, ServerTypeOK, ServerModes
  <2>3. QED
    BY <1>0, <1>6, <2>2 DEF UpgradeTls, TypeOK, ClientTypeOK, PCs, AwaitsReply, call
<1>7. CASE Cancel
  BY <1>7, GiveUpType DEF Cancel, Results
<1>8. CASE Abandon
  <2>1. Fragment \in Commands /\ Piece \in Commands
    BY PlainType DEF Fragment, Piece, PlainVerbs, Fragments
  <2>2. c2s' \in Seq(Commands)
    <3>1. \/ c2s' = c2s
          \/ c2s' = Append(c2s, Fragment)
          \/ c2s' = Append(c2s, Piece)
      BY <1>8 DEF Abandon, WriteCut
    <3>2. c2s \in Seq(Commands)
      BY <1>0 DEF ServerTypeOK
    <3>3. Append(c2s, Fragment) \in Seq(Commands)
      BY <2>1, <3>2, AppendProperties
    <3>4. Append(c2s, Piece) \in Seq(Commands)
      BY <2>1, <3>2, AppendProperties
    <3>5. QED
      BY <3>1, <3>2, <3>3, <3>4
  <2>3. ServerTypeOK'
    BY <1>0, <1>8, <2>2 DEF Abandon, ServerTypeOK, server
  <2>4. result' \in [Emails -> Results]
    <3>1. CASE pc = "send"
      BY <1>0, <1>8, <3>1, ResultType DEF Abandon, ClientTypeOK, Results
    <3>2. CASE pc # "send"
      BY <1>0, <1>8, <3>2 DEF Abandon, ClientTypeOK
    <3>3. QED
      BY <3>1, <3>2
  <2>5. /\ pc' = "idle" /\ Resets /\ UNCHANGED <<server_info, conns>>
    BY <1>8 DEF Abandon
  <2>6. QED
    BY <1>0, <2>3, <2>4, <2>5, ResetsType DEF TypeOK, ClientTypeOK, PCs
<1>9. CASE Auth
  <2>1. ServerTypeOK'
    BY <1>0, <1>9, WriteServerType, PlainType DEF Auth, PlainVerbs
  <2>2. QED
    BY <1>0, <1>9, <2>1 DEF Auth, TypeOK, ClientTypeOK, PCs, AwaitsReply
<1>10. QED
  BY <1>1, <1>2, <1>3, <1>4, <1>5, <1>6, <1>7, <1>8, <1>9 DEF CallerStep

\* Every step keeps them.
LEMMA NextType ==
    ASSUME TypeOK, [Next]_vars
    PROVE  TypeOK'
<1>1. CASE CallStep
  BY <1>1, CallType
<1>2. CASE CallerStep
  BY <1>2, CallerType
<1>3. CASE ServerMoves \/ NetworkMoves
  BY <1>3, ServerType DEF ServerMoves, NetworkMoves, TypeOK, ClientTypeOK, clientVars, call
<1>4. CASE UNCHANGED vars
  BY <1>4 DEF vars, serverVars, clientVars, call, TypeOK, ServerTypeOK, ClientTypeOK
<1>5. QED
  BY <1>1, <1>2, <1>3, <1>4 DEF Next, Finished

\* Every variable keeps its type: in particular the server never takes a message
\* without a sender, and `send` is only ever under way for an email.
THEOREM TypeCorrect == Spec => []TypeOK
<1>1. Init => TypeOK
  BY InitType
<1>2. TypeOK /\ [Next]_vars => TypeOK'
  BY NextType
<1>3. QED
  BY <1>1, <1>2, PTL DEF Spec

-----------------------------------------------------------------------------
(* The script of an email, and what each move does to the channels *)

\* The script of an email: its steps are numbered, DATA is the last but one, the
\* content the last.
LEMMA ScriptFacts ==
    ASSUME NEW e \in Emails
    PROVE  /\ DataStep(e) \in Nat /\ DataStep(e) >= 3
           /\ ScriptLength(e) = DataStep(e) + 1
           /\ \A k \in 1 .. ScriptLength(e) :
                /\ Step(e, k).email = e
                /\ Step(e, k).n = k
                /\ Step(e, k).verb \in ScriptVerbs
                /\ Step(e, k).verb = "DATA" <=> k = DataStep(e)
                /\ Step(e, k).verb = "BODY" <=> k = ScriptLength(e)
<1>1. RcptCount[e] \in Nat \ {0}
  BY RcptAssumption
<1>2. QED
  BY <1>1 DEF DataStep, ScriptLength, Step, ScriptVerbs

\* The server says a reply behind those on their way, if there is a connection.
LEMMA SayAdds ==
    ASSUME s2c \in Seq(Replies), NEW r \in Replies, Say(r)
    PROVE  /\ link = "up" =>
                 /\ s2c' # <<>>
                 /\ Len(s2c') = Len(s2c) + 1
                 /\ \A i \in 1 .. Len(s2c) : s2c'[i] = s2c[i]
                 /\ s2c'[Len(s2c) + 1] = r
           /\ link # "up" => s2c' = s2c
BY AppendProperties DEF Say

\* A command taken moves the others up by one.
LEMMA TakeShifts ==
    ASSUME c2s \in Seq(Commands), c2s # <<>>, c2s' = Tail(c2s)
    PROVE  /\ Len(c2s) \in Nat \ {0}
           /\ Head(c2s) = c2s[1]
           /\ c2s[1] \in Commands
           /\ Len(c2s') = Len(c2s) - 1
           /\ \A i \in 1 .. Len(c2s') : c2s'[i] = c2s[i + 1]
BY HeadTailProperties, EmptySeq

\* A command written is behind those on their way, if there is a connection.
LEMMA WriteAdds ==
    ASSUME c2s \in Seq(Commands), NEW cmd \in Commands, Write(cmd)
    PROVE  /\ link = "up" =>
                 /\ Len(c2s') = Len(c2s) + 1
                 /\ \A i \in 1 .. Len(c2s) : c2s'[i] = c2s[i]
                 /\ c2s'[Len(c2s) + 1] = cmd
           /\ link # "up" => c2s' = c2s
BY AppendProperties DEF Write

\* A reply read moves the others up by one.
LEMMA ConsumeShifts ==
    ASSUME s2c \in Seq(Replies), ReplyArrived
    PROVE  /\ Len(s2c) \in Nat \ {0}
           /\ response = s2c[1]
           /\ response \in Replies
           /\ Tail(s2c) \in Seq(Replies)
           /\ Len(Tail(s2c)) = Len(s2c) - 1
           /\ \A i \in 1 .. Len(Tail(s2c)) : Tail(s2c)[i] = s2c[i + 1]
BY HeadTailProperties, EmptySeq DEF ReplyArrived, response

\* An answer without strays is a reply.
LEMMA NoStrays ==
    ASSUME s2c \in Seq(Replies), NEW r \in Replies, AnswerMore(r, 0)
    PROVE  Say(r)
<1>1. Append(s2c, r) \in Seq(Replies)
  BY AppendProperties
<1>2. Strays(r.to, 0) \in Seq(Replies) /\ Len(Strays(r.to, 0)) = 0
  <2>1. Strays(r.to, 0) \in Seq(Replies)
    BY StraysType DEF Replies
  <2>2. DOMAIN Strays(r.to, 0) = 1 .. 0
    BY DEF Strays
  <2>3. QED
    BY <2>1, <2>2, LenProperties
<1>3. Strays(r.to, 0) = <<>>
  BY <1>2, EmptySeq
<1>4. Append(s2c, r) \o Strays(r.to, 0) = Append(s2c, r)
  BY <1>1, <1>3, ConcatEmptySeq
<1>5. QED
  BY <1>4 DEF AnswerMore, Say

\* How many replies are awaited is a number.
LEMMA OutstandingType ==
    ASSUME ClientTypeOK
    PROVE  Outstanding \in Nat
BY DEF ClientTypeOK, Outstanding

\* No call awaits the 421 of a server that leaves.
LEMMA UnsolicitedUnawaited ==
    ASSUME ClientTypeOK, NEW i \in Nat
    PROVE  Awaited(i) # Unsolicited
BY DEF ClientTypeOK, Awaited, Unsolicited, Plain, Greeting, Step

-----------------------------------------------------------------------------
(* Steps that cannot put the stream out of step *)

\* A transport is kept only with nothing in flight and a server that waits for a
\* command, and no empty message is taken.
TidyStep ==
    /\ Live /\ SBody => Head(c2s).email \notin EmptyMessages
    /\ ReaderFails => DropTransport
    /\ ReadNegativeReply =>
         DropTransport \/ (sent = acked + 1 /\ response.severity \in Negative)
    /\ RespondFails => DropTransport
    /\ ReadAuthReply =>
         DropTransport \/ response.severity \in Negative \cup (Positive \ {"Challenge"})
    /\ Abandon => BetweenCommands /\ UNCHANGED c2s

\* An orderly caller takes no other steps.
LEMMA OrderlyIsTidy ==
    ASSUME Orderly, TypeOK, SyncInv
    PROVE  TidyStep
<1>1. \/ Reuse \subseteq {"between"}
      \/ ~Pipelining /\ Reuse \subseteq {"transient", "permanent", "between"}
  BY DEF Orderly
<1>2. ASSUME NEW r, NEW unread, KeepOrDrop(ErrorKind(r), unread), ~DropTransport
      PROVE  r.severity \in Negative /\ ~Pipelining
  <2>1. ErrorKind(r) \in {"transient", "permanent"} /\ ~Pipelining
    BY <1>1, <1>2 DEF KeepOrDrop, ErrorKind
  <2> QED
    BY <2>1 DEF ErrorKind, Negative
<1>3. ReaderFails => DropTransport
  BY <1>1 DEF ReaderFails, Fail, KeepOrDrop
<1>4. RespondFails => DropTransport
  BY <1>1 DEF RespondFails, KeepOrDrop
<1>5. ASSUME ReadNegativeReply, ~DropTransport
      PROVE  sent = acked + 1 /\ response.severity \in Negative
  <2>1. /\ response.severity \in Negative /\ ~Pipelining
        /\ pc = "send" /\ acked < sent
    BY <1>2, <1>5 DEF ReadNegativeReply, Fail, MayRead
  <2>2. sent \in Nat /\ acked \in Nat /\ sent <= acked + 1
    BY <2>1 DEF TypeOK, ClientTypeOK, SyncInv, InvCall
  <2> QED
    BY <2>1, <2>2
<1>6. ASSUME ReadAuthReply, ~DropTransport
      PROVE  response.severity \in Negative \cup (Positive \ {"Challenge"})
  <2>1. CASE is_positive(response) /\ response.severity # "Challenge"
    BY <2>1 DEF is_positive
  <2>2. CASE is_positive(response) /\ sent > Challenges /\ KeepOrDrop("parsing", Tail(s2c))
    BY <1>1, <1>6, <2>2 DEF KeepOrDrop
  <2>3. CASE KeepOrDrop(ErrorKind(response), Tail(s2c))
    BY <1>2, <1>6, <2>3
  <2> QED
    BY <1>6, <2>1, <2>2, <2>3 DEF ReadAuthReply
<1>7. (Abandon => BetweenCommands /\ UNCHANGED c2s) /\ EmptyMessages = {}
  BY <1>1 DEF Abandon, Orderly
<1> QED
  BY <1>3, <1>4, <1>5, <1>6, <1>7 DEF TidyStep

-----------------------------------------------------------------------------
(* The server keeps SyncInv *)

\* Whatever the server answers to a command it took, the replies stay in the
\* order of the commands.
LEMMA AnswerKeepsOrder ==
    ASSUME TypeOK, SyncInv, smode \notin {"greet", "closed"},
           c2s # <<>>, c2s' = Tail(c2s), NEW r \in Replies, r.to = Head(c2s), Say(r),
           smode' # "greet", UNCHANGED <<link, clientVars>>
    PROVE  InvDropped' /\ InvCall' /\ InvAuth' /\ InvReplies' /\ InvInFlight'
<1>0. /\ ServerTypeOK /\ ClientTypeOK /\ Outstanding \in Nat
      /\ s2c \in Seq(Replies) /\ Len(s2c) \in Nat
      /\ c2s \in Seq(Commands) /\ Len(c2s) \in Nat
  BY OutstandingType, LenProperties DEF TypeOK, ServerTypeOK
<1>1. UNCHANGED <<link, pc, email, sent, acked, pipelining>>
  BY DEF clientVars, call
<1>3. InvCall' /\ InvAuth'
  BY <1>1 DEF SyncInv, InvCall, InvAuth
<1>4. InvDropped'
  BY <1>0, <1>1, SayAdds DEF SyncInv, InvDropped
<1>5. CASE link # "up"
  <2>1. s2c' = s2c
    BY <1>0, <1>5, SayAdds
  <2>2. InvReplies'
    BY <1>1, <2>1 DEF SyncInv, InvReplies, Awaited, Outstanding
  <2>3. InvInFlight'
    BY <1>1, <1>5 DEF InvInFlight, Live
  <2>4. QED
    BY <1>3, <1>4, <2>2, <2>3
<1>6. CASE link = "up"
  <2>1. /\ Len(s2c') = Len(s2c) + 1
        /\ \A i \in 1 .. Len(s2c) : s2c'[i] = s2c[i]
        /\ s2c'[Len(s2c) + 1] = r
    BY <1>0, <1>6, SayAdds
  <2>2. /\ Len(c2s) >= 1
        /\ r.to = c2s[1]
        /\ Len(c2s') = Len(c2s) - 1
        /\ \A i \in 1 .. Len(c2s') : c2s'[i] = c2s[i + 1]
    BY <1>0, TakeShifts
  <2>3. /\ Len(s2c) + Len(c2s) = Outstanding
        /\ \A i \in 1 .. Len(c2s) : c2s[i] = Awaited(Len(s2c) + i)
    BY <1>6 DEF SyncInv, InvInFlight, Live
  <2>4. InvReplies'
    <3>1. \A i \in 1 .. Len(s2c) : i <= Outstanding /\ s2c[i].to = Awaited(i)
      BY DEF SyncInv, InvReplies
    <3>2. r.to = Awaited(Len(s2c) + 1) /\ Len(s2c) + 1 <= Outstanding
      BY <1>0, <2>2, <2>3
    <3>3. ASSUME NEW i \in 1 .. Len(s2c')
          PROVE  i <= Outstanding /\ s2c'[i].to = Awaited(i)
      <4>1. CASE i = Len(s2c) + 1
        BY <2>1, <3>2, <4>1
      <4>2. CASE i \in 1 .. Len(s2c)
        BY <2>1, <3>1, <4>2
      <4>3. QED
        BY <1>0, <2>1, <4>1, <4>2
    <3>4. QED
      BY <1>1, <3>3 DEF InvReplies, Awaited, Outstanding
  <2>5. InvInFlight'
    <3>1. Len(s2c') + Len(c2s') = Outstanding
      <4>1. Len(s2c') = Len(s2c) + 1 /\ Len(c2s') = Len(c2s) - 1
        BY <2>1, <2>2
      <4>2. Len(s2c) + Len(c2s) = Outstanding
        BY <2>3
      <4>3. Len(s2c) \in Nat /\ Len(c2s) \in Nat
        BY <1>0
      <4>4. QED
        BY <4>1, <4>2, <4>3
    <3>2. ASSUME NEW i \in 1 .. Len(c2s')
          PROVE  c2s'[i] = Awaited(Len(s2c') + i)
      BY <1>0, <2>1, <2>2, <2>3
    <3>3. QED
      BY <1>1, <3>1, <3>2 DEF InvInFlight, Awaited, Outstanding
  <2>6. QED
    BY <1>3, <1>4, <2>4, <2>5
<1>7. QED
  BY <1>5, <1>6

\* What the server reads while both ends are alive is the command the next
\* missing reply has to answer.
LEMMA HeadAwaited ==
    ASSUME TypeOK, SyncInv, Live, smode # "greet", c2s # <<>>
    PROVE  /\ Head(c2s) = Awaited(Len(s2c) + 1)
           /\ pc \in AwaitsReply
           /\ (pc = "send" \/ Head(c2s).verb \in ScriptVerbs) =>
                /\ pc = "send"
                /\ email \in Emails
                /\ acked + Len(s2c) + 1 \in 1 .. ScriptLength(email)
                /\ acked + Len(s2c) + 1 <= sent
                /\ Head(c2s) = Step(email, acked + Len(s2c) + 1)
<1>0. /\ Len(s2c) \in Nat
      /\ Len(c2s) \in Nat \ {0} /\ 1 \in 1 .. Len(c2s)
      /\ Head(c2s) = c2s[1]
      /\ sent \in Nat /\ acked \in 0 .. sent
      /\ pc = "send" => email \in Emails
      /\ Outstanding \in Nat
  BY EmptySeq, LenProperties, HeadTailProperties, OutstandingType
     DEF TypeOK, ServerTypeOK, ClientTypeOK
<1>1. /\ Len(s2c) + Len(c2s) = Outstanding
      /\ Head(c2s) = Awaited(Len(s2c) + 1)
  BY <1>0 DEF SyncInv, InvInFlight, Live
<1>2. pc \in AwaitsReply
  <2>1. Outstanding # 0
    BY <1>0, <1>1
  <2>2. QED
    BY <2>1 DEF Outstanding, AwaitsReply
<1>3. Head(c2s).verb \in ScriptVerbs => pc = "send"
  BY <1>1, <1>2 DEF Awaited, AwaitsReply, ScriptVerbs, Greeting, Plain
<1>4. ASSUME pc = "send"
      PROVE  /\ email \in Emails
             /\ acked + Len(s2c) + 1 \in 1 .. ScriptLength(email)
             /\ acked + Len(s2c) + 1 <= sent
             /\ Head(c2s) = Step(email, acked + Len(s2c) + 1)
  <2>1. email \in Emails
    BY <1>0, <1>4
  <2>2. Outstanding = sent - acked
    BY <1>4 DEF Outstanding
  <2>3. sent <= ScriptLength(email)
    BY <1>4 DEF SyncInv, InvCall
  <2>4. ScriptLength(email) \in Nat
    BY <2>1, ScriptFacts
  <2>5. acked + Len(s2c) + 1 <= sent
    BY <1>0, <1>1, <2>2
  <2>6. acked + Len(s2c) + 1 \in 1 .. ScriptLength(email)
    BY <1>0, <2>3, <2>4, <2>5
  <2>7. Awaited(Len(s2c) + 1) = Step(email, acked + (Len(s2c) + 1))
    BY <1>4 DEF Awaited
  <2>8. acked + (Len(s2c) + 1) = acked + Len(s2c) + 1
    BY <1>0
  <2>9. QED
    BY <1>1, <2>1, <2>5, <2>6, <2>7, <2>8
<1>5. QED
  BY <1>1, <1>2, <1>3, <1>4

\* Content is only on its way to a server that reads content.
LEMMA ContentInDataMode ==
    ASSUME TypeOK, SyncInv, Live, smode # "greet", c2s # <<>>, Head(c2s).verb = "BODY"
    PROVE  smode = "data"
<1>1. /\ pc = "send" /\ email \in Emails
      /\ acked + Len(s2c) + 1 \in 1 .. ScriptLength(email)
      /\ acked + Len(s2c) + 1 <= sent
      /\ Head(c2s) = Step(email, acked + Len(s2c) + 1)
  BY HeadAwaited DEF ScriptVerbs
<1>2. /\ Len(s2c) \in Nat /\ sent \in Nat /\ acked \in Nat
      /\ sent <= ScriptLength(email)
      /\ sent = ScriptLength(email) => acked = DataStep(email)
  BY <1>1, LenProperties DEF TypeOK, ServerTypeOK, ClientTypeOK, SyncInv, InvCall
<1>3. acked + Len(s2c) + 1 = ScriptLength(email)
  BY <1>1, ScriptFacts
<1>4. /\ ScriptLength(email) = DataStep(email) + 1
      /\ DataStep(email) \in Nat
  BY <1>1, ScriptFacts
<1>5. acked = DataStep(email) /\ Len(s2c) = 0
  BY <1>1, <1>2, <1>3, <1>4
<1>6. s2c = <<>>
  BY <1>5, EmptySeq DEF TypeOK, ServerTypeOK
<1>7. acked + Len(s2c) = DataStep(email)
  BY <1>2, <1>5
<1>8. QED
  BY <1>1, <1>6, <1>7 DEF SyncInv, InvData

\* Only `auth` awaits the reply to a line of a login.
LEMMA LoginAwaited ==
    ASSUME pc \in AwaitsReply, NEW i, Awaited(i) \in {Plain("AUTH"), Plain("SASL")}
    PROVE  pc = "auth"
BY DEF Awaited, AwaitsReply, Plain, Greeting, Step

\* A reply that is no 354 leaves the server reading commands, and only a 334 has it
\* wait for more of a login.
LEMMA AnswerKeepsMode ==
    ASSUME TypeOK, SyncInv, smode \notin {"greet", "closed"},
           c2s # <<>>, NEW r \in Replies, r.to = Head(c2s), Say(r),
           ~is_positive(r) \/ Head(c2s).verb # "DATA",
           smode' # "data", UNCHANGED <<link, clientVars>>,
           smode' = "sasl" =>
              r.severity = "Challenge" /\ Head(c2s) \in {Plain("AUTH"), Plain("SASL")}
    PROVE  InvData' /\ InvLogin'
<1>1. UNCHANGED <<link, pc, email, sent, acked, pipelining>>
  BY DEF clientVars, call
<1>2. CASE link # "up"
  BY <1>1, <1>2 DEF InvData, InvLogin, Live
<1>3. CASE link = "up"
  <2>1. /\ s2c \in Seq(Replies) /\ Len(s2c) \in Nat
        /\ Len(s2c') = Len(s2c) + 1 /\ s2c' # <<>> /\ s2c'[Len(s2c) + 1] = r
    BY <1>3, SayAdds, LenProperties DEF TypeOK, ServerTypeOK
  <2>2. ASSUME pc = "send", acked + Len(s2c') = DataStep(email)
        PROVE  Head(c2s).verb = "DATA"
    <3>1. /\ email \in Emails
          /\ acked + Len(s2c) + 1 \in 1 .. ScriptLength(email)
          /\ Head(c2s) = Step(email, acked + Len(s2c) + 1)
      BY <1>3, <2>2, HeadAwaited DEF Live
    <3>2. acked \in Nat
      BY DEF TypeOK, ClientTypeOK
    <3>3. acked + Len(s2c) + 1 = DataStep(email)
      BY <2>1, <2>2, <3>2
    <3>4. QED
      BY <3>1, <3>3, ScriptFacts
  <2>3. (pc = "send" /\ acked + Len(s2c') = DataStep(email)) => ~is_positive(s2c'[Len(s2c')])
    BY <2>1, <2>2
  <2>4. InvData'
    BY <1>1, <2>1, <2>3 DEF InvData, LastReply, is_positive
  <2>5. smode' = "sasl" => pc = "auth"
    BY <1>3, HeadAwaited, LoginAwaited DEF Live
  <2>6. InvLogin'
    BY <1>1, <2>1, <2>5 DEF InvLogin, LastReply, Negative
  <2>7. QED
    BY <2>4, <2>6
<1>4. QED
  BY <1>2, <1>3

\* The server answers each command once, in their order.
LEMMA ServerKeepsSync ==
    ASSUME TypeOK, SyncInv, TidyStep, ServerStep \/ NetworkStep, UNCHANGED clientVars
    PROVE  SyncInv'
<1>0. /\ ServerTypeOK /\ ClientTypeOK
      /\ s2c \in Seq(Replies) /\ Len(s2c) \in Nat
      /\ c2s \in Seq(Commands) /\ Len(c2s) \in Nat
      /\ UNCHANGED <<pc, email, sent, acked, pipelining>>
  BY LenProperties DEF TypeOK, ServerTypeOK, clientVars, call
<1>1. CASE SGreet
  <2>1. PICK sev \in Severities : Say(Reply(sev, Greeting))
    BY <1>1 DEF SGreet, Answer, Severities, Positive, Negative
  <2>2. Reply(sev, Greeting) \in Replies /\ Reply(sev, Greeting).to = Greeting
    BY ReplyType, PlainType DEF Greeting, PlainVerbs, Reply
  <2>3. /\ smode = "greet" /\ smode' \in {"command", "closed"} /\ UNCHANGED <<link, c2s>>
    BY <1>1 DEF SGreet
  <2>4. CASE link # "up"
    <3>1. s2c' = s2c
      BY <1>0, <2>1, <2>2, <2>4, SayAdds
    <3>2. QED
      BY <1>0, <2>3, <2>4, <3>1
         DEF SyncInv, InvDropped, InvCall, InvAuth, InvReplies, InvInFlight, InvData, InvLogin, Live,
             Awaited, Outstanding
  <2>5. CASE link = "up"
    <3>1. pc = "greeting" /\ c2s = <<>> /\ s2c = <<>>
      BY <2>3, <2>5 DEF SyncInv, InvInFlight, Live
    <3>2. Len(s2c') = 1 /\ s2c'[1] = Reply(sev, Greeting) /\ Len(c2s') = 0
      BY <1>0, <2>1, <2>2, <2>3, <2>5, <3>1, SayAdds, EmptySeq
    <3>3. InvReplies'
      BY <1>0, <2>2, <3>1, <3>2 DEF InvReplies, Outstanding, Awaited, AwaitsReply
    <3>4. InvInFlight'
      BY <1>0, <2>3, <3>1, <3>2 DEF InvInFlight, Outstanding, AwaitsReply
    <3>5. QED
      BY <1>0, <2>3, <3>1, <3>3, <3>4
         DEF SyncInv, InvDropped, InvCall, InvAuth, InvData, InvLogin
  <2>6. QED
    BY <2>4, <2>5
<1>2. CASE SEhlo
  <2>1. /\ Head(c2s) \in Commands /\ c2s # <<>> /\ c2s' = Tail(c2s)
        /\ Head(c2s).verb # "DATA"
    BY <1>0, <1>2, TakeType DEF SEhlo, Take, ServerTypeOK
  <2>2. PICK words \in SUBSET Words :
            Say([severity |-> "PositiveCompletion", to |-> Head(c2s), words |-> words])
    BY <1>2 DEF SEhlo, Answer
  <2>3. [severity |-> "PositiveCompletion", to |-> Head(c2s), words |-> words] \in Replies
    BY <2>1 DEF Replies, Severities, Positive
  <2>4. smode = "command" /\ smode' = "command" /\ UNCHANGED link
    BY <1>2 DEF SEhlo
  <2>5. QED
    BY <2>1, <2>2, <2>3, <2>4, AnswerKeepsOrder, AnswerKeepsMode DEF SyncInv
<1>3. CASE SMail
  <2>1. /\ Head(c2s) \in Commands /\ c2s # <<>> /\ c2s' = Tail(c2s)
        /\ Head(c2s).verb # "DATA"
    BY <1>0, <1>3, TakeType DEF SMail, Take, ServerTypeOK
  <2>2. /\ Reply("PositiveCompletion", Head(c2s)) \in Replies
        /\ Reply("PositiveCompletion", Head(c2s)).to = Head(c2s)
    BY <2>1, ReplyType DEF Severities, Positive, Reply
  <2>3. /\ Say(Reply("PositiveCompletion", Head(c2s)))
        /\ smode = "command" /\ smode' \notin {"greet", "data", "sasl"} /\ UNCHANGED link
    BY <1>3 DEF SMail, Answer
  <2>4. QED
    BY <2>1, <2>2, <2>3, AnswerKeepsOrder, AnswerKeepsMode DEF SyncInv
<1>4. CASE SRcpt
  <2>1. /\ Head(c2s) \in Commands /\ c2s # <<>> /\ c2s' = Tail(c2s)
        /\ Head(c2s).verb # "DATA"
    BY <1>0, <1>4, TakeType DEF SRcpt, Take, ServerTypeOK
  <2>2. /\ Reply("PositiveCompletion", Head(c2s)) \in Replies
        /\ Reply("PositiveCompletion", Head(c2s)).to = Head(c2s)
    BY <2>1, ReplyType DEF Severities, Positive, Reply
  <2>3. /\ Say(Reply("PositiveCompletion", Head(c2s)))
        /\ smode = "command" /\ smode' \notin {"greet", "data", "sasl"} /\ UNCHANGED link
    BY <1>4 DEF SRcpt, Answer
  <2>4. QED
    BY <2>1, <2>2, <2>3, AnswerKeepsOrder, AnswerKeepsMode DEF SyncInv
<1>5. CASE SQuit
  <2>1. /\ Head(c2s) \in Commands /\ c2s # <<>> /\ c2s' = Tail(c2s)
        /\ Head(c2s).verb # "DATA"
    BY <1>0, <1>5, TakeType DEF SQuit, Take, ServerTypeOK
  <2>2. /\ Reply("PositiveCompletion", Head(c2s)) \in Replies
        /\ Reply("PositiveCompletion", Head(c2s)).to = Head(c2s)
    BY <2>1, ReplyType DEF Severities, Positive, Reply
  <2>3. /\ Say(Reply("PositiveCompletion", Head(c2s)))
        /\ smode = "command" /\ smode' \notin {"greet", "data", "sasl"} /\ UNCHANGED link
    BY <1>5 DEF SQuit, Answer
  <2>4. QED
    BY <2>1, <2>2, <2>3, AnswerKeepsOrder, AnswerKeepsMode DEF SyncInv
<1>6. CASE SStarttls
  <2>1. /\ Head(c2s) \in Commands /\ c2s # <<>> /\ c2s' = Tail(c2s)
        /\ Head(c2s).verb # "DATA"
    BY <1>0, <1>6, TakeType DEF SStarttls, Take, ServerTypeOK
  <2>2. /\ Reply("PositiveCompletion", Head(c2s)) \in Replies
        /\ Reply("PositiveCompletion", Head(c2s)).to = Head(c2s)
    BY <2>1, ReplyType DEF Severities, Positive, Reply
  <2>3. /\ Say(Reply("PositiveCompletion", Head(c2s)))
        /\ smode = "command" /\ smode' \notin {"greet", "data", "sasl"} /\ UNCHANGED link
    BY <1>6 DEF SStarttls, Answer
  <2>4. QED
    BY <2>1, <2>2, <2>3, AnswerKeepsOrder, AnswerKeepsMode DEF SyncInv
<1>7. CASE SData
  <2> DEFINE r == Reply("PositiveIntermediate", Head(c2s))
  <2>1. /\ Head(c2s) \in Commands /\ c2s # <<>> /\ c2s' = Tail(c2s)
        /\ Head(c2s).verb = "DATA"
    BY <1>0, <1>7, TakeType DEF SData, Take, ServerTypeOK
  <2>2. r \in Replies /\ r.to = Head(c2s) /\ r.severity = "PositiveIntermediate"
    BY <2>1, ReplyType DEF Severities, Positive, Reply
  <2>3. Say(r) /\ smode = "command" /\ smode' = "data" /\ UNCHANGED link
    BY <1>7 DEF SData, Answer
  <2> HIDE DEF r
  <2>4. /\ InvDropped' /\ InvCall' /\ InvAuth' /\ InvReplies' /\ InvInFlight'
        /\ InvLogin'
    BY <2>1, <2>2, <2>3, AnswerKeepsOrder DEF InvLogin
  <2>5. CASE link # "up"
    BY <2>3, <2>4, <2>5 DEF SyncInv, InvData, Live
  <2>6. CASE link = "up"
    <3>1. /\ pc = "send" /\ email \in Emails
          /\ acked + Len(s2c) + 1 \in 1 .. ScriptLength(email)
          /\ Head(c2s) = Step(email, acked + Len(s2c) + 1)
      BY <2>1, <2>3, <2>6, HeadAwaited DEF Live, ScriptVerbs
    <3>2. acked + Len(s2c) + 1 = DataStep(email)
      BY <2>1, <3>1, ScriptFacts
    <3>3. Len(s2c') = Len(s2c) + 1 /\ s2c' # <<>> /\ s2c'[Len(s2c) + 1] = r
      BY <1>0, <2>2, <2>3, <2>6, SayAdds
    <3>4. acked \in Nat
      BY <1>0 DEF ClientTypeOK
    <3>5. acked + Len(s2c') = DataStep(email)
      BY <1>0, <3>2, <3>3, <3>4
    <3>6. s2c'[Len(s2c')].severity \notin Negative
      BY <2>2, <3>3 DEF Negative
    <3>7. InvData'
      BY <1>0, <2>3, <3>1, <3>5, <3>6 DEF InvData, LastReply
    <3>8. QED
      BY <2>4, <3>7 DEF SyncInv
  <2>7. QED
    BY <2>5, <2>6
<1>8. CASE SRefuse
  <2>1. /\ Head(c2s) \in Commands /\ c2s # <<>> /\ c2s' = Tail(c2s)
        /\ smode = "command" /\ smode' = "command" /\ UNCHANGED link
    BY <1>0, <1>8, TakeType DEF SRefuse, Take, ServerTypeOK
  <2>2. PICK sev \in Negative, k \in 0 .. (IF Head(c2s).verb = "BODY" THEN 1 ELSE 0) :
            AnswerMore(Reply(sev, Head(c2s)), k)
    BY <1>8 DEF SRefuse
  <2> DEFINE r == Reply(sev, Head(c2s))
  <2>3. r \in Replies /\ r.to = Head(c2s) /\ ~is_positive(r)
    BY <2>1, ReplyType DEF Severities, Negative, Positive, Reply, is_positive
  <2>4. Say(r)
    <3>1. CASE link # "up"
      BY <2>2, <3>1 DEF AnswerMore, Say
    <3>2. CASE link = "up"
      <4>1. Head(c2s).verb # "BODY"
        BY <2>1, <3>2, ContentInDataMode DEF Live
      <4>2. k = 0
        BY <2>2, <4>1
      <4>3. QED
        BY <1>0, <2>2, <2>3, <4>2, NoStrays
    <3>3. QED
      BY <3>1, <3>2
  <2> HIDE DEF r
  <2>5. QED
    BY <2>1, <2>3, <2>4, AnswerKeepsOrder, AnswerKeepsMode DEF SyncInv
<1>9. CASE SBody
  <2>1. /\ Head(c2s) \in Commands /\ c2s # <<>> /\ c2s' = Tail(c2s)
        /\ Head(c2s).verb = "BODY"
        /\ smode = "data" /\ smode' = "command" /\ UNCHANGED link
    BY <1>0, <1>9, TakeType DEF SBody, Take, ServerTypeOK
  <2>2. PICK sev \in Severities, k \in 0 .. 2 :
            /\ AnswerMore(Reply(sev, Head(c2s)), k)
            /\ Live => k = 0
    <3>1. Live => Head(c2s).email \notin EmptyMessages
      BY <1>9 DEF TidyStep
    <3>2. PICK k \in 0 .. 2 :
              /\ \/ AnswerMore(Reply("PositiveCompletion", Head(c2s)), k)
                 \/ \E sev \in Negative : AnswerMore(Reply(sev, Head(c2s)), k)
              /\ Live => k = 0
      BY <1>9, <3>1 DEF SBody
    <3>3. QED
      BY <3>2 DEF Severities, Positive
  <2> DEFINE r == Reply(sev, Head(c2s))
  <2>3. r \in Replies /\ r.to = Head(c2s)
    BY <2>1, ReplyType DEF Reply
  <2>4. Say(r)
    <3>1. CASE Live
      BY <1>0, <2>2, <2>3, <3>1, NoStrays
    <3>2. CASE link # "up"
      BY <2>2, <3>2 DEF AnswerMore, Say
    <3>3. QED
      BY <2>1, <3>1, <3>2 DEF Live
  <2> HIDE DEF r
  <2>5. QED
    BY <2>1, <2>3, <2>4, AnswerKeepsOrder, AnswerKeepsMode DEF SyncInv
<1>10. CASE SAbsorb
  <2>1. /\ c2s # <<>> /\ Head(c2s).verb # "BODY"
        /\ smode = "data" /\ UNCHANGED <<link, s2c, smode>>
    BY <1>10 DEF SAbsorb, Take
  <2>2. link # "up"
    <3>1. SUFFICES ASSUME link = "up"
                   PROVE  FALSE
      OBVIOUS
    <3>2. pc = "send" /\ acked + Len(s2c) = DataStep(email)
      BY <2>1, <3>1 DEF SyncInv, InvData, Live
    <3>3. /\ email \in Emails
          /\ acked + Len(s2c) + 1 \in 1 .. ScriptLength(email)
          /\ Head(c2s) = Step(email, acked + Len(s2c) + 1)
      BY <2>1, <3>1, <3>2, HeadAwaited DEF Live
    <3>4. acked + Len(s2c) + 1 = ScriptLength(email)
      BY <3>2, <3>3, ScriptFacts
    <3>5. QED
      BY <2>1, <3>3, <3>4, ScriptFacts
  <2>3. QED
    BY <1>0, <2>1, <2>2
       DEF SyncInv, InvDropped, InvCall, InvAuth, InvReplies, InvInFlight, InvData, InvLogin, Live,
           Awaited, Outstanding
<1>11. CASE SDiscard
  BY <1>0, <1>11
     DEF SDiscard, SyncInv, InvDropped, InvCall, InvAuth, InvReplies, InvInFlight, InvData, InvLogin, Live,
         Awaited, Outstanding
<1>12. CASE SHangup
  BY <1>0, <1>12
     DEF SHangup, SyncInv, InvDropped, InvCall, InvAuth, InvReplies, InvInFlight, InvData, InvLogin, Live,
         Awaited, Outstanding
<1>13. CASE SShutdown
  <2> DEFINE r == Reply("TransientNegative", Unsolicited)
  <2>1. r \in Replies /\ r.to = Unsolicited /\ ~is_positive(r)
    BY ReplyType, PlainType
       DEF Unsolicited, PlainVerbs, Severities, Negative, Positive, Reply, is_positive
  <2>2. Say(r) /\ smode # "closed" /\ smode' = "closed" /\ UNCHANGED <<link, c2s>>
    BY <1>13 DEF SShutdown
  <2> HIDE DEF r
  <2>3. \A i \in 1 .. Len(s2c) : i <= Outstanding /\ s2c[i].to = Awaited(i)
    BY <2>2 DEF SyncInv, InvReplies
  <2>4. InvReplies'
    <3>1. CASE link # "up"
      <4>1. s2c' = s2c
        BY <1>0, <2>1, <2>2, <3>1, SayAdds
      <4>2. QED
        BY <1>0, <2>3, <4>1 DEF InvReplies, Awaited, Outstanding
    <3>2. CASE link = "up"
      <4>1. /\ Len(s2c') = Len(s2c) + 1
            /\ \A i \in 1 .. Len(s2c) : s2c'[i] = s2c[i]
            /\ s2c'[Len(s2c) + 1] = r
        BY <1>0, <2>1, <2>2, <3>2, SayAdds
      <4>2. ASSUME NEW i \in 1 .. Len(s2c')
            PROVE  \/ /\ s2c'[i].to = Unsolicited /\ i = Len(s2c')
                      /\ ~is_positive(s2c'[i])
                   \/ i <= Outstanding /\ s2c'[i].to = Awaited(i)
        <5>1. CASE i = Len(s2c) + 1
          BY <2>1, <4>1, <5>1
        <5>2. CASE i \in 1 .. Len(s2c)
          BY <2>3, <4>1, <5>2
        <5>3. QED
          BY <1>0, <4>1, <5>1, <5>2
      <4>3. QED
        BY <1>0, <2>2, <4>2 DEF InvReplies, Awaited, Outstanding, is_positive
    <3>3. QED
      BY <3>1, <3>2
  <2>5. InvDropped'
    BY <1>0, <2>1, <2>2, SayAdds DEF SyncInv, InvDropped
  <2>6. QED
    BY <1>0, <2>2, <2>4, <2>5
       DEF SyncInv, InvCall, InvAuth, InvInFlight, InvData, InvLogin, Live
<1>14. CASE LoseConnection
  <2>1. PICK n \in 0 .. Len(s2c) : s2c' = SubSeq(s2c, 1, n)
    BY <1>14 DEF LoseConnection
  <2>2. /\ Len(s2c') = n
        /\ \A i \in 1 .. n : s2c'[i] = s2c[i]
    <3>1. \A i \in 1 .. n : s2c[i] \in Replies
      BY <1>0, ElementOfSeq
    <3>2. /\ Len(SubSeq(s2c, 1, n)) = IF 1 <= n THEN n - 1 + 1 ELSE 0
          /\ \A i \in 1 .. n - 1 + 1 : SubSeq(s2c, 1, n)[i] = s2c[1 + i - 1]
      BY <3>1, SubSeqProperties
    <3>3. QED
      BY <2>1, <3>2
  <2>3. link' = "down" /\ UNCHANGED smode /\ link = "up"
    BY <1>14 DEF LoseConnection, server
  <2>4. InvReplies'
    BY <1>0, <2>2, <2>3 DEF SyncInv, InvReplies, Awaited, Outstanding
  <2>5. QED
    BY <1>0, <2>3, <2>4
       DEF SyncInv, InvDropped, InvCall, InvAuth, InvInFlight, InvData, InvLogin, Live
<1>15. CASE GarbleReply
  <2>0. PICK sev \in {"Malformed", "NotText"} :
            s2c' = [s2c EXCEPT ![Len(s2c)] = Reply(sev, s2c[Len(s2c)].to)]
    BY <1>15 DEF GarbleReply
  <2> DEFINE r == Reply(sev, s2c[Len(s2c)].to)
  <2>1. Len(s2c) \in 1 .. Len(s2c) /\ s2c # <<>>
    BY <1>0, <1>15, EmptySeq DEF GarbleReply
  <2>2. /\ r \in Replies /\ r.to = s2c[Len(s2c)].to
        /\ ~is_positive(r) /\ r.severity \notin Negative \cup Positive
    <3>1. s2c[Len(s2c)] \in Replies
      BY <1>0, <2>1, ElementOfSeq
    <3>2. QED
      BY <3>1, ReplyType
         DEF Replies, Severities, Reply, is_positive, Positive, Negative
  <2>3. s2c' = [s2c EXCEPT ![Len(s2c)] = r]
    BY <2>0
  <2> HIDE DEF r
  <2>4. /\ Len(s2c') = Len(s2c)
        /\ \A i \in 1 .. Len(s2c) : s2c'[i] = IF i = Len(s2c) THEN r ELSE s2c[i]
        /\ s2c' # <<>>
    BY <1>0, <2>1, <2>2, <2>3, ExceptSeq, EmptySeq
  <2>5. UNCHANGED <<link, c2s, smode>>
    BY <1>15 DEF GarbleReply
  <2>6. InvReplies'
    BY <1>0, <2>2, <2>4, <2>5 DEF SyncInv, InvReplies, Awaited, Outstanding, is_positive
  <2>7. InvInFlight'
    BY <1>0, <2>1, <2>4, <2>5 DEF SyncInv, InvInFlight, Live, Awaited, Outstanding
  <2>8. InvData'
    BY <1>0, <2>1, <2>2, <2>4, <2>5 DEF SyncInv, InvData, Live, LastReply, is_positive
  <2>9. InvDropped' /\ InvLogin'
    BY <1>0, <2>1, <2>2, <2>4, <2>5 DEF SyncInv, InvDropped, InvLogin, Live, LastReply
  <2>10. QED
    BY <1>0, <2>6, <2>7, <2>8, <2>9 DEF SyncInv, InvCall, InvAuth
<1>16. CASE SGlue
  <2>1. /\ smode \notin {"greet", "closed"} /\ c2s # <<>> /\ Head(c2s).verb \in Fragments
        /\ smode' # "greet" /\ UNCHANGED link
    BY <1>0, <1>16, GlueTypes DEF SGlue, ModeAfter
  <2>2. link # "up"
    <3>1. SUFFICES ASSUME link = "up"
                   PROVE  FALSE
      OBVIOUS
    <3>2. Head(c2s) = Awaited(Len(s2c) + 1) /\ pc \in AwaitsReply
      BY <2>1, <3>1, HeadAwaited DEF Live
    <3>3. Head(c2s).verb \notin Fragments
      BY <3>2 DEF Awaited, AwaitsReply, Greeting, Plain, Step, Fragments
    <3>4. QED
      BY <2>1, <3>3
  <2>3. s2c' = s2c
    BY <1>16, <2>2 DEF SGlue, AnswerMore
  <2>4. smode # "closed"
    BY <2>1
  <2>5. QED
    BY <1>0, <2>2, <2>1, <2>3, <2>4
       DEF SyncInv, InvDropped, InvCall, InvAuth, InvReplies, InvInFlight, InvData, InvLogin,
           Live, Awaited, Outstanding
<1>17. CASE SAuth
  <2>1. /\ Head(c2s) \in Commands /\ c2s # <<>> /\ c2s' = Tail(c2s)
        /\ Head(c2s).verb = "AUTH"
    BY <1>0, <1>17, TakeType DEF SAuth, Take, ServerTypeOK
  <2>2. Head(c2s) = Plain("AUTH")
    BY <2>1 DEF Commands, Plain, ScriptVerbs
  <2>3. PICK sev \in {"PositiveCompletion", "Challenge"} :
            Say(Reply(sev, Head(c2s))) /\ smode' = ModeAfter(sev)
    BY <1>17 DEF SAuth, Answer
  <2> DEFINE r == Reply(sev, Head(c2s))
  <2>4. r \in Replies /\ r.to = Head(c2s) /\ r.severity = sev
    BY <2>1, ReplyType DEF Severities, Positive, Reply
  <2>5. /\ smode = "command" /\ smode' \in {"command", "sasl"} /\ UNCHANGED link
        /\ smode' = "sasl" => sev = "Challenge"
    BY <1>17, <2>3 DEF SAuth, ModeAfter
  <2> HIDE DEF r
  <2>6. Say(r)
    BY <2>3 DEF r
  <2>7. QED
    BY <2>1, <2>2, <2>4, <2>5, <2>6, AnswerKeepsOrder, AnswerKeepsMode DEF SyncInv
<1>18. CASE SSasl
  <2>1. /\ Head(c2s) \in Commands /\ c2s # <<>> /\ c2s' = Tail(c2s) /\ smode = "sasl"
    BY <1>0, <1>18, TakeType DEF SSasl, Take, ServerTypeOK
  <2>2. PICK sev \in Verdicts, k \in 0 .. (IF Head(c2s).verb = "BODY" THEN 1 ELSE 0) :
            AnswerMore(Reply(sev, Head(c2s)), k) /\ smode' = ModeAfter(sev)
    BY <1>18 DEF SSasl
  <2>3. /\ smode' \in {"command", "sasl"} /\ UNCHANGED link
        /\ smode' = "sasl" => sev = "Challenge"
    BY <1>18, <2>2 DEF SSasl, ModeAfter
  <2>4. CASE link # "up"
    <3>1. s2c' = s2c
      BY <2>2, <2>4 DEF AnswerMore
    <3>2. QED
      BY <1>0, <2>1, <2>3, <2>4, <3>1
         DEF SyncInv, InvDropped, InvCall, InvAuth, InvReplies, InvInFlight, InvData, InvLogin,
             Live, Awaited, Outstanding
  <2>5. CASE link = "up"
    <3>1. /\ Head(c2s) = Awaited(Len(s2c) + 1) /\ pc \in AwaitsReply
      BY <2>1, <2>5, HeadAwaited DEF Live
    <3>2. pc = "auth"
      BY <2>1, <2>5, <3>1 DEF SyncInv, InvLogin, Live, AwaitsReply
    <3>3. Head(c2s) \in {Plain("AUTH"), Plain("SASL")}
      BY <3>1, <3>2 DEF Awaited
    <3> DEFINE r == Reply(sev, Head(c2s))
    <3>4. r \in Replies /\ r.to = Head(c2s) /\ r.severity = sev
      BY <2>1, ReplyType DEF Severities, Verdicts, Positive, Reply
    <3>5. k = 0 /\ Head(c2s).verb # "DATA"
      BY <2>2, <3>3 DEF Plain
    <3>6. Say(r)
      BY <1>0, <2>2, <3>4, <3>5, NoStrays
    <3> HIDE DEF r
    <3>7. QED
      BY <2>1, <2>3, <2>5, <3>3, <3>4, <3>5, <3>6, AnswerKeepsOrder, AnswerKeepsMode
         DEF SyncInv
  <2>6. QED
    BY <2>4, <2>5
<1>19. QED
  BY <1>1, <1>2, <1>3, <1>4, <1>5, <1>6, <1>7, <1>8, <1>9, <1>10, <1>11, <1>12,
     <1>13, <1>14, <1>15, <1>16, <1>17, <1>18 DEF ServerStep, NetworkStep

-----------------------------------------------------------------------------
(* The client keeps SyncInv *)

\* Without a transport there is nothing to be in step with.
LEMMA DropKeepsSync ==
    ASSUME DropTransport
    PROVE  SyncInv'
<1>1. pc' = "dropped" /\ link' = "down" /\ s2c' = <<>> /\ Len(s2c') = 0
  BY EmptySeq DEF DropTransport
<1>2. QED
  BY <1>1 DEF SyncInv, InvDropped, InvCall, InvAuth, InvReplies, InvInFlight, InvData, InvLogin, Live

\* Between two calls nothing is in flight, except the last word of a server that
\* has closed.
LEMMA QuietBetweenCalls ==
    ASSUME TypeOK, SyncInv, Outstanding = 0, pc # "dropped"
    PROVE  /\ Live => smode # "greet" /\ c2s = <<>> /\ s2c = <<>>
           /\ \A i \in 1 .. Len(s2c) :
                /\ s2c[i].to = Unsolicited /\ i = Len(s2c)
                /\ smode = "closed" /\ ~is_positive(s2c[i])
<1>1. /\ s2c \in Seq(Replies) /\ Len(s2c) \in Nat
      /\ c2s \in Seq(Commands) /\ Len(c2s) \in Nat
  BY LenProperties DEF TypeOK, ServerTypeOK
<1>2. pc # "greeting"
  BY DEF Outstanding, AwaitsReply
<1>3. Live => smode # "greet" /\ Len(s2c) + Len(c2s) = 0
  BY <1>2 DEF SyncInv, InvInFlight
<1>4. Live => smode # "greet" /\ c2s = <<>> /\ s2c = <<>>
  BY <1>1, <1>3, EmptySeq
<1>5. QED
  BY <1>1, <1>4 DEF SyncInv, InvReplies

\* The last reply of a call is read: the stream is quiet.
LEMMA LastReadKeepsSync ==
    ASSUME TypeOK, SyncInv, ReplyArrived, Outstanding = 1, Consume,
           pc' \in {"idle", "hello", "upgrade", "challenged"}, UNCHANGED <<c2s, smode>>,
           pc' = "challenged" => sent' = acked' /\ sent' # 0,
           Live => smode # "data" /\ (smode = "sasl" => pc' = "challenged")
    PROVE  SyncInv'
<1>1. /\ Len(s2c) \in Nat \ {0}
      /\ s2c' = Tail(s2c) /\ UNCHANGED link
      /\ Len(s2c') = Len(s2c) - 1
      /\ \A i \in 1 .. Len(s2c') : s2c'[i] = s2c[i + 1]
  BY ConsumeShifts DEF TypeOK, ServerTypeOK, Consume
<1>2. c2s \in Seq(Commands) /\ Len(c2s) \in Nat
  BY LenProperties DEF TypeOK, ServerTypeOK
<1>3. Outstanding' = 0
  BY DEF Outstanding, AwaitsReply
<1>4. InvReplies'
  <2>1. ASSUME NEW i \in 1 .. Len(s2c')
        PROVE  /\ s2c'[i].to = Unsolicited /\ i = Len(s2c')
               /\ smode = "closed" /\ ~is_positive(s2c'[i])
    <3>1. i + 1 \in 1 .. Len(s2c) /\ ~(i + 1 <= 1) /\ s2c'[i] = s2c[i + 1]
      BY <1>1
    <3>2. s2c[i + 1].to = Unsolicited /\ i + 1 = Len(s2c)
          /\ smode = "closed" /\ ~is_positive(s2c[i + 1])
      BY <3>1 DEF SyncInv, InvReplies
    <3>3. i = Len(s2c')
      <4>1. Len(s2c) \in Int /\ Len(s2c') = Len(s2c) - 1
        BY <1>1
      <4>2. i + 1 = Len(s2c)
        BY <3>2
      <4>3. i \in Int
        OBVIOUS
      <4>4. QED
        BY <4>1, <4>2, <4>3
    <3>4. QED
      BY <3>1, <3>2, <3>3 DEF is_positive
  <2>2. QED
    BY <2>1 DEF InvReplies, is_positive
<1>5. InvInFlight'
  <2>1. SUFFICES ASSUME Live
                 PROVE  smode # "greet" /\ Len(s2c') = 0 /\ Len(c2s) = 0
    BY <1>1, <1>3 DEF InvInFlight, Live
  <2>2. smode # "greet"
    BY <2>1, EmptySeq DEF SyncInv, InvInFlight, ReplyArrived
  <2>3. Len(s2c) + Len(c2s) = 1
    BY <2>1, <2>2 DEF SyncInv, InvInFlight
  <2>4. QED
    BY <1>1, <1>2, <2>2, <2>3
<1>6. InvData' /\ InvLogin' /\ InvAuth'
  BY <1>1 DEF InvData, InvLogin, InvAuth, Live
<1>7. QED
  BY <1>4, <1>5, <1>6 DEF SyncInv, InvDropped, InvCall

\* The first thing a call writes.
LEMMA FirstWriteKeepsSync ==
    ASSUME TypeOK, SyncInv, NEW v \in {"EHLO", "AUTH", "SASL", "QUIT", "STARTTLS"},
           Write(Plain(v)), Outstanding = 0, pc \notin {"dropped", "send"},
           pc = "challenged" => v = "SASL",
           pc' = CASE v = "EHLO" -> "ehlo" [] v = "QUIT" -> "quit"
                   [] v = "STARTTLS" -> "starttls" [] OTHER -> "auth",
           pc' = "auth" => sent' = acked' + 1 /\ (acked' = 0 <=> v = "AUTH"),
           UNCHANGED <<link, s2c, smode>>
    PROVE  SyncInv'
<1>1. /\ s2c \in Seq(Replies) /\ Len(s2c) \in Nat
      /\ c2s \in Seq(Commands) /\ Len(c2s) \in Nat
  BY LenProperties DEF TypeOK, ServerTypeOK
<1>2. /\ Live => smode # "greet" /\ c2s = <<>> /\ s2c = <<>>
      /\ \A i \in 1 .. Len(s2c) :
           /\ s2c[i].to = Unsolicited /\ i = Len(s2c)
           /\ smode = "closed" /\ ~is_positive(s2c[i])
  BY QuietBetweenCalls
<1>3. Outstanding' = 1 /\ pc' \in {"ehlo", "auth", "quit", "starttls"}
  BY DEF Outstanding, AwaitsReply
<1>4. Awaited(1)' = Plain(v)
  BY DEF Awaited
<1>5. InvReplies'
  BY <1>2 DEF InvReplies
<1>6. InvInFlight'
  <2>1. SUFFICES ASSUME Live
                 PROVE  InvInFlight'
    BY DEF InvInFlight, Live
  <2>2. smode # "greet" /\ c2s = <<>> /\ s2c = <<>> /\ link = "up"
    BY <1>2, <2>1 DEF Live
  <2>3. Len(c2s') = 1 /\ c2s'[1] = Plain(v) /\ Len(s2c') = 0
    BY <1>1, <2>2, WriteAdds, PlainType, EmptySeq DEF PlainVerbs
  <2>4. \A i \in 1 .. Len(c2s') : i = 1
    BY <2>3
  <2>5. c2s'[1] = Awaited(0 + 1)'
    BY <2>3 DEF Awaited
  <2>6. QED
    BY <1>3, <2>2, <2>3, <2>4, <2>5 DEF InvInFlight, Awaited
<1>7. InvData' /\ InvAuth'
  BY <1>3 DEF SyncInv, InvData, InvAuth, Live
<1>8. InvLogin'
  <2>1. SUFFICES ASSUME Live, smode = "sasl"
                 PROVE  pc' = "auth" /\ s2c = <<>>
    BY DEF InvLogin, Live
  <2>2. pc # "auth"
    BY DEF Outstanding, AwaitsReply
  <2>3. v = "SASL"
    BY <2>1, <2>2 DEF SyncInv, InvLogin
  <2>4. QED
    BY <1>2, <2>1, <2>3
<1>9. QED
  BY <1>3, <1>5, <1>6, <1>7, <1>8 DEF SyncInv, InvDropped, InvCall

\* One more step of the script is written.
LEMMA StepWriteKeepsSync ==
    ASSUME TypeOK, SyncInv, pc = "send",
           MayWrite \/ MayWriteMessage, Write(Step(email, sent + 1)), sent' = sent + 1,
           UNCHANGED <<link, s2c, smode, pc, email, acked, pipelining>>
    PROVE  SyncInv'
<1>1. /\ s2c \in Seq(Replies) /\ Len(s2c) \in Nat
      /\ c2s \in Seq(Commands) /\ Len(c2s) \in Nat
      /\ sent \in Nat /\ acked \in 0 .. sent /\ email \in Emails
      /\ pipelining \in BOOLEAN
  BY LenProperties DEF TypeOK, ServerTypeOK, ClientTypeOK
<1>2. /\ DataStep(email) \in Nat /\ ScriptLength(email) = DataStep(email) + 1
      /\ Step(email, sent + 1) \in Commands
  BY <1>1, ScriptFacts, StepType
<1>3. Outstanding = sent - acked /\ Outstanding' = sent + 1 - acked
  <2>1. Outstanding = sent - acked
    BY DEF Outstanding
  <2>2. pc' = "send" /\ sent' = sent + 1 /\ acked' = acked
    OBVIOUS
  <2>3. Outstanding' = sent' - acked'
    BY <2>2 DEF Outstanding
  <2>4. QED
    BY <1>1, <2>1, <2>2, <2>3
<1>4. InvCall'
  <2>1. CASE MayWrite
    <3>1. sent < DataStep(email) /\ (pipelining \/ acked = sent)
      BY <2>1 DEF MayWrite
    <3>2. acked < ScriptLength(email) /\ (pipelining => Pipelining)
      BY DEF SyncInv, InvCall
    <3>3. /\ sent + 1 <= ScriptLength(email) /\ sent + 1 # ScriptLength(email)
          /\ ~pipelining => sent + 1 <= acked + 1
      BY <1>1, <1>2, <3>1
    <3>4. QED
      BY <3>2, <3>3 DEF InvCall, ScriptLength, DataStep
  <2>2. CASE MayWriteMessage
    <3>1. sent = DataStep(email) /\ acked = sent
      BY <2>2 DEF MayWriteMessage
    <3>2. acked < ScriptLength(email) /\ (pipelining => Pipelining)
      BY DEF SyncInv, InvCall
    <3>3. sent + 1 <= ScriptLength(email) /\ sent + 1 <= acked + 1 /\ acked = DataStep(email)
      BY <1>1, <1>2, <3>1
    <3>4. QED
      BY <3>2, <3>3 DEF InvCall, ScriptLength, DataStep
  <2>3. QED
    BY <2>1, <2>2
<1>5. InvReplies'
  <2>1. ASSUME NEW i \in 1 .. Len(s2c), i <= Outstanding
        PROVE  i <= Outstanding'
    BY <1>1, <1>3, <2>1
  <2>2. QED
    BY <2>1 DEF SyncInv, InvReplies, Awaited, AwaitsReply
<1>6. InvInFlight'
  <2>1. SUFFICES ASSUME Live
                 PROVE  InvInFlight'
    BY DEF InvInFlight, Live
  <2>2. link = "up" /\ smode # "greet"
    BY <2>1 DEF SyncInv, InvInFlight, Live
  <2>3. /\ Len(s2c) + Len(c2s) = Outstanding
        /\ \A i \in 1 .. Len(c2s) : c2s[i] = Step(email, acked + (Len(s2c) + i))
    BY <2>1, <2>2 DEF SyncInv, InvInFlight, Awaited
  <2>4. /\ Len(c2s') = Len(c2s) + 1
        /\ \A i \in 1 .. Len(c2s) : c2s'[i] = c2s[i]
        /\ c2s'[Len(c2s) + 1] = Step(email, sent + 1)
    BY <1>1, <1>2, <2>2, WriteAdds
  <2>5. Len(s2c) + Len(c2s') = Outstanding'
    BY <1>1, <1>3, <2>3, <2>4
  <2>6. ASSUME NEW i \in 1 .. Len(c2s')
        PROVE  c2s'[i] = Step(email, acked + (Len(s2c) + i))
    <3>1. CASE i = Len(c2s) + 1
      <4>1. acked + (Len(s2c) + i) = sent + 1
        BY <1>1, <1>3, <2>3, <3>1
      <4>2. QED
        BY <2>4, <3>1, <4>1
    <3>2. CASE i \in 1 .. Len(c2s)
      BY <2>3, <2>4, <3>2
    <3>3. QED
      BY <1>1, <2>4, <3>1, <3>2
  <2>7. QED
    BY <2>2, <2>5, <2>6 DEF InvInFlight, Awaited
<1>7. InvData'
  BY DEF SyncInv, InvData, Live, LastReply, DataStep
<1>8. QED
  BY <1>4, <1>5, <1>6, <1>7 DEF SyncInv, InvDropped, InvAuth, InvLogin, Live

\* A positive reply to MAIL, RCPT or DATA is read.
LEMMA StepReplyKeepsSync ==
    ASSUME TypeOK, SyncInv, ReadStepReply
    PROVE  SyncInv'
<1>1. /\ Len(s2c) \in Nat \ {0} /\ s2c # <<>>
      /\ response = s2c[1]
      /\ s2c' = Tail(s2c) /\ s2c' \in Seq(Replies)
      /\ Len(s2c') = Len(s2c) - 1
      /\ \A i \in 1 .. Len(s2c') : s2c'[i] = s2c[i + 1]
  BY ConsumeShifts DEF TypeOK, ServerTypeOK, ReadStepReply, Consume, ReplyArrived
<1>2. /\ c2s \in Seq(Commands) /\ Len(c2s) \in Nat
      /\ sent \in Nat /\ acked \in Nat /\ email \in Emails
      /\ pipelining \in BOOLEAN
      /\ DataStep(email) \in Nat /\ ScriptLength(email) = DataStep(email) + 1
  <2>1. email \in Emails
    BY DEF TypeOK, ClientTypeOK, ReadStepReply
  <2>2. QED
    BY <2>1, LenProperties, ScriptFacts DEF TypeOK, ServerTypeOK, ClientTypeOK
<1>3. /\ pc = "send" /\ pc' = "send"
      /\ acked' = acked + 1 /\ acked + 1 < ScriptLength(email)
      /\ is_positive(s2c[1])
      /\ UNCHANGED <<link, c2s, smode, email, sent, pipelining>>
  BY <1>1 DEF ReadStepReply, Consume, server
<1>4. Outstanding = sent - acked /\ Outstanding' = sent - (acked + 1)
  BY <1>3 DEF Outstanding
<1>5. InvCall'
  <2>1. /\ sent <= ScriptLength(email)
        /\ sent = ScriptLength(email) => acked = DataStep(email)
        /\ pipelining => Pipelining
        /\ ~pipelining => sent <= acked + 1
    BY <1>3 DEF SyncInv, InvCall
  <2>2. sent # ScriptLength(email) /\ (~pipelining => sent <= acked + 1 + 1)
    BY <1>2, <1>3, <2>1
  <2>3. QED
    BY <1>3, <2>1, <2>2 DEF InvCall, ScriptLength, DataStep
<1>6. InvReplies'
  <2>1. ASSUME NEW i \in 1 .. Len(s2c')
        PROVE  \/ /\ s2c'[i].to = Unsolicited /\ i = Len(s2c')
                  /\ smode = "closed" /\ ~is_positive(s2c'[i])
               \/ i <= Outstanding' /\ s2c'[i].to = Step(email, acked + 1 + i)
    <3>1. i \in Int /\ i + 1 \in 1 .. Len(s2c) /\ s2c'[i] = s2c[i + 1]
      BY <1>1
    <3>2. CASE /\ s2c[i + 1].to = Unsolicited /\ i + 1 = Len(s2c)
               /\ smode = "closed" /\ ~is_positive(s2c[i + 1])
      <4>1. Len(s2c) \in Int /\ Len(s2c') = Len(s2c) - 1
        BY <1>1
      <4>2. i = Len(s2c')
        BY <3>1, <3>2, <4>1
      <4>3. QED
        BY <3>1, <3>2, <4>2 DEF is_positive
    <3>3. CASE i + 1 <= Outstanding /\ s2c[i + 1].to = Step(email, acked + (i + 1))
      <4>1. acked + (i + 1) = acked + 1 + i
        BY <1>2, <3>1
      <4>2. i <= Outstanding'
        BY <1>2, <1>4, <3>1, <3>3
      <4>3. QED
        BY <3>1, <3>3, <4>1, <4>2
    <3>4. QED
      BY <1>3, <3>1, <3>2, <3>3 DEF SyncInv, InvReplies, Awaited
  <2>2. QED
    BY <1>3, <2>1 DEF InvReplies, Awaited, is_positive
<1>7. InvInFlight'
  <2>1. SUFFICES ASSUME Live
                 PROVE  InvInFlight'
    BY <1>3 DEF InvInFlight, Live
  <2>2. /\ smode # "greet"
        /\ Len(s2c) + Len(c2s) = Outstanding
        /\ \A i \in 1 .. Len(c2s) : c2s[i] = Step(email, acked + (Len(s2c) + i))
    BY <1>3, <2>1 DEF SyncInv, InvInFlight, Awaited
  <2>3. Len(s2c') + Len(c2s) = Outstanding'
    BY <1>1, <1>2, <1>4, <2>2
  <2>4. ASSUME NEW i \in 1 .. Len(c2s)
        PROVE  c2s[i] = Step(email, acked + 1 + (Len(s2c') + i))
    <3>1. acked + 1 + (Len(s2c') + i) = acked + (Len(s2c) + i)
      BY <1>1, <1>2
    <3>2. QED
      BY <2>2, <3>1
  <2>5. QED
    BY <1>3, <2>2, <2>3, <2>4 DEF InvInFlight, Awaited
<1>8. InvData'
  <2>1. SUFFICES ASSUME Live
                 PROVE  InvData'
    BY <1>3 DEF InvData, Live
  <2>2. acked + 1 + Len(s2c') = acked + Len(s2c)
    BY <1>1, <1>2
  <2>3. CASE s2c' = <<>>
    <3>1. Len(s2c) = 1
      <4>1. Len(s2c') = 0
        BY <2>3, EmptySeq
      <4>2. Len(s2c) \in Nat /\ Len(s2c') = Len(s2c) - 1
        BY <1>1
      <4>3. QED
        BY <4>1, <4>2
    <3>2. is_positive(LastReply)
      BY <1>3, <3>1 DEF LastReply
    <3>3. QED
      BY <1>1, <1>3, <2>1, <2>2, <2>3, <3>2 DEF SyncInv, InvData, DataStep
  <2>4. CASE s2c' # <<>>
    <3>1. Len(s2c') \in 1 .. Len(s2c')
      BY <1>1, <2>4, EmptySeq
    <3>2. s2c'[Len(s2c')] = s2c[Len(s2c)]
      <4>1. s2c'[Len(s2c')] = s2c[Len(s2c') + 1]
        BY <1>1, <3>1
      <4>2. Len(s2c') + 1 = Len(s2c)
        BY <1>1
      <4>3. QED
        BY <4>1, <4>2
    <3>3. QED
      BY <1>1, <1>3, <2>1, <2>2, <2>4, <3>2
         DEF SyncInv, InvData, DataStep, LastReply, is_positive
  <2>5. QED
    BY <2>3, <2>4
<1>9. QED
  BY <1>3, <1>5, <1>6, <1>7, <1>8 DEF SyncInv, InvDropped, InvAuth, InvLogin, Live

\* A call writes the command it awaits the reply to, and takes the reply it awaits.
LEMMA CallKeepsSync ==
    ASSUME TypeOK, SyncInv, TidyStep, CallStep
    PROVE  SyncInv'
<1>1. ASSUME pc \in AwaitsReply \ {"send"}
      PROVE  /\ Outstanding = 1
             /\ Live => smode # "data" /\ (smode = "sasl" => pc = "auth")
  BY <1>1 DEF Outstanding, SyncInv, InvData, InvLogin, AwaitsReply
<1>2. CASE ReadGreeting
  <2>1. /\ pc \in AwaitsReply \ {"send", "auth"} /\ ReplyArrived
        /\ UNCHANGED <<c2s, smode>>
    BY <1>2 DEF ReadGreeting, AwaitsReply, server
  <2>2. (Consume /\ pc' = "hello") \/ DropTransport
    BY <1>2 DEF ReadGreeting
  <2>3. QED
    BY <1>1, <2>1, <2>2, LastReadKeepsSync, DropKeepsSync
<1>3. CASE SendEhlo
  <2>1. /\ pc = "hello" /\ pc' = "ehlo" /\ Write(Plain("EHLO"))
        /\ UNCHANGED <<link, s2c, smode>>
    BY <1>3 DEF SendEhlo, server
  <2>2. Outstanding = 0
    BY <2>1 DEF Outstanding, AwaitsReply
  <2>3. QED
    BY <2>1, <2>2, FirstWriteKeepsSync
<1>4. CASE ReadEhlo
  <2>1. /\ pc \in AwaitsReply \ {"send", "auth"} /\ ReplyArrived
        /\ UNCHANGED <<c2s, smode>>
    BY <1>4 DEF ReadEhlo, AwaitsReply, server
  <2>2. (Consume /\ pc' = "idle") \/ DropTransport
    BY <1>4 DEF ReadEhlo
  <2>3. QED
    BY <1>1, <2>1, <2>2, LastReadKeepsSync, DropKeepsSync
<1>5. CASE WriteCommand
  BY <1>5, StepWriteKeepsSync DEF WriteCommand, server
<1>6. CASE WriteMessage
  BY <1>6, StepWriteKeepsSync DEF WriteMessage, server
<1>7. CASE ReaderFails
  <2>1. DropTransport
    BY <1>7 DEF TidyStep
  <2>2. QED
    BY <2>1, DropKeepsSync
<1>8. CASE ReadStepReply
  BY <1>8, StepReplyKeepsSync
<1>9. CASE ReadFinalReply
  <2>1. /\ pc = "send" /\ acked < sent /\ acked + 1 = ScriptLength(email)
        /\ ReplyArrived /\ Consume /\ pc' = "idle" /\ UNCHANGED <<c2s, smode>>
    BY <1>9 DEF ReadFinalReply, MayRead, server
  <2>2. /\ sent \in Nat /\ acked \in Nat /\ email \in Emails
        /\ sent <= ScriptLength(email)
    BY <2>1 DEF TypeOK, ClientTypeOK, SyncInv, InvCall
  <2>3. DataStep(email) \in Nat /\ ScriptLength(email) = DataStep(email) + 1
    BY <2>2, ScriptFacts
  <2>4. Outstanding = 1
    <3>1. Outstanding = sent - acked
      BY <2>1 DEF Outstanding
    <3>2. QED
      BY <2>1, <2>2, <2>3, <3>1
  <2>5. Live => smode \notin {"data", "sasl"}
    <3>1. Len(s2c) \in Nat \ {0}
      BY <2>1, ConsumeShifts DEF TypeOK, ServerTypeOK
    <3>2. acked + Len(s2c) # DataStep(email)
      BY <2>1, <2>2, <2>3, <3>1
    <3>3. QED
      BY <2>1, <3>2 DEF SyncInv, InvData, InvLogin
  <2>6. QED
    BY <2>1, <2>4, <2>5, LastReadKeepsSync
<1>10. CASE ReadNegativeReply
  <2>1. /\ pc = "send" /\ acked < sent /\ ReplyArrived /\ ~is_positive(response)
        /\ UNCHANGED <<c2s, smode>>
        /\ \/ pc' = "idle" /\ Consume
           \/ DropTransport
    BY <1>10 DEF ReadNegativeReply, MayRead, Fail, KeepOrDrop, Consume, server
  <2>2. CASE DropTransport
    BY <2>2, DropKeepsSync
  <2>3. CASE ~DropTransport /\ pc' = "idle" /\ Consume
    <3>2. sent = acked + 1 /\ response.severity \in Negative
      BY <1>10, <2>3 DEF TidyStep
    <3>3. sent \in Nat /\ acked \in Nat /\ email \in Emails
      BY <2>1 DEF TypeOK, ClientTypeOK
    <3>4. Outstanding = 1
      <4>1. Outstanding = sent - acked
        BY <2>1 DEF Outstanding
      <4>2. QED
        BY <3>2, <3>3, <4>1
    <3>5. Live => smode # "data"
      <4>1. SUFFICES ASSUME Live, smode = "data"
                     PROVE  FALSE
        OBVIOUS
      <4>2. /\ Len(s2c) \in Nat \ {0} /\ s2c # <<>> /\ response = s2c[1]
            /\ Len(c2s) \in Nat
        BY <2>1, ConsumeShifts, LenProperties DEF TypeOK, ServerTypeOK, ReplyArrived
      <4>3. Len(s2c) + Len(c2s) = 1
        BY <3>4, <4>1 DEF SyncInv, InvInFlight
      <4>4. Len(s2c) = 1
        <5>1. \A m \in Nat \ {0}, n \in Nat : m + n = 1 => m = 1
          OBVIOUS
        <5>2. QED
          BY <4>2, <4>3, <5>1
      <4>5. LastReply.severity \notin Negative
        BY <4>1, <4>2 DEF SyncInv, InvData
      <4>6. QED
        BY <3>2, <4>2, <4>4, <4>5 DEF LastReply
    <3>6. Live => smode # "sasl"
      BY <2>1 DEF SyncInv, InvLogin
    <3>7. QED
      BY <2>1, <2>3, <3>4, <3>5, <3>6, LastReadKeepsSync
  <2>4. QED
    BY <2>1, <2>2, <2>3
<1>11. CASE ReadQuit
  <2>1. /\ pc \in AwaitsReply \ {"send", "auth"} /\ ReplyArrived
        /\ UNCHANGED <<c2s, smode>>
    BY <1>11 DEF ReadQuit, AwaitsReply, server
  <2>2. (Consume /\ pc' = "idle") \/ DropTransport
    BY <1>11 DEF ReadQuit, KeepOrDrop, Consume
  <2>3. QED
    BY <1>1, <2>1, <2>2, LastReadKeepsSync, DropKeepsSync
<1>12. CASE ReadStarttls
  <2>1. /\ pc \in AwaitsReply \ {"send", "auth"} /\ ReplyArrived
        /\ UNCHANGED <<c2s, smode>>
    BY <1>12 DEF ReadStarttls, AwaitsReply, server
  <2>2. (Consume /\ pc' = "upgrade") \/ DropTransport
    BY <1>12 DEF ReadStarttls
  <2>3. QED
    BY <1>1, <2>1, <2>2, LastReadKeepsSync, DropKeepsSync
<1>13. CASE ReadEof \/ WriteFails
  BY <1>13, DropKeepsSync DEF ReadEof, WriteFails, GiveUp
<1>14. CASE ReadChallenge
  <2>1. /\ pc = "auth" /\ pc' = "challenged" /\ ReplyArrived /\ Consume
        /\ acked' = acked + 1 /\ UNCHANGED <<c2s, smode, sent>>
    BY <1>14 DEF ReadChallenge, server
  <2>2. sent = acked + 1 /\ sent \in Nat /\ acked \in Nat
    BY <2>1 DEF SyncInv, InvAuth, TypeOK, ClientTypeOK
  <2>3. sent' = acked' /\ sent' # 0
    BY <2>1, <2>2
  <2>4. Outstanding = 1 /\ (Live => smode # "data")
    BY <1>1, <2>1 DEF AwaitsReply
  <2>5. QED
    BY <2>1, <2>3, <2>4, LastReadKeepsSync
<1>15. CASE Respond
  <2>1. /\ pc = "challenged" /\ pc' = "auth" /\ Write(Plain("SASL")) /\ sent' = sent + 1
        /\ UNCHANGED <<link, s2c, smode, acked>>
    BY <1>15 DEF Respond, server
  <2>2. Outstanding = 0
    BY <2>1 DEF Outstanding, AwaitsReply
  <2>3. sent = acked /\ sent # 0
    BY <2>1 DEF SyncInv, InvAuth
  <2>4. QED
    BY <2>1, <2>2, <2>3, FirstWriteKeepsSync
<1>16. CASE RespondFails
  <2>1. DropTransport
    BY <1>16 DEF TidyStep
  <2>2. QED
    BY <2>1, DropKeepsSync
<1>17. CASE ReadAuthReply
  <2>1. pc = "auth" /\ ReplyArrived /\ UNCHANGED <<c2s, smode>>
    BY <1>17 DEF ReadAuthReply, server
  <2>2. (Consume /\ pc' = "idle") \/ DropTransport
    BY <1>17 DEF ReadAuthReply, KeepOrDrop, Consume
  <2>3. CASE DropTransport
    BY <2>3, DropKeepsSync
  <2>4. CASE ~DropTransport /\ Consume /\ pc' = "idle"
    <3>1. response.severity \in Negative \cup (Positive \ {"Challenge"})
      BY <1>17, <2>4 DEF TidyStep
    <3>2. Outstanding = 1 /\ (Live => smode # "data")
      BY <1>1, <2>1 DEF AwaitsReply
    <3>3. Live => smode # "sasl"
      <4>1. SUFFICES ASSUME Live, smode = "sasl"
                     PROVE  FALSE
        OBVIOUS
      <4>2. /\ Len(s2c) \in Nat \ {0} /\ s2c # <<>> /\ response = s2c[1]
            /\ Len(c2s) \in Nat
        BY <2>1, ConsumeShifts, LenProperties DEF TypeOK, ServerTypeOK, ReplyArrived
      <4>3. Len(s2c) + Len(c2s) = 1
        BY <3>2, <4>1 DEF SyncInv, InvInFlight
      <4>4. Len(s2c) = 1
        <5>1. \A m \in Nat \ {0}, n \in Nat : m + n = 1 => m = 1
          OBVIOUS
        <5>2. QED
          BY <4>2, <4>3, <5>1
      <4>5. LastReply.severity \notin Negative \cup (Positive \ {"Challenge"})
        BY <2>1, <4>1, <4>2 DEF SyncInv, InvLogin
      <4>6. QED
        BY <3>1, <4>2, <4>4, <4>5 DEF LastReply
    <3>4. QED
      BY <2>1, <2>4, <3>2, <3>3, LastReadKeepsSync
  <2>5. QED
    BY <2>2, <2>3, <2>4
<1>18. QED
  BY <1>2, <1>3, <1>4, <1>5, <1>6, <1>7, <1>8, <1>9, <1>10, <1>11, <1>12, <1>13,
     <1>14, <1>15, <1>16, <1>17 DEF CallStep

\* The caller starts calls on a transport with nothing outstanding.
LEMMA CallerKeepsSync ==
    ASSUME TypeOK, SyncInv, TidyStep, CallerStep
    PROVE  SyncInv'
<1>1. CASE Connect
  <2>1. /\ pc' = "greeting" /\ link' = "up" /\ smode' = "greet"
        /\ c2s' = <<>> /\ s2c' = <<>>
    BY <1>1 DEF Connect, SyncInv, InvDropped
  <2>2. Len(s2c') = 0 /\ Len(c2s') = 0
    BY <2>1, EmptySeq
  <2>3. QED
    BY <2>1, <2>2 DEF SyncInv, InvDropped, InvCall, InvAuth, InvReplies, InvInFlight, InvData, InvLogin
<1>2. CASE \E e \in Emails : Send(e)
  <2>1. PICK e \in Emails : Send(e)
    BY <1>2
  <2>2. /\ pc = "idle" /\ pc' = "send" /\ email' = e /\ sent' = 0 /\ acked' = 0
        /\ pipelining' => Pipelining
        /\ UNCHANGED <<link, c2s, s2c, smode>>
    BY <2>1 DEF Send, serverVars
  <2>3. Outstanding = 0 /\ Outstanding' = 0
    BY <2>2 DEF Outstanding, AwaitsReply
  <2>4. /\ Live => smode # "greet" /\ c2s = <<>> /\ s2c = <<>>
        /\ \A i \in 1 .. Len(s2c) :
             /\ s2c[i].to = Unsolicited /\ i = Len(s2c)
             /\ smode = "closed" /\ ~is_positive(s2c[i])
    BY <2>2, <2>3, QuietBetweenCalls
  <2>5. Live => smode # "data"
    BY <2>2 DEF SyncInv, InvData
  <2>6. DataStep(e) \in Nat /\ DataStep(e) >= 3 /\ ScriptLength(e) = DataStep(e) + 1
    BY ScriptFacts
  <2>7. InvCall' /\ InvAuth' /\ InvLogin'
    BY <2>2, <2>6 DEF InvCall, InvAuth, SyncInv, InvLogin, Live
  <2>8. InvReplies'
    BY <2>2, <2>4 DEF InvReplies
  <2>9. InvInFlight' /\ InvData'
    <3>1. SUFFICES ASSUME Live
                   PROVE  InvInFlight' /\ InvData'
      BY <2>2 DEF InvInFlight, InvData, Live
    <3>2. c2s = <<>> /\ s2c = <<>> /\ Len(c2s) = 0 /\ Len(s2c) = 0
      BY <2>4, <3>1, EmptySeq
    <3>3. InvInFlight'
      BY <2>2, <2>3, <2>4, <3>1, <3>2 DEF InvInFlight
    <3>4. acked' + Len(s2c') # DataStep(email')
      BY <2>2, <2>6, <3>2
    <3>5. InvData'
      BY <2>2, <2>5, <3>1, <3>4 DEF InvData, DataStep
    <3>6. QED
      BY <3>3, <3>5
  <2>10. QED
    BY <2>2, <2>7, <2>8, <2>9 DEF SyncInv, InvDropped
<1>3. CASE Quit
  <2>1. /\ pc = "idle" /\ pc' = "quit" /\ Write(Plain("QUIT"))
        /\ UNCHANGED <<link, s2c, smode>>
    BY <1>3 DEF Quit, server
  <2>2. Outstanding = 0
    BY <2>1 DEF Outstanding, AwaitsReply
  <2>3. QED
    BY <2>1, <2>2, FirstWriteKeepsSync
<1>4. CASE Starttls
  <2>1. /\ pc = "idle" /\ pc' = "starttls" /\ Write(Plain("STARTTLS"))
        /\ UNCHANGED <<link, s2c, smode>>
    BY <1>4 DEF Starttls, server
  <2>2. Outstanding = 0
    BY <2>1 DEF Outstanding, AwaitsReply
  <2>3. QED
    BY <2>1, <2>2, FirstWriteKeepsSync
<1>5. CASE UpgradeTls
  <2>1. /\ pc = "upgrade" /\ pc' = "hello" /\ smode = "tls" /\ smode' = "command"
        /\ link = "up" /\ link' = "up" /\ UNCHANGED <<c2s, s2c>>
    BY <1>5 DEF UpgradeTls
  <2>2. Outstanding = 0 /\ Outstanding' = 0
    BY <2>1 DEF Outstanding, AwaitsReply
  <2>3. c2s = <<>> /\ s2c = <<>> /\ Len(c2s) = 0 /\ Len(s2c) = 0
    BY <2>1, <2>2, QuietBetweenCalls, EmptySeq DEF Live
  <2>4. QED
    BY <2>1, <2>2, <2>3 DEF SyncInv, InvDropped, InvCall, InvAuth, InvReplies, InvInFlight, InvData, InvLogin
<1>6. CASE StarttlsUnsupported \/ Cancel \/ Drop
  BY <1>6, DropKeepsSync DEF StarttlsUnsupported, Cancel, Drop, GiveUp
<1>7. CASE Abandon
  <2>1. /\ pc = "send" /\ pc' = "idle" /\ sent = acked /\ sent < DataStep(email)
        /\ UNCHANGED <<link, c2s, s2c, smode>>
    BY <1>7 DEF TidyStep, BetweenCommands, Abandon, server
  <2>2. sent \in Nat /\ email \in Emails
    BY <2>1 DEF TypeOK, ClientTypeOK
  <2>3. Outstanding = 0
    <3>1. Outstanding = sent - acked
      BY <2>1 DEF Outstanding
    <3>2. QED
      BY <2>1, <2>2, <3>1
  <2>4. Outstanding' = 0
    BY <2>1 DEF Outstanding, AwaitsReply
  <2>5. /\ Live => smode # "greet" /\ c2s = <<>> /\ s2c = <<>>
        /\ \A i \in 1 .. Len(s2c) :
             /\ s2c[i].to = Unsolicited /\ i = Len(s2c)
             /\ smode = "closed" /\ ~is_positive(s2c[i])
    BY <2>1, <2>3, QuietBetweenCalls
  <2>6. Live => smode \notin {"data", "sasl"}
    <3>1. SUFFICES ASSUME Live, smode = "data"
                   PROVE  FALSE
      BY <2>1 DEF SyncInv, InvLogin
    <3>2. Len(s2c) = 0
      BY <2>5, <3>1, EmptySeq
    <3>3. acked + Len(s2c) = DataStep(email)
      BY <3>1 DEF SyncInv, InvData
    <3>4. DataStep(email) \in Nat
      BY <2>2, ScriptFacts
    <3>5. QED
      BY <2>1, <2>2, <3>2, <3>3, <3>4
  <2>7. InvReplies'
    BY <2>1, <2>5 DEF InvReplies, is_positive
  <2>8. InvInFlight'
    BY <2>1, <2>4, <2>5, EmptySeq DEF InvInFlight, Live
  <2>9. QED
    BY <2>1, <2>6, <2>7, <2>8
       DEF SyncInv, InvDropped, InvCall, InvAuth, InvData, InvLogin, Live
<1>8. CASE Auth
  <2>1. /\ pc = "idle" /\ pc' = "auth" /\ Write(Plain("AUTH")) /\ sent' = 1 /\ acked' = 0
        /\ UNCHANGED <<link, s2c, smode>>
    BY <1>8 DEF Auth, server
  <2>2. Outstanding = 0
    BY <2>1 DEF Outstanding, AwaitsReply
  <2>3. QED
    BY <2>1, <2>2, FirstWriteKeepsSync
<1>9. QED
  BY <1>1, <1>2, <1>3, <1>4, <1>5, <1>6, <1>7, <1>8 DEF CallerStep

\* At first nothing is on its way.
LEMMA InitSync == Init => SyncInv
BY EmptySeq DEF Init, ServerInit, SyncInv, InvDropped, InvCall, InvAuth, InvReplies,
                InvInFlight, InvData, InvLogin, Live

\* Every tidy step keeps SyncInv.
LEMMA NextSync ==
    ASSUME TypeOK, SyncInv, TidyStep, [Next]_vars
    PROVE  SyncInv'
<1>1. CASE CallStep
  BY <1>1, CallKeepsSync
<1>2. CASE CallerStep
  BY <1>2, CallerKeepsSync
<1>3. CASE ServerMoves \/ NetworkMoves
  BY <1>3, ServerKeepsSync DEF ServerMoves, NetworkMoves
<1>4. CASE UNCHANGED vars
  BY <1>4 DEF vars, serverVars, clientVars, call, SyncInv, InvDropped, InvCall,
     InvAuth, InvReplies, InvInFlight, InvData, InvLogin, Live, Awaited, Outstanding, LastReply
<1>5. QED
  BY <1>1, <1>2, <1>3, <1>4 DEF Next, Finished

\* Client, connection and server stay in step for an orderly caller: what the client
\* waits for is what the replies and commands in flight, and the server's mode, will
\* give it.
THEOREM StaysInSync ==
    ASSUME Orderly
    PROVE  Spec => []SyncInv
<1>1. Init => TypeOK /\ SyncInv
  BY InitType, InitSync
<1>2. TypeOK /\ SyncInv /\ [Next]_vars => (TypeOK /\ SyncInv)'
  BY NextType, NextSync, OrderlyIsTidy
<1>3. QED
  BY <1>1, <1>2, PTL DEF Spec

\* A caller that sends no empty message, and drops a pipelining transport on its
\* first error, never takes a reply for the answer to another command.
THEOREM RepliesInOrder ==
    ASSUME Orderly
    PROVE  Spec => []AwaitsOwnReply
<1>1. Spec => []SyncInv
  BY StaysInSync
<1>2. SyncInv => AwaitsOwnReply
  BY DEF SyncInv, InvReplies, AwaitsOwnReply
<1>3. QED
  BY <1>1, <1>2, PTL

=============================================================================
