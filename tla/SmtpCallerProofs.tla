-------------------------- MODULE SmtpCallerProofs --------------------------
(***************************************************************************)
(* What a caller of the transport may rely on, for every server and every  *)
(* number of emails, connections and faults.  An orderly caller: no call   *)
(* waits for a reply that is not coming, what `send` asks for was offered  *)
(* in its own session, and the transport implements MailSubmission.  Every *)
(* caller, whatever it keeps, drops or pipelines: a connection on which    *)
(* each call was finished stays in step, takes messages as addressed, and  *)
(* Ok means so (KeptTransport).                                            *)
(***************************************************************************)
EXTENDS SmtpDeliveryProofs, KeptTransport

-----------------------------------------------------------------------------
(* Waiting *)

\* A call waits only for what is still to come: nobody waits on everybody.
THEOREM NeverStalls ==
    ASSUME Orderly
    PROVE  Spec => []NoStall
<1>1. Init => TypeOK /\ SyncInv
  BY InitType, InitSync
<1>2. TypeOK /\ SyncInv /\ [Next]_vars => (TypeOK /\ SyncInv)'
  BY NextType, NextSync, OrderlyIsTidy
<1>3. TypeOK /\ SyncInv => NoStall
  <2>1. SUFFICES ASSUME TypeOK, SyncInv, pc \in AwaitsReply, pc = "send" => MayRead,
                        link = "up", smode # "closed", s2c = <<>>, c2s = <<>>,
                        smode # "greet"
                 PROVE  FALSE
    BY DEF NoStall
  <2>2. Len(s2c) = 0 /\ Len(c2s) = 0
    BY <2>1, EmptySeq
  <2>3. Outstanding = 0
    BY <2>1, <2>2 DEF SyncInv, InvInFlight, Live
  <2>4. sent \in Nat /\ acked \in Nat
    BY <2>1 DEF TypeOK, ClientTypeOK
  <2> QED
    BY <2>1, <2>3, <2>4 DEF Outstanding, MayRead, AwaitsReply
<1> QED
  BY <1>1, <1>2, <1>3, PTL DEF Spec

-----------------------------------------------------------------------------
(* Options *)

\* The next reply, if the client takes it, says no more than the server offers.
FirstOffers ==
    s2c # <<>> /\ is_positive(s2c[1]) => s2c[1].words \ {"name"} \subseteq offers

\* From the reply to EHLO to MAIL: what is offered, what is known, what is asked for.
OptionsInv ==
    /\ pc = "send" => /\ mail_options \subseteq server_info
                      /\ pipelining => "PIPELINING" \in server_info
    /\ link = "up" /\ pc \in {"idle", "send", "quit", "auth", "challenged"} =>
          server_info \subseteq offers
    /\ link = "up" /\ pc = "ehlo" => FirstOffers

\* A reply goes behind those that are there.
LEMMA FirstReply ==
    ASSUME s2c \in Seq(Replies), NEW r \in Replies, NEW k \in Nat, Say(r) \/ AnswerMore(r, k)
    PROVE  /\ s2c # <<>> => s2c' # <<>> /\ s2c'[1] = s2c[1]
           /\ s2c = <<>> => s2c' = <<>> \/ s2c'[1] = r
<1>1. CASE link # "up"
  BY <1>1 DEF Say, AnswerMore
<1>2. CASE link = "up"
  <2> DEFINE a == Append(s2c, r)
             b == Strays(r.to, k)
  <2>1. /\ a \in Seq(Replies) /\ Len(a) = Len(s2c) + 1 /\ Len(s2c) \in Nat
        /\ \A i \in 1 .. Len(s2c) : a[i] = s2c[i]
        /\ a[Len(s2c) + 1] = r
    BY AppendProperties, LenProperties
  <2>2. b \in Seq(Replies) /\ Len(b) \in Nat
    BY StraysType, LenProperties DEF Replies
  <2>3. /\ Len(a \o b) = Len(a) + Len(b)
        /\ \A i \in 1 .. Len(a) : (a \o b)[i] = a[i]
    <3> HIDE DEF a, b
    <3>1. /\ Len(a \o b) = Len(a) + Len(b)
          /\ \A i \in 1 .. Len(a) + Len(b) :
                (a \o b)[i] = IF i <= Len(a) THEN a[i] ELSE b[i - Len(a)]
      BY <2>1, <2>2, ConcatProperties
    <3>2. \A i \in 1 .. Len(a) : i \in 1 .. Len(a) + Len(b) /\ i <= Len(a)
      BY <2>1, <2>2
    <3> QED
      BY <3>1, <3>2
  <2>4. /\ 1 \in 1 .. Len(a)
        /\ s2c # <<>> => 1 \in 1 .. Len(s2c)
        /\ s2c = <<>> => Len(s2c) = 0
    BY <2>1, EmptySeq
  <2>5. s2c' = a \/ s2c' = a \o b
    BY <1>2 DEF Say, AnswerMore
  <2>6. s2c'[1] = a[1] /\ Len(s2c') # 0
    <3> HIDE DEF a, b
    <3> QED
      BY <2>1, <2>2, <2>3, <2>4, <2>5
  <2>7. s2c' # <<>>
    BY <2>6, EmptySeq
  <2> QED
    BY <2>1, <2>4, <2>6, <2>7
<1> QED
  BY <1>1, <1>2

\* Whatever is said that lists no features leaves the first reply as good as it was.
LEMMA SayKeepsOffers ==
    ASSUME s2c \in Seq(Replies), NEW sev \in Severities, NEW cmd \in Commands, NEW k \in Nat,
           Say(Reply(sev, cmd)) \/ AnswerMore(Reply(sev, cmd), k),
           UNCHANGED offers, FirstOffers
    PROVE  FirstOffers'
<1>1. Reply(sev, cmd) \in Replies /\ Reply(sev, cmd).words = {}
  BY ReplyType DEF Reply
<1>2. /\ s2c # <<>> => s2c' # <<>> /\ s2c'[1] = s2c[1]
      /\ s2c = <<>> => s2c' = <<>> \/ s2c'[1] = Reply(sev, cmd)
  BY <1>1, FirstReply
<1> QED
  BY <1>1, <1>2 DEF FirstOffers, is_positive

\* The server lists its features only in the reply to EHLO, and then they are its offer.
LEMMA ServerKeepsOptions ==
    ASSUME TypeOK, SyncInv, OptionsInv, ServerMoves \/ NetworkMoves
    PROVE  OptionsInv'
<1> DEFINE Same == UNCHANGED <<pc, mail_options, pipelining, server_info>>
<1>0. Same /\ s2c \in Seq(Replies) /\ c2s \in Seq(Commands)
  BY DEF ServerMoves, NetworkMoves, clientVars, call, TypeOK, ServerTypeOK
<1>1. ASSUME UNCHANGED offers, link' = "up" => link = "up",
             link' = "up" /\ FirstOffers => FirstOffers'
      PROVE  OptionsInv'
  BY <1>0, <1>1 DEF OptionsInv
<1>2. ASSUME NEW sev \in Severities, NEW cmd \in Commands, NEW k \in Nat,
             Say(Reply(sev, cmd)) \/ AnswerMore(Reply(sev, cmd), k), UNCHANGED <<link, offers>>
      PROVE  OptionsInv'
  BY <1>0, <1>1, <1>2, SayKeepsOffers
<1>3. ASSUME UNCHANGED <<s2c, link, offers>>
      PROVE  OptionsInv'
  BY <1>1, <1>3 DEF FirstOffers, is_positive
<1>4. c2s # <<>> => Head(c2s) \in Commands
  BY <1>0, HeadTailProperties
<1>5. Greeting \in Commands /\ Unsolicited \in Commands
  BY DEF Greeting, Unsolicited, Plain, Commands, PlainVerbs
<1>6. /\ "PositiveCompletion" \in Severities /\ "PositiveIntermediate" \in Severities
      /\ \A sev \in Negative \cup Verdicts : sev \in Severities
      /\ 0 \in Nat
  BY DEF Severities, Positive, Verdicts
<1>7. CASE SGreet
  BY <1>2, <1>5, <1>6, <1>7 DEF SGreet, Answer
<1>8. CASE SMail \/ SRcpt \/ SData \/ SQuit \/ SStarttls
  BY <1>2, <1>4, <1>6, <1>8 DEF SMail, SRcpt, SData, SQuit, SStarttls, Take, Answer
<1>9. CASE SRefuse
  <2>1. PICK sev \in Negative, k \in 0 .. (IF Head(c2s).verb = "BODY" THEN 1 ELSE 0) :
            AnswerMore(Reply(sev, Head(c2s)), k)
    BY <1>9 DEF SRefuse
  <2>2. k \in Nat
    OBVIOUS
  <2>3. c2s # <<>> /\ UNCHANGED <<link, offers>>
    BY <1>9 DEF SRefuse, Take
  <2> QED
    BY <1>2, <1>4, <1>6, <2>1, <2>2, <2>3
<1>10. CASE SBody
  <2>1. PICK sev \in Severities, k \in 0 .. 2 : AnswerMore(Reply(sev, Head(c2s)), k)
    BY <1>6, <1>10 DEF SBody
  <2>2. k \in Nat
    OBVIOUS
  <2>3. c2s # <<>> /\ UNCHANGED <<link, offers>>
    BY <1>10 DEF SBody, Take
  <2> QED
    BY <1>2, <1>4, <2>1, <2>2, <2>3
<1>11. CASE SGlue
  <2>1. UNCHANGED <<link, offers>>
    BY <1>11 DEF SGlue
  <2>2. CASE UNCHANGED s2c
    BY <1>3, <2>1, <2>2
  <2>3. CASE s2c' # s2c
    <3>1. PICK sev \in Negative \cup Verdicts, k \in 0 .. 1 :
              AnswerMore(Reply(sev, Head(Tail(c2s))), k)
      BY <1>11, <2>3 DEF SGlue
    <3>2. Head(Tail(c2s)) \in Commands
      <4>1. Len(c2s) > 1
        BY <1>11 DEF SGlue
      <4>2. c2s # <<>> /\ Len(c2s) \in Nat
        BY <1>0, <4>1, EmptySeq, LenProperties
      <4>3. Tail(c2s) \in Seq(Commands) /\ Len(Tail(c2s)) = Len(c2s) - 1
        BY <1>0, <4>2, HeadTailProperties
      <4>4. Len(Tail(c2s)) # 0
        BY <4>1, <4>2, <4>3
      <4>5. Tail(c2s) # <<>>
        BY <4>3, <4>4, EmptySeq
      <4> QED
        BY <4>3, <4>5, HeadTailProperties
    <3>3. k \in Nat
      OBVIOUS
    <3> QED
      BY <1>2, <1>6, <2>1, <3>1, <3>2, <3>3
  <2> QED
    BY <2>2, <2>3
<1>12. CASE SAbsorb \/ SDiscard \/ SHangup
  BY <1>3, <1>12 DEF SAbsorb, SDiscard, SHangup
<1>13. CASE SEhlo
  <2>1. CASE link # "up"
    BY <1>0, <1>13, <2>1 DEF SEhlo, OptionsInv
  <2>2. CASE link = "up"
    <3>1. /\ smode = "command" /\ c2s # <<>> /\ Head(c2s).verb = "EHLO"
          /\ UNCHANGED link
      BY <1>13 DEF SEhlo, Take
    <3>2. /\ Head(c2s) = Awaited(Len(s2c) + 1)
          /\ pc \in AwaitsReply
          /\ pc = "send" => email \in Emails /\ Head(c2s).verb \in ScriptVerbs
      <4>1. ASSUME NEW i \in Nat, pc = "send", email \in Emails, Head(c2s) = Step(email, i)
            PROVE  Head(c2s).verb \in ScriptVerbs
        BY <4>1 DEF Step, ScriptVerbs
      <4>2. Live /\ smode # "greet"
        BY <2>2, <3>1 DEF Live
      <4>3. acked + Len(s2c) + 1 \in Nat
        BY <1>0, LenProperties DEF TypeOK, ClientTypeOK
      <4> QED
        BY <3>1, <4>1, <4>2, <4>3, HeadAwaited
    <3>3. pc = "ehlo"
      BY <3>1, <3>2 DEF Awaited, AwaitsReply, ScriptVerbs, Plain, Greeting
    <3>4. s2c = <<>>
      <4>1. Len(s2c) + Len(c2s) = 1
        BY <2>2, <3>1, <3>3 DEF SyncInv, InvInFlight, Live, Outstanding, AwaitsReply
      <4>2. Len(s2c) \in Nat /\ Len(c2s) \in Nat /\ Len(c2s) # 0
        BY <1>0, <3>1, LenProperties, EmptySeq
      <4> QED
        BY <1>0, <4>1, <4>2, EmptySeq
    <3>5. PICK words \in SUBSET Words :
              /\ Answer([severity |-> "PositiveCompletion", to |-> Head(c2s), words |-> words])
              /\ offers' = words \ {"name"}
      BY <1>13 DEF SEhlo
    <3> DEFINE r == [severity |-> "PositiveCompletion", to |-> Head(c2s), words |-> words]
    <3>6. r \in Replies /\ r.words = words
      BY <1>4, <1>6, <3>1 DEF Replies
    <3>7. s2c' = <<>> \/ s2c'[1] = r
      BY <1>0, <1>6, <3>4, <3>5, <3>6, FirstReply DEF Answer
    <3>8. FirstOffers'
      BY <3>5, <3>6, <3>7 DEF FirstOffers
    <3> QED
      BY <1>0, <3>3, <3>8 DEF OptionsInv
  <2> QED
    BY <2>1, <2>2
<1>14. CASE SShutdown
  BY <1>2, <1>5, <1>6, <1>14 DEF SShutdown, Negative, Severities
<1>15. CASE LoseConnection
  BY <1>1, <1>15 DEF LoseConnection, server
<1>16. CASE GarbleReply
  <2>1. UNCHANGED <<link, offers>> /\ s2c # <<>>
    BY <1>16 DEF GarbleReply
  <2>2. Len(s2c) \in Nat \ {0} /\ 1 \in DOMAIN s2c
    BY <1>0, <2>1, EmptySeq, LenProperties
  <2>3. PICK sev \in {"Malformed", "NotText"} :
            s2c' = [s2c EXCEPT ![Len(s2c)] = Reply(sev, @.to)]
    BY <1>16 DEF GarbleReply
  <2>4. s2c'[1] = s2c[1] \/ s2c'[1] = Reply(sev, s2c[1].to)
    BY <2>2, <2>3
  <2>5. FirstOffers => FirstOffers'
    BY <2>1, <2>4 DEF FirstOffers, is_positive, Reply, Positive
  <2> QED
    BY <1>1, <2>1, <2>5
<1>17. CASE SAuth
  <2>1. PICK sev \in Verdicts : Answer(Reply(sev, Head(c2s)))
    BY <1>17 DEF SAuth, Verdicts
  <2>2. c2s # <<>> /\ UNCHANGED <<link, offers>>
    BY <1>17 DEF SAuth, Take
  <2> QED
    BY <1>2, <1>4, <1>6, <2>1, <2>2 DEF Answer
<1>18. CASE SSasl
  <2>1. PICK sev \in Verdicts, k \in 0 .. (IF Head(c2s).verb = "BODY" THEN 1 ELSE 0) :
            AnswerMore(Reply(sev, Head(c2s)), k)
    BY <1>18 DEF SSasl
  <2>2. k \in Nat
    OBVIOUS
  <2>3. c2s # <<>> /\ UNCHANGED <<link, offers>>
    BY <1>18 DEF SSasl, Take
  <2> QED
    BY <1>2, <1>4, <1>6, <2>1, <2>2, <2>3
<1> QED
  BY <1>7, <1>8, <1>9, <1>10, <1>11, <1>12, <1>13, <1>14, <1>15, <1>16, <1>17, <1>18
  DEF ServerMoves, NetworkMoves, ServerStep, NetworkStep

\* The call in progress and its caller: new reads the offer, `send` uses what it read.
LEMMA ClientKeepsOptions ==
    ASSUME TypeOK, SyncInv, OptionsInv, CallStep \/ CallerStep
    PROVE  OptionsInv'
<1>1. ASSUME pc' = "dropped" \/ pc' = "greeting" \/ pc' = "hello" \/ pc' = "starttls"
             \/ pc' = "upgrade"
      PROVE  OptionsInv'
  BY <1>1 DEF OptionsInv
<1>2. ASSUME pc \in {"idle", "send", "quit", "auth", "challenged"},
             UNCHANGED <<server_info, offers>>,
             pc' \in {"idle", "quit", "auth", "challenged", "dropped"},
             pc' # "dropped" => UNCHANGED link
      PROVE  OptionsInv'
  BY <1>2 DEF OptionsInv
<1>3. ASSUME NEW kind, NEW unread, KeepOrDrop(kind, unread)
      PROVE  (pc' = "idle" /\ UNCHANGED link) \/ pc' = "dropped"
  BY <1>3 DEF KeepOrDrop, DropTransport
<1>4. CASE Connect \/ ReadGreeting
  BY <1>1, <1>4 DEF Connect, ReadGreeting, DropTransport
<1>5. CASE SendEhlo
  <2>1. pc = "hello" /\ pc' = "ehlo" /\ UNCHANGED <<link, s2c, offers>>
    BY <1>5 DEF SendEhlo, server
  <2>2. Outstanding = 0
    BY <2>1 DEF Outstanding, AwaitsReply
  <2>3. \A i \in 1 .. Len(s2c) : ~is_positive(s2c[i])
    BY <2>1, <2>2, QuietBetweenCalls
  <2>4. s2c # <<>> => 1 \in 1 .. Len(s2c)
    BY EmptySeq, LenProperties DEF TypeOK, ServerTypeOK
  <2>5. FirstOffers'
    BY <2>1, <2>3, <2>4 DEF FirstOffers, is_positive
  <2> QED
    BY <2>1, <2>5 DEF OptionsInv
<1>6. CASE ReadEhlo
  <2>1. CASE pc' = "dropped"
    BY <1>1, <2>1
  <2>2. CASE pc' # "dropped"
    <3>1. /\ pc = "ehlo" /\ pc' = "idle" /\ s2c # <<>> /\ is_positive(Head(s2c))
          /\ server_info' = Head(s2c).words \ {"name"} /\ UNCHANGED <<link, offers>>
      BY <1>6, <2>2 DEF ReadEhlo, DropTransport, Consume, ReplyArrived, response, server
    <3>2. Head(s2c) = s2c[1]
      BY <3>1, HeadTailProperties DEF TypeOK, ServerTypeOK
    <3> QED
      BY <3>1, <3>2 DEF OptionsInv, FirstOffers
  <2> QED
    BY <2>1, <2>2
<1>7. CASE \E e \in Emails : Send(e)
  <2>1. PICK e \in Emails : Send(e)
    BY <1>7
  <2>2. /\ pc = "idle" /\ pc' = "send" /\ UNCHANGED <<link, offers, server_info>>
        /\ mail_options' \subseteq server_info
        /\ pipelining' => "PIPELINING" \in server_info
    BY <2>1 DEF Send, serverVars
  <2> QED
    BY <2>2 DEF OptionsInv
<1>8. CASE WriteCommand \/ WriteMessage \/ ReadStepReply
  <2>1. pc = "send" /\ UNCHANGED <<link, offers, pc, mail_options, pipelining, server_info>>
    BY <1>8 DEF WriteCommand, WriteMessage, ReadStepReply, Consume, server
  <2> QED
    BY <2>1 DEF OptionsInv
<1>9. CASE ReaderFails \/ ReadNegativeReply
  <2>1. pc = "send" /\ UNCHANGED <<server_info, offers>>
    BY <1>9 DEF ReaderFails, ReadNegativeReply, server
  <2>2. PICK kind, unread : KeepOrDrop(kind, unread)
    BY <1>9 DEF ReaderFails, ReadNegativeReply, Fail
  <2> QED
    BY <1>2, <1>3, <2>1, <2>2
<1>10. CASE ReadFinalReply \/ Quit
  BY <1>2, <1>10 DEF ReadFinalReply, Quit, Consume, server
<1>11. CASE ReadQuit
  <2>1. pc = "quit" /\ UNCHANGED <<server_info, offers>>
    BY <1>11 DEF ReadQuit, server
  <2>2. (pc' = "idle" /\ UNCHANGED link) \/ pc' = "dropped"
    BY <1>3, <1>11 DEF ReadQuit, Consume
  <2> QED
    BY <1>2, <2>1, <2>2
<1>12. CASE Starttls \/ ReadStarttls \/ UpgradeTls \/ StarttlsUnsupported \/ Drop
  BY <1>1, <1>12 DEF Starttls, ReadStarttls, UpgradeTls, StarttlsUnsupported, Drop, DropTransport
<1>13. CASE ReadEof \/ WriteFails \/ Cancel
  BY <1>1, <1>13 DEF ReadEof, WriteFails, Cancel, GiveUp, DropTransport
<1>14. CASE Abandon
  BY <1>2, <1>14 DEF Abandon, BetweenCommands, MayCutLine, MayCutContent, server
<1>15. CASE Auth \/ ReadChallenge \/ Respond
  BY <1>2, <1>15 DEF Auth, ReadChallenge, Respond, Consume, server
<1>16. CASE RespondFails \/ ReadAuthReply
  <2>1. pc \in {"auth", "challenged"} /\ UNCHANGED <<server_info, offers>>
    BY <1>16 DEF RespondFails, ReadAuthReply, server
  <2>2. (pc' = "idle" /\ UNCHANGED link) \/ pc' = "dropped"
    BY <1>3, <1>16 DEF RespondFails, ReadAuthReply, Consume
  <2> QED
    BY <1>2, <2>1, <2>2
<1> QED
  BY <1>4, <1>5, <1>6, <1>7, <1>8, <1>9, <1>10, <1>11, <1>12, <1>13, <1>14, <1>15, <1>16
  DEF CallStep, CallerStep

\* The parameters of MAIL and the choice to pipeline rest on what the server offered in
\* the session `send` runs in, never in the one before STARTTLS or another connection.
THEOREM OnlyWhatIsOffered ==
    ASSUME Orderly
    PROVE  Spec => []OptionsOffered
<1>1. Init => TypeOK /\ SyncInv
  BY InitType, InitSync
<1>2. TypeOK /\ SyncInv /\ [Next]_vars => (TypeOK /\ SyncInv)'
  BY NextType, NextSync, OrderlyIsTidy
<1>3. Init => OptionsInv
  BY DEF Init, OptionsInv
<1>4. TypeOK /\ SyncInv /\ OptionsInv /\ [Next]_vars => OptionsInv'
  <2> SUFFICES ASSUME TypeOK, SyncInv, OptionsInv, [Next]_vars PROVE OptionsInv'
    OBVIOUS
  <2>1. CASE CallStep \/ CallerStep
    BY <2>1, ClientKeepsOptions
  <2>2. CASE ServerMoves \/ NetworkMoves
    BY <2>2, ServerKeepsOptions
  <2>3. CASE UNCHANGED vars
    BY <2>3 DEF vars, serverVars, clientVars, call, OptionsInv, FirstOffers, is_positive
  <2> QED
    BY <2>1, <2>2, <2>3 DEF Next, Finished
<1>5. OptionsInv => OptionsOffered
  BY DEF OptionsInv, OptionsOffered
<1> QED
  BY <1>1, <1>2, <1>3, <1>4, <1>5, PTL DEF Spec

-----------------------------------------------------------------------------
(* The promise of send *)

\* The outcome MailSubmission knows, for each result of a call.
LEMMA OutcomeFacts ==
    /\ Outcome("unsent") = "unsent"
    /\ Outcome("sending") = "pending"
    /\ Outcome("ok") = "sent"
    /\ \A r \in Rejections : Outcome(r) = "rejected"
    /\ \A r \in {"parsing", "io", "cancelled"} : Outcome(r) = "unknown"
BY DEF Outcome, Rejections

\* Every delivery that is as addressed is an email of the abstract inbox.
LEMMA EmailsOf ==
    ASSUME NEW d \in Seq(Messages), \A m \in 1 .. Len(d) : d[m] = Genuine(d[m].body),
           NEW f, f = [m \in 1 .. Len(d) |->
                          IF d[m] = Genuine(d[m].body) THEN d[m].body ELSE NoEmail]
    PROVE  /\ f \in Seq(Emails) /\ Len(f) = Len(d)
           /\ \A m \in 1 .. Len(d) : f[m] = d[m].body
<1>1. Len(d) \in Nat /\ \A m \in 1 .. Len(d) : d[m] \in Messages
  BY LenProperties, ElementOfSeq
<1>2. \A m \in 1 .. Len(d) : d[m].body \in Emails
  BY <1>1 DEF Messages
<1>3. f = [m \in 1 .. Len(d) |-> d[m].body]
  OBVIOUS
<1>4. f \in [1 .. Len(d) -> Emails]
  BY <1>2, <1>3
<1>5. f \in Seq(Emails)
  BY <1>1, <1>4, SeqDef
<1>6. Len(f) = Len(d)
  BY <1>1, <1>4, <1>5, LenProperties
<1> QED
  BY <1>3, <1>5, <1>6

\* What the server took, as the mails it holds.
LEMMA InboxFacts ==
    ASSUME TypeOK, DeliveredIntact
    PROVE  /\ Inbox \in Seq(Emails) /\ Len(Inbox) = Len(delivered)
           /\ \A m \in 1 .. Len(delivered) : Inbox[m] = delivered[m].body
BY EmailsOf DEF Inbox, DeliveredIntact, TypeOK, ServerTypeOK

\* An email is taken if some delivery is of it.
LEMMA TakenFacts ==
    ASSUME TypeOK, DeliveredIntact, NEW e \in Emails
    PROVE  Submission!Taken(e) <=> Accepted(e) # {}
BY InboxFacts DEF Submission!Taken, Accepted

\* The initial states are those of MailSubmission.
LEMMA InitPromise == Init => Submission!Init
<1> SUFFICES ASSUME Init PROVE Submission!Init
  OBVIOUS
<1>1. delivered = <<>> /\ \A e \in Emails : result[e] = "unsent"
  BY DEF Init, ServerInit
<1>2. Inbox = <<>>
  <2>1. TypeOK /\ DeliveredIntact
    BY InitType, InitDelivery DEF DeliveryInv
  <2>2. Inbox \in Seq(Emails) /\ Len(Inbox) = 0
    BY <1>1, <2>1, InboxFacts, EmptySeq
  <2> QED
    BY <2>2, EmptySeq
<1>3. [e \in Emails |-> Outcome(result[e])] = [e \in Emails |-> "unsent"]
  BY <1>1, OutcomeFacts
<1> QED
  BY <1>2, <1>3 DEF Submission!Init

\* A call ends: the caller learns an outcome.
LEMMA ReportStep ==
    ASSUME TypeOK, DeliveryInv, pc = "send", NEW r \in Results \ {"unsent", "sending"},
           result' = [result EXCEPT ![email] = r], UNCHANGED delivered,
           r = "ok" => Accepted(email) # {},
           r \in Rejections => Accepted(email) = {}
    PROVE  Submission!Next
<1>1. PICK e \in Emails : e = email
  BY DEF TypeOK, ClientTypeOK
<1>2. result[e] = "sending" /\ result \in [Emails -> Results]
  BY <1>1 DEF DeliveryInv, VerdictInv, TypeOK, ClientTypeOK
<1>3. Outcome(r) \in {"sent", "rejected", "unknown"}
  BY OutcomeFacts DEF Results
<1>4. Outcome(r) = "sent" => r = "ok"
  BY OutcomeFacts DEF Results
<1>5. Outcome(r) = "rejected" => r \in Rejections
  BY OutcomeFacts DEF Results
<1>6. Submission!Taken(e) <=> Accepted(e) # {}
  BY TakenFacts DEF DeliveryInv
<1>7. Inbox' = Inbox
  BY DEF Inbox, Genuine, Envelope
<1>8. [f \in Emails |-> Outcome(result[f])]' =
          [[f \in Emails |-> Outcome(result[f])] EXCEPT ![e] = Outcome(r)]
  BY <1>1, <1>2
<1>9. [f \in Emails |-> Outcome(result[f])][e] = "pending"
  BY <1>2, OutcomeFacts
<1>10. Submission!Report(e, Outcome(r))
  BY <1>1, <1>3, <1>4, <1>5, <1>6, <1>7, <1>8, <1>9 DEF Submission!Report
<1> QED
  BY <1>3, <1>10 DEF Submission!Next, Submission!Outcomes

\* The start of a call is Submit.
LEMMA SubmitStep ==
    ASSUME TypeOK, NEW e \in Emails, Send(e)
    PROVE  Submission!Next
<1>1. /\ result[e] = "unsent" /\ result' = [result EXCEPT ![e] = "sending"]
      /\ UNCHANGED delivered /\ result \in [Emails -> Results]
  BY DEF Send, serverVars, TypeOK, ClientTypeOK
<1>2. Inbox' = Inbox
  BY <1>1 DEF Inbox, Genuine, Envelope
<1>3. /\ [f \in Emails |-> Outcome(result[f])]' =
             [[f \in Emails |-> Outcome(result[f])] EXCEPT ![e] = "pending"]
      /\ [f \in Emails |-> Outcome(result[f])][e] = "unsent"
  BY <1>1, OutcomeFacts
<1>4. Submission!Submit(e)
  BY <1>2, <1>3 DEF Submission!Submit
<1> QED
  BY <1>4 DEF Submission!Next

\* The server takes a content: the email goes into the inbox.
LEMMA AcceptStep ==
    ASSUME TypeOK, DeliveryInv, SBody, delivered' # delivered, UNCHANGED result,
           TypeOK', DeliveryInv'
    PROVE  Submission!Next
<1>1. PICK e \in Emails :
          /\ smode = "data" /\ Len(c2s) = 1 /\ c2s[1] = Content(e)
          /\ delivered' = Append(delivered, Genuine(e))
  BY BodyTaken DEF DeliveryInv
<1>2. InWire(e)
  BY <1>1, ContentFacts DEF InWire
<1>3. /\ Accepted(e) = {} /\ result[e] # "unsent" /\ result[e] \notin Rejections
      /\ result[e] # "ok" /\ result[e] \in Results
  BY <1>1, <1>2 DEF DeliveryInv, OnceInv, Once, NotTaken, Unwritten, TypeOK, ClientTypeOK
<1>4. Outcome(result[e]) \in {"pending", "unknown"}
  BY <1>3, OutcomeFacts DEF Results
<1>5. ~Submission!Taken(e)
  BY <1>3, TakenFacts DEF DeliveryInv
<1>6. Inbox' = Append(Inbox, e)
  <2>1. delivered \in Seq(Messages) /\ Len(delivered) \in Nat /\ Genuine(e) \in Messages
        /\ Genuine(e).body = e
    BY LenProperties, ContentFacts DEF TypeOK, ServerTypeOK, Genuine, Messages, Envelope
  <2>2. /\ Len(delivered') = Len(delivered) + 1
        /\ \A m \in 1 .. Len(delivered) : delivered'[m] = delivered[m]
        /\ delivered'[Len(delivered) + 1] = Genuine(e)
    BY <1>1, <2>1, AppendProperties
  <2>3. /\ Inbox \in Seq(Emails) /\ Len(Inbox) = Len(delivered)
        /\ \A m \in 1 .. Len(delivered) : Inbox[m] = delivered[m].body
    BY InboxFacts DEF DeliveryInv
  <2>4. /\ Inbox' \in Seq(Emails) /\ Len(Inbox') = Len(delivered')
        /\ \A m \in 1 .. Len(delivered') : Inbox'[m] = delivered'[m].body
    <3>1. /\ delivered' \in Seq(Messages)
          /\ \A m \in 1 .. Len(delivered') : delivered'[m] = Genuine(delivered'[m].body)
      BY DEF DeliveryInv, DeliveredIntact, TypeOK, ServerTypeOK, Genuine, Envelope
    <3>2. Inbox' = [m \in 1 .. Len(delivered') |->
                       IF delivered'[m] = Genuine(delivered'[m].body)
                         THEN delivered'[m].body ELSE NoEmail]
      BY DEF Inbox, Genuine, Envelope
    <3> QED
      BY <3>1, <3>2, EmailsOf
  <2>5. /\ Append(Inbox, e) \in Seq(Emails) /\ Len(Append(Inbox, e)) = Len(Inbox) + 1
        /\ \A m \in 1 .. Len(Inbox) : Append(Inbox, e)[m] = Inbox[m]
        /\ Append(Inbox, e)[Len(Inbox) + 1] = e
    BY <2>3, AppendProperties
  <2>6. \A m \in 1 .. Len(delivered') : Inbox'[m] = Append(Inbox, e)[m]
    <3> SUFFICES ASSUME NEW m \in 1 .. Len(delivered') PROVE Inbox'[m] = Append(Inbox, e)[m]
      OBVIOUS
    <3>1. m \in 1 .. Len(delivered) \/ m = Len(delivered) + 1
      BY <2>1, <2>2
    <3> QED
      BY <2>1, <2>2, <2>3, <2>4, <2>5, <3>1
  <2> QED
    BY <2>2, <2>3, <2>4, <2>5, <2>6, SeqEqual
<1>7. [f \in Emails |-> Outcome(result[f])]' = [f \in Emails |-> Outcome(result[f])]
  OBVIOUS
<1>8. Submission!Accept(e)
  BY <1>4, <1>5, <1>6, <1>7 DEF Submission!Accept
<1> QED
  BY <1>8 DEF Submission!Next

\* What holds of every email holds of the one being sent.
LEMMA CurrentOnce ==
    ASSUME TypeOK, OnceInv
    PROVE  CurrentInv
BY DEF OnceInv, CurrentInv, TypeOK, ClientTypeOK

\* What neither ends a call nor delivers is a stutter of MailSubmission.
LEMMA PromiseStep ==
    ASSUME TypeOK, SyncInv, DeliveryInv, TypeOK', DeliveryInv', TidyStep, [Next]_vars
    PROVE  [Submission!Next]_(Submission!vars)
<1>1. CASE UNCHANGED <<result, delivered>>
  BY <1>1 DEF Submission!vars, Inbox, Genuine, Envelope
<1>2. CASE ServerMoves \/ NetworkMoves
  <2>1. ServerStep \/ NetworkStep
    BY <1>2 DEF ServerMoves, NetworkMoves
  <2>2. UNCHANGED result
    BY <1>2 DEF ServerMoves, NetworkMoves, clientVars
  <2>3. UNCHANGED delivered \/ SBody
    BY <2>1, ServerTakes
  <2> QED
    BY <1>1, <2>2, <2>3, AcceptStep
<1>3. CASE CallStep \/ CallerStep
  <2>1. UNCHANGED delivered
    BY <1>3, ClientSteps
  <2>2. CASE \E e \in Emails : Send(e)
    BY <2>2, SubmitStep
  <2>3. CASE ReadFinalReply
    <3>1. Accepted(email) # {}
      BY <2>3, OkIsTaken DEF DeliveryInv
    <3>2. pc = "send" /\ result' = [result EXCEPT ![email] = "ok"]
      BY <2>3 DEF ReadFinalReply
    <3> QED
      BY <2>1, <3>1, <3>2, ReportStep DEF Results, Rejections
  <2>4. CASE ReadNegativeReply
    <3>1. ErrorKind(response) \in Rejections => Accepted(email) = {}
      BY <2>4, RejectedIsNotTaken, CurrentOnce DEF DeliveryInv, NotTaken
    <3>2. pc = "send" /\ result' = [result EXCEPT ![email] = ErrorKind(response)]
      BY <2>4 DEF ReadNegativeReply, Fail
    <3>3. ErrorKind(response) \in Results \ {"unsent", "sending", "ok"}
      BY ErrorKindType
    <3> QED
      BY <2>1, <3>1, <3>2, <3>3, ReportStep
  <2>5. CASE ReaderFails
    <3>1. pc = "send" /\ result' = [result EXCEPT ![email] = "reader"] /\ Unwritten(email)
      BY <2>5, ContentFacts DEF ReaderFails, Fail, Unwritten, MayWriteMessage, TypeOK, ClientTypeOK
    <3>2. Accepted(email) = {}
      BY <3>1 DEF DeliveryInv, OnceInv, Once, NotTaken, TypeOK, ClientTypeOK
    <3> QED
      BY <2>1, <3>1, <3>2, ReportStep DEF Results, Rejections
  <2>6. CASE ReadEof \/ WriteFails \/ Cancel
    <3>1. PICK kind \in {"io", "cancelled"} : GiveUp(kind)
      BY <2>6 DEF ReadEof, WriteFails, Cancel
    <3>2. CASE pc = "send"
      BY <2>1, <3>1, <3>2, ReportStep DEF GiveUp, Results, Rejections
    <3>3. CASE pc # "send"
      BY <1>1, <2>1, <3>1, <3>3 DEF GiveUp
    <3> QED
      BY <3>2, <3>3
  <2>7. CASE Abandon
    <3>1. pc = "send" /\ result' = [result EXCEPT ![email] = "cancelled"]
      BY <2>7 DEF TidyStep, BetweenCommands, Abandon
    <3> QED
      BY <2>1, <3>1, ReportStep DEF Results, Rejections
  <2>8. UNCHANGED result \/ ReadFinalReply \/ ReadNegativeReply \/ ReaderFails \/ ReadEof
        \/ WriteFails \/ Cancel \/ Abandon \/ \E e \in Emails : Send(e)
    BY <1>3 DEF CallStep, CallerStep, ReadGreeting, SendEhlo, ReadEhlo, ReadChallenge, Respond,
       RespondFails, ReadAuthReply, WriteCommand, WriteMessage, ReadStepReply, ReadQuit,
       ReadStarttls, Connect, Auth, Quit, StarttlsUnsupported, Starttls, UpgradeTls, Drop
  <2> QED
    BY <1>1, <2>1, <2>2, <2>3, <2>4, <2>5, <2>6, <2>7, <2>8
<1>4. CASE UNCHANGED vars
  BY <1>1, <1>4 DEF vars, serverVars, clientVars
<1> QED
  BY <1>2, <1>3, <1>4 DEF Next, Finished

\* `send` keeps the promise of MailSubmission: whatever the server and the network
\* do, what the caller is told agrees with what the server took.
THEOREM PromiseKept ==
    ASSUME Orderly
    PROVE  Spec => KeepsPromise
<1>1. Init => Submission!Init
  BY InitPromise
<1>2. /\ TypeOK /\ SyncInv /\ DeliveryInv /\ TypeOK' /\ DeliveryInv' /\ [Next]_vars
         => [Submission!Next]_(Submission!vars)
  BY PromiseStep, OrderlyIsTidy
<1> QED
  BY <1>1, <1>2, DeliveryInvariant, PTL DEF Spec, KeepsPromise, Submission!Spec

-----------------------------------------------------------------------------
(* Every caller *)

\* The current email is marked as such.
SendingInv == pc = "send" => result[email] = "sending"

\* Every step keeps what is known of the email being sent.
LEMMA NextSending ==
    ASSUME TypeOK, SendingInv, [Next]_vars
    PROVE  SendingInv'
<1>0. result \in [Emails -> Results]
  BY DEF TypeOK, ClientTypeOK
<1>1. CASE pc' # "send"
  BY <1>1 DEF SendingInv
<1>2. CASE UNCHANGED <<pc, email, result>>
  BY <1>2 DEF SendingInv
<1>3. CASE \E e \in Emails : Send(e)
  BY <1>0, <1>3 DEF SendingInv, Send
<1>4. CASE CallStep \/ CallerStep
  <2>1. CASE WriteCommand \/ WriteMessage \/ ReadStepReply
    BY <1>2, <2>1 DEF WriteCommand, WriteMessage, ReadStepReply
  <2> QED
    BY <1>1, <1>3, <1>4, <2>1
       DEF CallStep, CallerStep, ReadGreeting, SendEhlo, ReadEhlo, ReadChallenge, Respond,
           RespondFails, ReadAuthReply, ReaderFails, ReadFinalReply, ReadNegativeReply,
           ReadQuit, ReadStarttls, ReadEof, WriteFails, GiveUp, Fail, KeepOrDrop,
           DropTransport, Connect, Auth, Quit, StarttlsUnsupported, Starttls, UpgradeTls,
           Cancel, Abandon, Drop
<1>5. CASE ServerMoves \/ NetworkMoves \/ UNCHANGED vars
  BY <1>2, <1>5 DEF ServerMoves, NetworkMoves, clientVars, call, vars
<1> QED
  BY <1>4, <1>5 DEF Next, Finished


\* An email that was never sent is not there.
FreshInv ==
    \A e \in Emails : result[e] = "unsent" => Accepted(e) = {} /\ ~InWire(e)

\* What the server takes is a message.
LEMMA TakenType ==
    ASSUME TypeOK, SBody, delivered' # delivered
    PROVE  [from |-> txn.from, to |-> txn.to, intact |-> txn.intact,
            body |-> Head(c2s).email] \in Messages
<1>1. Head(c2s) \in Commands /\ Head(c2s).verb = "BODY"
  BY TakeType DEF SBody, Take, TypeOK, ServerTypeOK
<1>2. Head(c2s).email \in Emails
  BY <1>1 DEF Commands, PlainVerbs, Fragments
<1> QED
  BY <1>1, <1>2 DEF SBody, TypeOK, ServerTypeOK, Messages, Transactions

\* The server and the network bring up no email that was not sent.
LEMMA ServerKeepsFresh ==
    ASSUME TypeOK, FreshInv, ServerStep \/ NetworkStep, UNCHANGED result
    PROVE  FreshInv'
<1> SUFFICES ASSUME NEW e \in Emails, result[e] = "unsent"
             PROVE  Accepted(e)' = {} /\ ~InWire(e)'
  BY DEF FreshInv
<1>1. Accepted(e) = {} /\ ~InWire(e)
  BY DEF FreshInv
<1>2. ~InWire(e)'
  BY <1>1, ServerTakes DEF InWire
<1>3. CASE UNCHANGED delivered
  BY <1>1, <1>2, <1>3 DEF Accepted
<1>4. CASE SBody /\ delivered' # delivered
  <2>1. /\ c2s \in Seq(Commands) /\ c2s # <<>> /\ Head(c2s).verb = "BODY"
        /\ delivered \in Seq(Messages)
        /\ delivered' = Append(delivered, [from |-> txn.from, to |-> txn.to,
                                           intact |-> txn.intact, body |-> Head(c2s).email])
    BY <1>4 DEF SBody, Take, TypeOK, ServerTypeOK
  <2>2. Head(c2s) = c2s[1] /\ 1 \in 1 .. Len(c2s)
    BY <2>1, HeadTailProperties, EmptySeq, LenProperties
  <2>3. Head(c2s).email # e
    BY <1>1, <2>1, <2>2 DEF InWire
  <2> DEFINE m == [from |-> txn.from, to |-> txn.to, intact |-> txn.intact,
                   body |-> Head(c2s).email]
  <2>4. /\ Len(delivered) \in Nat /\ Len(delivered') = Len(delivered) + 1
        /\ \A i \in 1 .. Len(delivered) : delivered'[i] = delivered[i]
        /\ delivered'[Len(delivered) + 1] = m
    <3>1. m \in Messages
      BY <1>4, TakenType
    <3> QED
      BY <2>1, <3>1, AppendProperties, LenProperties
  <2>5. \A i \in 1 .. Len(delivered') : delivered'[i].body # e
    BY <1>1, <2>3, <2>4 DEF Accepted
  <2> QED
    BY <1>2, <2>5 DEF Accepted
<1> QED
  BY <1>3, <1>4, ServerTakes

\* What a step of the client does to the results.
LEMMA ResultStep ==
    ASSUME TypeOK, CallStep \/ CallerStep
    PROVE  UNCHANGED result \/ \E e \in Emails, r \in Results \ {"unsent"} :
                                   result' = [result EXCEPT ![e] = r]
<1> DEFINE Ends(r) == pc = "send" /\ result' = [result EXCEPT ![email] = r]
           Goal == \E e \in Emails, r \in Results \ {"unsent"} : result' = [result EXCEPT ![e] = r]
<1>1. ASSUME NEW r \in Results \ {"unsent"}, Ends(r)
      PROVE  Goal
  BY <1>1 DEF TypeOK, ClientTypeOK
<1>2. /\ {"sending", "ok", "reader", "cancelled", "io"} \subseteq Results \ {"unsent"}
      /\ ErrorKind(response) \in Results \ {"unsent"}
  BY ErrorKindType DEF Results, Rejections
<1>3. CASE \E e \in Emails : Send(e)
  BY <1>2, <1>3 DEF Send
<1>4. CASE ReadFinalReply \/ ReadNegativeReply \/ ReaderFails
  <2>1. Ends("ok") \/ Ends(ErrorKind(response)) \/ Ends("reader")
    BY <1>4 DEF ReadFinalReply, ReadNegativeReply, ReaderFails, Fail
  <2> QED
    BY <1>1, <1>2, <2>1
<1>5. CASE Abandon \/ ReadEof \/ WriteFails \/ Cancel
  <2>1. UNCHANGED result \/ Ends("io") \/ Ends("cancelled")
    BY <1>5 DEF Abandon, ReadEof, WriteFails, Cancel, GiveUp
  <2> QED
    BY <1>1, <1>2, <2>1
<1>6. ASSUME CallStep \/ CallerStep
      PROVE  UNCHANGED result \/ ReadFinalReply \/ ReadNegativeReply \/ ReaderFails \/ Abandon
             \/ ReadEof \/ WriteFails \/ Cancel \/ \E e \in Emails : Send(e)
  BY <1>6 DEF CallStep, CallerStep, ReadGreeting, SendEhlo, ReadEhlo, ReadChallenge, Respond,
     RespondFails, ReadAuthReply, WriteCommand, WriteMessage, ReadStepReply, ReadQuit,
     ReadStarttls, Connect, Auth, Quit, StarttlsUnsupported, Starttls, UpgradeTls, Drop
<1> QED
  BY <1>3, <1>4, <1>5, <1>6

\* Neither does the client write the content of an email it is not sending.
LEMMA ClientKeepsFresh ==
    ASSUME TypeOK, SendingInv, FreshInv, CallStep \/ CallerStep
    PROVE  FreshInv'
<1> SUFFICES ASSUME NEW e \in Emails, result'[e] = "unsent"
             PROVE  Accepted(e)' = {} /\ ~InWire(e)'
  BY DEF FreshInv
<1>1. result[e] = "unsent"
  <2>1. UNCHANGED result \/ \E f \in Emails, r \in Results \ {"unsent"} :
                                result' = [result EXCEPT ![f] = r]
    BY ResultStep
  <2> QED
    BY <2>1 DEF TypeOK, ClientTypeOK
<1>2. Accepted(e) = {} /\ ~InWire(e)
  BY <1>1 DEF FreshInv
<1>3. Accepted(e)' = {}
  BY <1>2, ClientSteps DEF Accepted
<1>4. ASSUME NEW cmd \in Commands, Write(cmd), cmd.verb # "BODY" \/ cmd.email # e
      PROVE  ~InWire(e)'
  BY <1>2, <1>4, WireKept
<1>5. CASE Speaks
  BY <1>3, <1>4, <1>5, SpeaksLine
<1>6. CASE WriteCommand \/ WriteMessage
  <2>1. /\ pc = "send" /\ email \in Emails /\ sent + 1 \in Nat
        /\ Write(Step(email, sent + 1))
    BY <1>6 DEF WriteCommand, WriteMessage, TypeOK, ClientTypeOK
  <2>2. email # e
    BY <1>1, <2>1 DEF SendingInv
  <2>3. Step(email, sent + 1) \in Commands /\ Step(email, sent + 1).email = email
    BY <2>1, StepType DEF Step
  <2> QED
    BY <1>3, <1>4, <2>1, <2>2, <2>3
<1>7. CASE Abandon
  <2>1. CASE UNCHANGED c2s
    BY <1>2, <1>3, <2>1 DEF InWire
  <2>2. CASE WriteCut(Fragment) \/ WriteCut(Piece)
    <3>1. /\ Fragment \in Commands /\ Fragment.verb # "BODY"
          /\ Piece \in Commands /\ Piece.verb # "BODY"
      BY DEF Fragment, Piece, Plain, PlainVerbs, Fragments, Commands
    <3>2. Write(Fragment) \/ Write(Piece)
      BY <2>2 DEF WriteCut, Write
    <3> QED
      BY <1>3, <1>4, <3>1, <3>2
  <2> QED
    BY <1>7, <2>1, <2>2 DEF Abandon
<1>8. CASE Connect \/ UpgradeTls
  BY <1>2, <1>3, <1>8 DEF Connect, UpgradeTls, InWire
<1>9. CASE Listens
  BY <1>2, <1>3, <1>9, ClientSteps DEF InWire
<1> QED
  BY <1>3, <1>5, <1>6, <1>7, <1>8, <1>9, ClientSteps

\* A dropped transport leaves nothing to read.
LEMMA NextDropped ==
    ASSUME TypeOK, InvDropped, [Next]_vars
    PROVE  InvDropped'
<1>1. CASE CallStep \/ CallerStep
  <2>1. pc' # "dropped" \/ DropTransport
    BY <1>1 DEF CallStep, CallerStep, ReadGreeting, SendEhlo, ReadEhlo, ReadChallenge,
       Respond, RespondFails, ReadAuthReply, WriteCommand, WriteMessage, ReaderFails,
       ReadStepReply, ReadFinalReply, ReadNegativeReply, ReadQuit, ReadStarttls, ReadEof,
       WriteFails, GiveUp, Fail, KeepOrDrop, Connect, Send, Auth, Quit, StarttlsUnsupported,
       Starttls, UpgradeTls, Cancel, Abandon, Drop
  <2> QED
    BY <2>1 DEF InvDropped, DropTransport
<1>2. CASE ServerMoves \/ NetworkMoves
  <2>1. SUFFICES ASSUME pc = "dropped", s2c = <<>>, link = "down"
                 PROVE  UNCHANGED <<s2c, link>>
    BY <1>2 DEF ServerMoves, NetworkMoves, clientVars, InvDropped
  <2>2. CASE ServerStep
    <3>1. UNCHANGED s2c
      BY <2>1, <2>2, NoReplyUnlessLive DEF Live
    <3> QED
      BY <2>2, <3>1 DEF ServerStep, SGreet, SEhlo, SAuth, SSasl, SMail, SRcpt, SData, SRefuse,
         SBody, SAbsorb, SGlue, SQuit, SStarttls, SDiscard, SHangup
  <2>3. CASE NetworkStep
    BY <2>1, <2>3 DEF NetworkStep, SShutdown, LoseConnection, GarbleReply, Say
  <2> QED
    BY <1>2, <2>2, <2>3 DEF ServerMoves, NetworkMoves
<1>3. CASE UNCHANGED vars
  BY <1>3 DEF vars, serverVars, clientVars, InvDropped
<1> QED
  BY <1>1, <1>2, <1>3 DEF Next, Finished

\* What the server took of the email being sent is that email, and content already
\* written is not empty.
GenuineInv ==
    pc = "send" =>
        /\ \A m \in Accepted(email) : delivered[m] = Genuine(email)
        /\ sent = ScriptLength(email) => email \notin EmptyMessages

\* What a connection without an unfinished call is like.
InStep == SyncInv /\ TxnInv /\ ContentInv /\ CurrentInv /\ VerdictInv /\ GenuineInv

\* A step that leaves nothing unfinished is tidy.
LEMMA FinishedIsTidy ==
    ASSUME TypeOK, InStep, ~LeavesUnfinished
    PROVE  TidyStep
<1>1. ASSUME NEW kind, NEW unread, KeepOrDrop(kind, unread)
      PROVE  pc' = "idle" \/ DropTransport
  BY <1>1 DEF KeepOrDrop
<1>2. ASSUME Live, SBody
      PROVE  Head(c2s).email \notin EmptyMessages
  <2>1. smode # "greet" /\ c2s # <<>> /\ Head(c2s).verb = "BODY"
    BY <1>2 DEF SBody, Take
  <2>2. /\ pc = "send" /\ email \in Emails
        /\ acked + Len(s2c) + 1 \in 1 .. ScriptLength(email)
        /\ acked + Len(s2c) + 1 <= sent
        /\ Head(c2s) = Step(email, acked + Len(s2c) + 1)
    BY <1>2, <2>1, HeadAwaited DEF ScriptVerbs, InStep
  <2>3. /\ Head(c2s).email = email
        /\ acked + Len(s2c) + 1 = ScriptLength(email)
    BY <2>1, <2>2, ScriptFacts
  <2>4. sent <= ScriptLength(email) /\ sent \in Nat /\ ScriptLength(email) \in Nat
    BY <2>2, ScriptFacts DEF InStep, SyncInv, InvCall, TypeOK, ClientTypeOK
  <2>5. sent = ScriptLength(email)
    BY <2>2, <2>3, <2>4
  <2> QED
    BY <2>2, <2>3, <2>5 DEF InStep, GenuineInv
<1>3. ReaderFails => DropTransport
  BY <1>1 DEF ReaderFails, Fail, LeavesUnfinished
<1>4. ReadNegativeReply =>
        DropTransport \/ (sent = acked + 1 /\ response.severity \in Negative)
  BY <1>1 DEF ReadNegativeReply, Fail, LeavesUnfinished, SendLeaves, Unreadable, is_positive
<1>5. RespondFails => DropTransport
  BY <1>1 DEF RespondFails, LeavesUnfinished, AuthLeaves
<1>6. ReadAuthReply =>
        DropTransport \/ response.severity \in Negative \cup (Positive \ {"Challenge"})
  <2>1. ReadAuthReply => pc' = "idle" \/ DropTransport
    BY <1>1 DEF ReadAuthReply
  <2> QED
    BY <2>1 DEF LeavesUnfinished, AuthLeaves, Unreadable
<1>7. Abandon => BetweenCommands /\ UNCHANGED c2s
  BY DEF Abandon, LeavesUnfinished, AbandonLeaves
<1> QED
  BY <1>2, <1>3, <1>4, <1>5, <1>6, <1>7 DEF TidyStep

\* The server keeps it so.
LEMMA ServerKeepsInStep ==
    ASSUME TypeOK, InStep, TidyStep, ServerMoves \/ NetworkMoves
    PROVE  InStep'
<1>1. ServerStep \/ NetworkStep
  BY DEF ServerMoves, NetworkMoves
<1>2. UNCHANGED clientVars /\ UNCHANGED <<pc, email, sent, result>>
  BY DEF ServerMoves, NetworkMoves, clientVars, call
<1>3. SyncInv' /\ TxnInv' /\ ContentInv' /\ VerdictInv'
  BY <1>1, <1>2, ServerKeepsSync, ServerKeepsTxn, ServerKeepsContent, ServerKeepsVerdict
     DEF InStep
<1>4. ASSUME pc = "send"
      PROVE  Once(email)' /\ (\A m \in Accepted(email)' : delivered'[m] = Genuine(email))
  <2>1. PICK e \in Emails : e = email
    BY <1>4 DEF TypeOK, ClientTypeOK
  <2>2. Once(e) /\ \A m \in Accepted(e) : delivered[m] = Genuine(e)
    BY <1>4, <2>1 DEF InStep, CurrentInv, GenuineInv
  <2>3. Once(e)'
    BY <1>1, <1>2, <2>2, ServerKeepsOnce DEF InStep
  <2>4. \A m \in Accepted(e)' : delivered'[m] = Genuine(e)
    <3>1. CASE UNCHANGED delivered
      BY <2>2, <3>1 DEF Accepted
    <3>2. CASE SBody /\ delivered' # delivered
      <4>1. PICK f \in Emails : delivered' = Append(delivered, Genuine(f))
        BY <3>2, BodyTaken DEF InStep
      <4>2. /\ Len(delivered) \in Nat /\ Len(delivered') = Len(delivered) + 1
            /\ \A m \in 1 .. Len(delivered) : delivered'[m] = delivered[m]
            /\ delivered'[Len(delivered) + 1] = Genuine(f) /\ Genuine(f).body = f
        <5>1. delivered \in Seq(Messages) /\ Genuine(f) \in Messages /\ Genuine(f).body = f
          BY ContentFacts DEF TypeOK, ServerTypeOK, Genuine, Messages, Envelope
        <5> QED
          BY <4>1, <5>1, AppendProperties, LenProperties
      <4>3. SUFFICES ASSUME NEW m \in 1 .. Len(delivered'), delivered'[m].body = e
                     PROVE  delivered'[m] = Genuine(e)
        BY DEF Accepted
      <4>4. m \in 1 .. Len(delivered) \/ m = Len(delivered) + 1
        BY <4>2
      <4> QED
        BY <2>2, <4>2, <4>3, <4>4 DEF Accepted
    <3> QED
      BY <1>1, <3>1, <3>2, ServerTakes
  <2> QED
    BY <1>2, <2>1, <2>3, <2>4 DEF Once, Unwritten, NotTaken, Accepted, InWire, DataStep, Genuine,
       Envelope
<1>5. CurrentInv' /\ GenuineInv'
  BY <1>2, <1>4 DEF InStep, CurrentInv, GenuineInv, Genuine, Envelope, ScriptLength
<1> QED
  BY <1>3, <1>5 DEF InStep

\* So does the client, for an email that is not there yet.
LEMMA ClientKeepsInStep ==
    ASSUME TypeOK, InStep, FreshInv, TidyStep, ~LeavesUnfinished, CallStep \/ CallerStep
    PROVE  InStep'
<1>1. SyncInv'
  BY CallKeepsSync, CallerKeepsSync DEF InStep
<1>2. TxnInv' /\ ContentInv'
  BY ClientKeepsTxn, ClientKeepsContent DEF InStep
<1>3. VerdictInv'
  BY ClientKeepsVerdict DEF InStep, FreshInv
<1>4. UNCHANGED delivered
  BY ClientSteps
<1>5. pc' = "send" => (\E e \in Emails : Send(e)) \/ UNCHANGED <<pc, email>>
  BY DEF CallStep, CallerStep, ReadGreeting, SendEhlo, ReadEhlo, ReadChallenge,
     Respond, RespondFails, ReadAuthReply, WriteCommand, WriteMessage, ReaderFails,
     ReadStepReply, ReadFinalReply, ReadNegativeReply, ReadQuit, ReadStarttls, ReadEof,
     WriteFails, GiveUp, Fail, KeepOrDrop, DropTransport, Connect, Auth, Quit,
     StarttlsUnsupported, Starttls, UpgradeTls, Cancel, Abandon, Drop
<1>6. CASE pc' # "send"
  BY <1>1, <1>2, <1>3, <1>6 DEF InStep, CurrentInv, GenuineInv
<1>7. CASE pc' = "send" /\ \E e \in Emails : Send(e)
  <2>1. PICK e \in Emails : Send(e)
    BY <1>7
  <2>2. result[e] = "unsent" /\ email' = e /\ sent' = 0
    BY <2>1 DEF Send
  <2>3. Accepted(e) = {} /\ ~InWire(e)
    BY <2>2 DEF FreshInv
  <2>4. Once(e)
    BY <2>2, <2>3 DEF Once, NotTaken
  <2>5. Once(e)'
    BY <2>4, ClientKeepsOnce DEF InStep
  <2>6. CurrentInv'
    BY <2>2, <2>5 DEF CurrentInv, Once, Unwritten, NotTaken, Accepted, InWire, DataStep
  <2>7. GenuineInv'
    <3>1. Accepted(e)' = {}
      BY <1>4, <2>3 DEF Accepted
    <3>2. sent' # ScriptLength(e)
      BY <2>2, ScriptFacts
    <3> QED
      BY <2>2, <3>1, <3>2 DEF GenuineInv, Accepted, ScriptLength
  <2> QED
    BY <1>1, <1>2, <1>3, <2>6, <2>7 DEF InStep
<1>8. CASE pc' = "send" /\ UNCHANGED <<pc, email>>
  <2>1. PICK e \in Emails : e = email /\ e = email'
    BY <1>8 DEF TypeOK, ClientTypeOK
  <2>2. Once(e)'
    BY <1>8, <2>1, ClientKeepsOnce DEF InStep, CurrentInv
  <2>3. CurrentInv'
    BY <2>1, <2>2 DEF CurrentInv, Once, Unwritten, NotTaken, Accepted, InWire, DataStep
  <2>4. sent' = ScriptLength(e) => e \notin EmptyMessages
    <3>1. CASE WriteMessage
      BY <2>1, <3>1 DEF LeavesUnfinished
    <3>2. CASE WriteCommand
      BY <1>8, <2>1, <3>2, ScriptFacts DEF WriteCommand, MayWrite, TypeOK, ClientTypeOK
    <3>3. CASE UNCHANGED sent
      BY <1>8, <2>1, <3>3 DEF InStep, GenuineInv
    <3> QED
      BY <1>8, <3>1, <3>2, <3>3
      DEF CallStep, CallerStep, ReadGreeting, SendEhlo, ReadEhlo, ReadChallenge, Respond,
          RespondFails, ReadAuthReply, ReaderFails, ReadStepReply, ReadFinalReply,
          ReadNegativeReply, ReadQuit, ReadStarttls, ReadEof, WriteFails, GiveUp, Fail,
          KeepOrDrop, DropTransport, Connect, Send, Auth, Quit, StarttlsUnsupported, Starttls,
          UpgradeTls, Cancel, Abandon, Drop
  <2>5. GenuineInv'
    BY <1>4, <1>8, <2>1, <2>4
    DEF InStep, GenuineInv, Accepted, ScriptLength, Genuine, Envelope
  <2> QED
    BY <1>1, <1>2, <1>3, <2>3, <2>5 DEF InStep
<1> QED
  BY <1>5, <1>6, <1>7, <1>8

\* A connection starts in step, whatever became of the one before.
LEMMA ConnectsInStep ==
    ASSUME TypeOK, InvDropped, Connect
    PROVE  InStep
<1>1. pc = "dropped" /\ s2c = <<>> /\ link = "down" /\ c2s = <<>> /\ smode = "closed"
  BY DEF Connect, InvDropped
<1>2. Len(s2c) = 0 /\ Len(c2s) = 0
  BY <1>1, EmptySeq
<1>3. SyncInv
  BY <1>1, <1>2 DEF SyncInv, InvDropped, InvCall, InvAuth, InvReplies, InvInFlight, InvData,
     InvLogin, Live
<1> QED
  BY <1>1, <1>3 DEF InStep, TxnInv, ContentInv, CurrentInv, VerdictInv, GenuineInv, Live

\* The inductive invariant of every caller.
KeptInv ==
    /\ TypeOK
    /\ SendingInv
    /\ FreshInv
    /\ InvDropped
    /\ ~unfinished => InStep

\* Initially there is no connection.
LEMMA InitKept == KeptInit => KeptInv
<1> SUFFICES ASSUME KeptInit PROVE KeptInv
  OBVIOUS
<1>1. Init
  BY DEF KeptInit
<1>2. /\ pc = "dropped" /\ smode = "closed" /\ Len(delivered) = 0 /\ Len(c2s) = 0
  BY <1>1, EmptySeq DEF Init, ServerInit
<1>3. TypeOK /\ SyncInv
  BY <1>1, InitType, InitSync
<1>4. TxnInv /\ ContentInv /\ CurrentInv /\ VerdictInv /\ GenuineInv /\ SendingInv
  BY <1>2 DEF TxnInv, ContentInv, CurrentInv, VerdictInv, GenuineInv, SendingInv
<1>5. FreshInv
  BY <1>2 DEF FreshInv, Accepted, InWire
<1> QED
  BY <1>3, <1>4, <1>5 DEF KeptInv, InStep, SyncInv

\* Before a step that leaves a connection without an unfinished call, all is in step.
LEMMA InStepBefore ==
    ASSUME KeptInv, KeptNext, ~unfinished'
    PROVE  InStep /\ ~LeavesUnfinished /\ TidyStep
<1>1. CASE Connect
  <2>1. InStep
    BY <1>1, ConnectsInStep DEF KeptInv
  <2>2. pc = "dropped" /\ pc' = "greeting"
    BY <1>1 DEF Connect
  <2>3. ~LeavesUnfinished
    BY <2>2 DEF LeavesUnfinished, WriteMessage
  <2> QED
    BY <2>1, <2>3, FinishedIsTidy DEF KeptInv
<1>2. CASE ~Connect
  <2>1. ~unfinished /\ ~LeavesUnfinished
    BY <1>2 DEF KeptNext
  <2> QED
    BY <2>1, FinishedIsTidy DEF KeptInv
<1> QED
  BY <1>1, <1>2

\* Every step of every caller keeps it.
LEMMA NextKept ==
    ASSUME KeptInv, [KeptNext]_keptVars
    PROVE  KeptInv'
<1>1. [Next]_vars
  BY DEF KeptNext, keptVars
<1>2. TypeOK' /\ SendingInv' /\ InvDropped'
  BY <1>1, NextType, NextSending, NextDropped DEF KeptInv
<1>3. FreshInv'
  <2>1. CASE CallStep \/ CallerStep
    BY <2>1, ClientKeepsFresh DEF KeptInv
  <2>2. CASE ServerMoves \/ NetworkMoves
    BY <2>2, ServerKeepsFresh DEF KeptInv, ServerMoves, NetworkMoves, clientVars
  <2>3. CASE UNCHANGED vars
    BY <2>3 DEF KeptInv, FreshInv, Accepted, InWire, vars, serverVars, clientVars
  <2> QED
    BY <1>1, <2>1, <2>2, <2>3 DEF Next, Finished
<1>4. ~unfinished' => InStep'
  <2>1. CASE KeptNext /\ ~UNCHANGED vars
    <3>1. SUFFICES ASSUME ~unfinished' PROVE InStep'
      OBVIOUS
    <3>2. InStep /\ ~LeavesUnfinished /\ TidyStep
      BY <2>1, <3>1, InStepBefore
    <3>3. CallStep \/ CallerStep \/ ServerMoves \/ NetworkMoves
      BY <2>1 DEF KeptNext, Next, Finished
    <3> QED
      BY <3>2, <3>3, ServerKeepsInStep, ClientKeepsInStep DEF KeptInv
  <2>2. CASE UNCHANGED vars
    <3>1. UNCHANGED <<link, c2s, s2c, smode, txn, delivered, pc, email, sent, acked,
                      pipelining, result>>
      BY <2>2 DEF vars, serverVars, clientVars, call
    <3>2. ~unfinished' => ~unfinished
      BY <2>2, <3>1 DEF KeptNext, keptVars, Connect
    <3>3. SyncInv => SyncInv'
      BY <3>1 DEF SyncInv, InvDropped, InvCall, InvAuth, InvReplies, InvInFlight, InvData,
         InvLogin, Live, Awaited, Outstanding, LastReply
    <3>4. (TxnInv => TxnInv') /\ (ContentInv => ContentInv')
      BY <3>1 DEF TxnInv, ContentInv, Live, Answered, is_positive, Content, Envelope, Step,
         ScriptLength, DataStep
    <3>5. (CurrentInv => CurrentInv') /\ (VerdictInv => VerdictInv')
      BY <3>1 DEF CurrentInv, Once, VerdictInv, Unwritten, NotTaken, Accepted, InWire,
         is_positive, Content, Step, ScriptLength, DataStep
    <3>6. GenuineInv => GenuineInv'
      BY <3>1 DEF GenuineInv, Accepted, Genuine, Envelope, ScriptLength
    <3> QED
      BY <3>2, <3>3, <3>4, <3>5, <3>6 DEF KeptInv, InStep
  <2> QED
    BY <2>1, <2>2 DEF keptVars
<1> QED
  BY <1>2, <1>3, <1>4 DEF KeptInv

\* Only the reply to the content of an email makes its result Ok.
LEMMA OkEnds ==
    ASSUME TypeOK, Next, NEW e \in Emails, result[e] # "ok", result'[e] = "ok"
    PROVE  ReadFinalReply /\ e = email
<1>0. result \in [Emails -> Results]
  BY DEF TypeOK, ClientTypeOK
<1>1. ASSUME NEW f, NEW kind, kind # "ok"
      PROVE  result' # [result EXCEPT ![f] = kind]
  BY <1>0, <1>1
<1>2. CASE ReadNegativeReply \/ ReaderFails
  <2>1. ErrorKind(response) # "ok"
    BY DEF ErrorKind
  <2> QED
    BY <1>1, <1>2, <2>1 DEF ReadNegativeReply, ReaderFails, Fail
<1>3. CASE Abandon \/ ReadEof \/ WriteFails \/ Cancel \/ \E f \in Emails : Send(f)
  BY <1>1, <1>3 DEF Abandon, ReadEof, WriteFails, Cancel, GiveUp, Send
<1>4. CASE ReadFinalReply
  BY <1>0, <1>4 DEF ReadFinalReply
<1>5. result' # result
  OBVIOUS
<1> QED
  BY <1>2, <1>3, <1>4, <1>5
  DEF Next, CallStep, CallerStep, ReadGreeting, SendEhlo, ReadEhlo, ReadChallenge, Respond,
      RespondFails, ReadAuthReply, WriteCommand, WriteMessage, ReadStepReply, ReadQuit,
      ReadStarttls, Connect, Auth, Quit, StarttlsUnsupported, Starttls, UpgradeTls, Drop,
      ServerMoves, NetworkMoves, Finished, clientVars, vars

\* It holds of every caller.
LEMMA KeptInvariant == KeptSpec => []KeptInv
<1>1. KeptInv /\ [KeptNext]_keptVars => KeptInv'
  BY NextKept
<1> QED
  BY <1>1, InitKept, PTL DEF KeptSpec

\* Whatever a caller does with its errors, pipelined or not, and whichever calls it
\* drops: no reply is taken for another on a connection without an unfinished call.
THEOREM InStepWhenFinished == KeptSpec => []KeptInStep
<1>1. KeptInv => KeptInStep
  BY DEF KeptInv, InStep, SyncInv, InvReplies, KeptInStep, AwaitsOwnReply
<1> QED
  BY <1>1, KeptInvariant, PTL

\* Nor is a message taken that is not as it was handed over.
THEOREM AsAddressedWhenFinished == KeptSpec => KeptAsAddressed
<1> DEFINE Addressed ==
        ~unfinished =>
            \A m \in 1 .. Len(delivered') :
                m > Len(delivered) => delivered'[m] = Genuine(delivered'[m].body)
<1>1. KeptInv /\ [KeptNext]_keptVars => [Addressed]_keptVars
  <2> SUFFICES ASSUME KeptInv, KeptNext, ~unfinished,
                      NEW m \in 1 .. Len(delivered'), m > Len(delivered)
               PROVE  delivered'[m] = Genuine(delivered'[m].body)
    OBVIOUS
  <2>1. InStep /\ TypeOK
    BY DEF KeptInv
  <2>2. delivered' # delivered
    BY LenProperties DEF KeptInv, TypeOK, ServerTypeOK
  <2>3. ServerStep \/ NetworkStep
    BY <2>1, <2>2, ClientSteps DEF KeptNext, Next, Finished, ServerMoves, NetworkMoves, vars,
       serverVars
  <2>4. SBody
    BY <2>1, <2>2, <2>3, ServerTakes
  <2>5. PICK e \in Emails : delivered' = Append(delivered, Genuine(e))
    BY <2>1, <2>2, <2>4, BodyTaken DEF InStep
  <2>6. delivered \in Seq(Messages) /\ Genuine(e) \in Messages /\ Genuine(e).body = e
    BY <2>1, ContentFacts DEF TypeOK, ServerTypeOK, Genuine, Messages, Envelope
  <2>7. /\ Len(delivered) \in Nat /\ Len(delivered') = Len(delivered) + 1
        /\ delivered'[Len(delivered) + 1] = Genuine(e)
    BY <2>5, <2>6, AppendProperties, LenProperties
  <2>8. m = Len(delivered) + 1
    BY <2>7
  <2> QED
    BY <2>6, <2>7, <2>8
<1> QED
  BY <1>1, KeptInvariant, PTL DEF KeptSpec, KeptAsAddressed

\* And Ok is said of a message the server took, as addressed and once.
THEOREM OkWhenFinished == KeptSpec => KeptOkTaken
<1> DEFINE Taken ==
        \A e \in Emails :
            ~unfinished /\ result[e] # "ok" /\ result'[e] = "ok" =>
                \E m \in 1 .. Len(delivered) :
                    delivered[m] = Genuine(e) /\ Accepted(e) = {m}
<1>1. KeptInv /\ [KeptNext]_keptVars => [Taken]_keptVars
  <2> SUFFICES ASSUME KeptInv, KeptNext, NEW e \in Emails,
                      ~unfinished, result[e] # "ok", result'[e] = "ok"
               PROVE  \E m \in 1 .. Len(delivered) :
                          delivered[m] = Genuine(e) /\ Accepted(e) = {m}
    OBVIOUS
  <2>1. InStep /\ TypeOK
    BY DEF KeptInv
  <2>2. ReadFinalReply /\ e = email
    BY <2>1, OkEnds DEF KeptNext
  <2>3. pc = "send" /\ Accepted(e) # {}
    BY <2>1, <2>2, OkIsTaken DEF InStep, ReadFinalReply
  <2>4. /\ \A m, n \in Accepted(e) : m = n
        /\ \A m \in Accepted(e) : delivered[m] = Genuine(e)
    BY <2>1, <2>2, <2>3 DEF InStep, CurrentInv, Once, GenuineInv
  <2>5. PICK m \in Accepted(e) : TRUE
    BY <2>3
  <2>6. Accepted(e) = {m} /\ m \in 1 .. Len(delivered)
    BY <2>4, <2>5 DEF Accepted
  <2> QED
    BY <2>4, <2>6
<1> QED
  BY <1>1, KeptInvariant, PTL DEF KeptSpec, KeptOkTaken

=============================================================================
