------------------------- MODULE SmtpDeliveryProofs -------------------------
(***************************************************************************)
(* What the result of `send` says about the message, for an orderly caller *)
(* and every server, number of recipients, emails, connections and faults: *)
(* Ok means taken, once and as addressed; a rejection means not taken.     *)
(***************************************************************************)
EXTENDS SmtpTransportProofs

-----------------------------------------------------------------------------
(* From the positive replies to MAIL, RCPT and DATA to the inbox *)

Content(e) == Step(e, ScriptLength(e))

InWire(e) == \E i \in 1 .. Len(c2s) : c2s[i].verb = "BODY" /\ c2s[i].email = e

\* Steps of the script the server has answered.
Answered == acked + Len(s2c)

\* As long as all answers were positive, the server's transaction is what they say.
TxnInv ==
    (/\ Live
     /\ pc = "send"
     /\ Answered \in 1 .. DataStep(email)
     /\ \A i \in 1 .. Len(s2c) : is_positive(s2c[i]))
    => txn = [from |-> email,
              to |-> {email} \X {n \in 2 .. RcptCount[email] + 1 : n <= Answered},
              intact |-> TRUE]

\* Content is alone on its way, to a server that waits for it with the envelope of
\* that very email, be the client still there or not.
ContentInv ==
    smode # "closed" =>
        \A i \in 1 .. Len(c2s) : c2s[i].verb = "BODY" =>
            LET e == c2s[i].email
            IN  /\ Len(c2s) = 1
                /\ smode = "data"
                /\ c2s[i] = Content(e)
                /\ txn = [from |-> e, to |-> Envelope(e), intact |-> TRUE]

\* No content of e was taken, and none is on its way to a server that would.
NotTaken(e) == Accepted(e) = {} /\ (smode # "closed" => ~InWire(e))

\* The content of e is not written yet.
Unwritten(e) == result[e] = "unsent" \/ (pc = "send" /\ email = e /\ sent <= DataStep(e))

\* The content of e is taken at most once, and the result tells.
Once(e) ==
    /\ Unwritten(e) \/ result[e] \in Rejections => NotTaken(e)
    /\ smode # "closed" /\ InWire(e) => Accepted(e) = {}
    /\ \A m, n \in Accepted(e) : m = n
    /\ result[e] = "ok" => Accepted(e) # {}

OnceInv == \A e \in Emails : Once(e)

\* So it is for the email being sent.
CurrentInv == pc = "send" => Once(email)

\* The reply to the content tells whether it was taken, and comes before a last word.
VerdictInv ==
    pc = "send" =>
        /\ result[email] = "sending"
        /\ \A i \in 1 .. Len(s2c) : s2c[i].to = Content(email) =>
              /\ is_positive(s2c[i]) => Accepted(email) # {}
              /\ s2c[i].severity \in Negative => NotTaken(email)
        /\ Accepted(email) # {} /\ s2c # <<>> => s2c[1].to # Unsolicited

DeliveryInv == TxnInv /\ ContentInv /\ DeliveredIntact /\ OnceInv /\ VerdictInv

-----------------------------------------------------------------------------
(* The script, and what the server does to the channels *)

\* The script of an email: which command is which step.
LEMMA ContentFacts ==
    ASSUME NEW e \in Emails
    PROVE  /\ Content(e) \in Commands /\ Content(e).verb = "BODY" /\ Content(e).email = e
           /\ DataStep(e) = RcptCount[e] + 2 /\ RcptCount[e] \in Nat \ {0}
           /\ DataStep(e) \in Nat /\ ScriptLength(e) = DataStep(e) + 1
           /\ \A k \in 1 .. DataStep(e) : Step(e, k).verb # "BODY"
           /\ \A k \in 1 .. ScriptLength(e) :
                 /\ Step(e, k).verb = "MAIL" => k = 1
                 /\ Step(e, k).verb = "RCPT" => k \in 2 .. RcptCount[e] + 1
                 /\ Step(e, k).verb = "DATA" => k = DataStep(e)
                 /\ Step(e, k).verb = "BODY" => k = ScriptLength(e)
<1>1. RcptCount[e] \in Nat \ {0}
  BY RcptAssumption
<1>2. ScriptLength(e) \in Nat
  BY <1>1 DEF ScriptLength
<1>3. Content(e) \in Commands
  BY <1>2, StepType DEF Content
<1> QED
  BY <1>1, <1>3 DEF Content, DataStep, ScriptLength, Step

\* The server only takes commands away, and closes for good.
LEMMA ServerTakes ==
    ASSUME TypeOK, ServerStep \/ NetworkStep
    PROVE  /\ smode' # "closed" => smode # "closed"
           /\ Len(c2s') <= Len(c2s)
           /\ \A i \in 1 .. Len(c2s') : \E j \in 1 .. Len(c2s) : c2s'[i] = c2s[j]
           /\ ~SBody => UNCHANGED delivered
           /\ ~SBody /\ smode = "data" /\ smode' # "closed" /\ Head(c2s).verb = "BODY"
                => UNCHANGED <<smode, txn>>
<1> DEFINE Shrinks == /\ Len(c2s') <= Len(c2s)
                      /\ \A i \in 1 .. Len(c2s') : \E j \in 1 .. Len(c2s) : c2s'[i] = c2s[j]
<1>0. c2s \in Seq(Commands) /\ Len(c2s) \in Nat
  BY LenProperties DEF TypeOK, ServerTypeOK
<1>1. UNCHANGED c2s => Shrinks
  BY <1>0
<1>2. ASSUME c2s # <<>>, c2s' = Tail(c2s)
      PROVE  Shrinks
  <2>1. /\ Len(c2s) \in Nat \ {0} /\ Len(c2s') = Len(c2s) - 1
        /\ \A i \in 1 .. Len(c2s') : c2s'[i] = c2s[i + 1]
    BY <1>0, <1>2, TakeShifts
  <2>2. \A i \in 1 .. Len(c2s') : i + 1 \in 1 .. Len(c2s)
    BY <2>1
  <2> QED
    BY <2>1, <2>2
<1>3. c2s' = <<>> => Shrinks
  BY <1>0, EmptySeq
<1>4. CASE SGreet \/ GarbleReply \/ SShutdown
  BY <1>1, <1>4 DEF SGreet, GarbleReply, SShutdown
<1>5. CASE SEhlo \/ SAuth \/ SSasl \/ SMail \/ SRcpt \/ SData \/ SRefuse \/ SQuit \/ SStarttls
  <2>1. /\ c2s # <<>> /\ c2s' = Tail(c2s) /\ smode \in {"command", "sasl"}
        /\ UNCHANGED delivered
    BY <1>5 DEF SEhlo, SAuth, SSasl, SMail, SRcpt, SData, SRefuse, SQuit, SStarttls, Take
  <2> QED
    BY <1>2, <2>1
<1>6. CASE SBody
  BY <1>2, <1>6 DEF SBody, Take
<1>7. CASE SAbsorb
  <2>1. /\ c2s # <<>> /\ c2s' = Tail(c2s) /\ Head(c2s).verb # "BODY"
        /\ smode = "data" /\ UNCHANGED delivered
    BY <1>7 DEF SAbsorb, Take
  <2> QED
    BY <1>2, <2>1
<1>8. CASE SDiscard
  BY <1>2, <1>8 DEF SDiscard
<1>9. CASE SHangup
  BY <1>3, <1>9 DEF SHangup
<1>10. CASE SGlue
  <2>1. /\ Len(c2s) > 1 /\ smode \in {"command", "sasl"} /\ UNCHANGED delivered
        /\ c2s' = Tail(Tail(c2s)) \/ c2s' = <<Head(c2s)>> \o Tail(Tail(c2s))
    BY <1>10 DEF SGlue
  <2> DEFINE rest == Tail(c2s)
             t == Tail(rest)
  <2>2. c2s # <<>>
    BY <1>0, <2>1, EmptySeq
  <2>3. /\ rest \in Seq(Commands) /\ Len(rest) = Len(c2s) - 1 /\ Head(c2s) = c2s[1]
        /\ \A i \in 1 .. Len(rest) : rest[i] = c2s[i + 1]
        /\ Head(c2s) \in Commands
    BY <1>0, <2>2, HeadTailProperties
  <2>4. Len(rest) # 0
    BY <1>0, <2>1, <2>3
  <2>5. rest # <<>>
    BY <2>3, <2>4, EmptySeq
  <2>6. /\ t \in Seq(Commands) /\ Len(t) = Len(rest) - 1
        /\ \A i \in 1 .. Len(t) : t[i] = rest[i + 1]
    BY <2>3, <2>5, HeadTailProperties
  <2> HIDE DEF t, rest
  <2>7. \A i \in 1 .. Len(t) : t[i] = c2s[i + 2] /\ i + 2 \in 1 .. Len(c2s)
    <3> SUFFICES ASSUME NEW i \in 1 .. Len(t)
                 PROVE  t[i] = c2s[i + 2] /\ i + 2 \in 1 .. Len(c2s)
      OBVIOUS
    <3>1. i \in Nat /\ i + 1 \in 1 .. Len(rest) /\ (i + 1) + 1 = i + 2 /\ i + 2 \in 1 .. Len(c2s)
      BY <1>0, <2>1, <2>3, <2>6
    <3> QED
      BY <2>3, <2>6, <3>1
  <2>8. CASE c2s' = t
    <3>1. Len(c2s') <= Len(c2s) /\ Len(t) \in Nat
      BY <1>0, <2>1, <2>3, <2>6, <2>8
    <3>2. ASSUME NEW i \in 1 .. Len(c2s')
          PROVE  \E j \in 1 .. Len(c2s) : c2s'[i] = c2s[j]
      BY <2>7, <2>8
    <3> QED
      BY <2>1, <3>1, <3>2
  <2>9. CASE c2s' = <<Head(c2s)>> \o t
    <3>1. <<Head(c2s)>> \in Seq(Commands) /\ Len(<<Head(c2s)>>) = 1 /\ <<Head(c2s)>>[1] = c2s[1]
      BY <2>3
    <3>2. /\ Len(c2s') = 1 + Len(t)
          /\ \A i \in 1 .. 1 + Len(t) : c2s'[i] = IF i <= 1 THEN <<Head(c2s)>>[i] ELSE t[i - 1]
      BY <2>6, <2>9, <3>1, ConcatProperties
    <3>3. Len(c2s') <= Len(c2s) /\ Len(t) \in Nat
      BY <1>0, <2>1, <2>3, <2>6, <3>2
    <3>4. ASSUME NEW i \in 1 .. Len(c2s')
          PROVE  \E j \in 1 .. Len(c2s) : c2s'[i] = c2s[j]
      <4>1. CASE i = 1
        BY <1>0, <2>1, <3>1, <3>2, <4>1
      <4>2. CASE i # 1
        <5>1. i \in 1 .. 1 + Len(t) /\ ~(i <= 1) /\ i - 1 \in 1 .. Len(t)
          BY <3>2, <3>3, <4>2
        <5> QED
          BY <2>7, <3>2, <5>1
      <4> QED
        BY <4>1, <4>2
    <3> QED
      BY <2>1, <3>3, <3>4
  <2> QED
    BY <2>1, <2>8, <2>9 DEF t, rest
<1>11. CASE LoseConnection
  <2>1. PICK n \in 0 .. Len(c2s) : c2s' = SubSeq(c2s, 1, n)
    BY <1>11 DEF LoseConnection
  <2>2. n \in Nat /\ n <= Len(c2s)
    BY <1>0, <2>1
  <2>3. Len(c2s') = n /\ \A i \in 1 .. n : c2s'[i] = c2s[i]
    BY <1>0, <2>1, <2>2, SubSeqProperties
  <2>4. Shrinks
    BY <1>0, <2>2, <2>3
  <2> QED
    BY <1>11, <2>4 DEF LoseConnection, server
<1> QED
  BY <1>4, <1>5, <1>6, <1>7, <1>8, <1>9, <1>10, <1>11 DEF ServerStep, NetworkStep

\* While `send` waits, what a live server answers is the next step of its script.
LEMMA LiveMove ==
    ASSUME TypeOK, SyncInv, Live, pc = "send", ServerStep
    PROVE  /\ c2s # <<>> /\ c2s' = Tail(c2s) /\ UNCHANGED link
           /\ smode \in {"command", "data"}
           /\ email \in Emails /\ Answered + 1 \in 1 .. ScriptLength(email)
           /\ Head(c2s) = Step(email, Answered + 1)
           /\ \/ SMail \/ SRcpt \/ SData
              \/ SBody \/ (SRefuse /\ Head(c2s).verb # "BODY")
<1>1. smode # "greet" /\ smode # "closed" /\ link = "up"
  BY DEF Live, SyncInv, InvInFlight
<1>2. c2s # <<>>
  BY <1>1 DEF ServerStep, SGreet, SEhlo, SAuth, SSasl, SMail, SRcpt, SData, SRefuse, SBody,
     SAbsorb, SQuit, SStarttls, SDiscard, SHangup, Take, SGlue, EmptySeq
<1>3. /\ email \in Emails
      /\ acked + Len(s2c) + 1 \in 1 .. ScriptLength(email)
      /\ Head(c2s) = Step(email, acked + Len(s2c) + 1)
  BY <1>1, <1>2, HeadAwaited
<1>4. Head(c2s).verb \in ScriptVerbs
  BY <1>3, ScriptFacts
<1>5. ~SAbsorb
  <2>1. SUFFICES ASSUME smode = "data" PROVE Head(c2s).verb = "BODY"
    BY DEF SAbsorb, Take
  <2>2. acked + Len(s2c) = DataStep(email)
    BY <2>1 DEF SyncInv, InvData
  <2>3. Head(c2s) = Content(email)
    BY <1>3, <2>2, ScriptFacts DEF Content
  <2> QED
    BY <1>3, <2>3, ContentFacts
<1>6. /\ ~SGreet /\ ~SEhlo /\ ~SGlue /\ ~SQuit /\ ~SStarttls /\ ~SDiscard /\ ~SHangup
      /\ ~SAuth /\ ~SSasl
  BY <1>1, <1>4 DEF SGreet, SEhlo, SGlue, SQuit, SStarttls, SDiscard, SHangup, SAuth, SSasl,
     Take, ScriptVerbs, Fragments, SyncInv, InvLogin
<1>7. SRefuse => Head(c2s).verb # "BODY"
  BY <1>1, <1>2, ContentInDataMode DEF SRefuse
<1>8. SMail \/ SRcpt \/ SData \/ SBody \/ (SRefuse /\ Head(c2s).verb # "BODY")
  BY <1>5, <1>6, <1>7 DEF ServerStep
<1>9. c2s' = Tail(c2s) /\ UNCHANGED link /\ smode \in {"command", "data"}
  BY <1>8 DEF SMail, SRcpt, SData, SBody, SRefuse, Take
<1> QED
  BY <1>2, <1>3, <1>8, <1>9 DEF Answered

\* The one reply to that step.
LEMMA LiveReply ==
    ASSUME TypeOK, SyncInv, TidyStep, Live, pc = "send", ServerStep
    PROVE  \E r \in Replies :
               /\ r.to = Head(c2s)
               /\ Say(r)
               /\ \/ is_positive(r) /\ (SMail \/ SRcpt \/ SData)
                  \/ ~is_positive(r) /\ UNCHANGED delivered
                  \/ is_positive(r) /\ SBody /\ delivered' = Append(delivered,
                                  [from |-> txn.from, to |-> txn.to, intact |-> txn.intact,
                                   body |-> Head(c2s).email])
<1>1. /\ c2s # <<>> /\ email \in Emails /\ Head(c2s) = Step(email, Answered + 1)
      /\ SMail \/ SRcpt \/ SData \/ SBody \/ (SRefuse /\ Head(c2s).verb # "BODY")
  BY LiveMove
<1>2. Head(c2s) \in Commands /\ s2c \in Seq(Replies)
  BY <1>1, HeadTailProperties DEF TypeOK, ServerTypeOK
<1>3. ASSUME NEW sev \in Severities
      PROVE  /\ Reply(sev, Head(c2s)) \in Replies /\ Reply(sev, Head(c2s)).to = Head(c2s)
             /\ is_positive(Reply(sev, Head(c2s))) <=> sev \in Positive
  BY <1>2, ReplyType DEF Reply, is_positive
<1>4. CASE SMail \/ SRcpt \/ SData
  <2>1. \E sev \in Positive : Say(Reply(sev, Head(c2s)))
    BY <1>4 DEF SMail, SRcpt, SData, Answer, Positive
  <2> QED
    BY <1>3, <1>4, <2>1 DEF Severities
<1>5. CASE SRefuse /\ Head(c2s).verb # "BODY"
  <2>1. PICK sev \in Negative : AnswerMore(Reply(sev, Head(c2s)), 0)
    BY <1>5 DEF SRefuse
  <2>2. sev \in Severities /\ sev \notin Positive
    BY DEF Severities, Negative, Positive
  <2>3. Say(Reply(sev, Head(c2s)))
    BY <1>2, <1>3, <2>1, <2>2, NoStrays
  <2> QED
    BY <1>3, <1>5, <2>2, <2>3 DEF SRefuse
<1>6. CASE SBody
  <2>1. Head(c2s).email \notin EmptyMessages
    BY <1>6 DEF TidyStep
  <2>2. \/ /\ AnswerMore(Reply("PositiveCompletion", Head(c2s)), 0)
           /\ delivered' = Append(delivered,
                  [from |-> txn.from, to |-> txn.to, intact |-> txn.intact,
                   body |-> Head(c2s).email])
        \/ /\ \E sev \in Negative : AnswerMore(Reply(sev, Head(c2s)), 0)
           /\ UNCHANGED delivered
    BY <1>6, <2>1 DEF SBody
  <2>3. \A sev \in Negative : sev \in Severities /\ sev \notin Positive
    BY DEF Severities, Negative, Positive
  <2>4. "PositiveCompletion" \in Severities /\ "PositiveCompletion" \in Positive
    BY DEF Severities, Positive
  <2>5. \A sev \in Severities :
            AnswerMore(Reply(sev, Head(c2s)), 0) => Say(Reply(sev, Head(c2s)))
    BY <1>2, <1>3, NoStrays
  <2> QED
    BY <1>3, <1>6, <2>2, <2>3, <2>4, <2>5
<1> QED
  BY <1>1, <1>4, <1>5, <1>6

-----------------------------------------------------------------------------
(* The server keeps DeliveryInv *)

\* What a server takes for content is the one content on its way, as addressed.
LEMMA BodyTaken ==
    ASSUME TypeOK, ContentInv, SBody
    PROVE  LET e == Head(c2s).email
           IN  /\ e \in Emails /\ smode = "data" /\ Len(c2s) = 1 /\ c2s[1] = Content(e)
               /\ txn = [from |-> e, to |-> Envelope(e), intact |-> TRUE]
               /\ Len(c2s') = 0
               /\ \/ UNCHANGED delivered
                  \/ delivered' = Append(delivered, Genuine(e))
<1>1. /\ c2s \in Seq(Commands) /\ c2s # <<>> /\ Head(c2s).verb = "BODY" /\ smode = "data"
      /\ c2s' = Tail(c2s)
      /\ \/ UNCHANGED delivered
         \/ delivered' = Append(delivered,
                [from |-> txn.from, to |-> txn.to, intact |-> txn.intact,
                 body |-> Head(c2s).email])
  BY DEF SBody, Take, TypeOK, ServerTypeOK
<1>2. /\ Len(c2s) \in Nat \ {0} /\ Head(c2s) = c2s[1] /\ Head(c2s) \in Commands
      /\ Len(c2s') = Len(c2s) - 1
  BY <1>1, TakeShifts
<1>3. Head(c2s).email \in Emails
  BY <1>1, <1>2 DEF Commands, PlainVerbs, Fragments
<1>4. /\ Len(c2s) = 1 /\ c2s[1] = Content(Head(c2s).email)
      /\ txn = [from |-> Head(c2s).email, to |-> Envelope(Head(c2s).email), intact |-> TRUE]
  BY <1>1, <1>2 DEF ContentInv
<1> QED
  BY <1>1, <1>2, <1>3, <1>4 DEF Genuine

\* A message more.
LEMMA DeliveredGrows ==
    ASSUME TypeOK, NEW e \in Emails, delivered' = Append(delivered, Genuine(e))
    PROVE  /\ DeliveredIntact => DeliveredIntact'
           /\ Accepted(e)' = Accepted(e) \cup {Len(delivered) + 1}
           /\ \A f \in Emails \ {e} : Accepted(f)' = Accepted(f)
<1>1. delivered \in Seq(Messages) /\ Len(delivered) \in Nat
  BY LenProperties DEF TypeOK, ServerTypeOK
<1>2. Genuine(e) \in Messages /\ Genuine(e).body = e
  BY ContentFacts DEF Genuine, Messages, Envelope
<1>3. /\ Len(delivered') = Len(delivered) + 1
      /\ \A m \in 1 .. Len(delivered) : delivered'[m] = delivered[m]
      /\ delivered'[Len(delivered) + 1] = Genuine(e)
  BY <1>1, <1>2, AppendProperties
<1>4. \A m \in 1 .. Len(delivered') :
          m \in 1 .. Len(delivered) \/ m = Len(delivered) + 1
  BY <1>1, <1>3
<1>5. DeliveredIntact => DeliveredIntact'
  <2> SUFFICES ASSUME DeliveredIntact, NEW m \in 1 .. Len(delivered')
               PROVE  delivered'[m] = Genuine(delivered'[m].body)
    BY DEF DeliveredIntact, Genuine, Envelope
  <2> QED
    BY <1>2, <1>3, <1>4 DEF DeliveredIntact
<1>6. ASSUME NEW f \in Emails
      PROVE  Accepted(f)' = Accepted(f) \cup {m \in {Len(delivered) + 1} : e = f}
  <2>1. 1 .. Len(delivered') = 1 .. Len(delivered) \cup {Len(delivered) + 1}
    BY <1>1, <1>3
  <2> QED
    BY <1>2, <1>3, <2>1 DEF Accepted
<1> QED
  BY <1>5, <1>6

\* The server and the network leave content on its way to a server that waits for it.
LEMMA ServerKeepsContent ==
    ASSUME TypeOK, ContentInv, ServerStep \/ NetworkStep
    PROVE  ContentInv'
<1> SUFFICES ASSUME smode' # "closed", NEW i \in 1 .. Len(c2s'), c2s'[i].verb = "BODY"
             PROVE  /\ Len(c2s') = 1
                    /\ smode' = "data"
                    /\ c2s'[i] = Content(c2s'[i].email)
                    /\ txn' = [from |-> c2s'[i].email, to |-> Envelope(c2s'[i].email),
                               intact |-> TRUE]
  BY DEF ContentInv, Content, Envelope, Step, ScriptLength, DataStep
<1>1. PICK j \in 1 .. Len(c2s) : c2s'[i] = c2s[j]
  BY ServerTakes
<1>2. /\ Len(c2s) = 1 /\ smode = "data" /\ c2s[j] = Content(c2s[j].email)
      /\ txn = [from |-> c2s[j].email, to |-> Envelope(c2s[j].email), intact |-> TRUE]
  BY <1>1, ServerTakes DEF ContentInv
<1>3. c2s \in Seq(Commands) /\ c2s' \in Seq(Commands)
  BY ServerType DEF TypeOK, ServerTypeOK
<1>4. Len(c2s') = 1
  BY <1>2, <1>3, LenProperties, ServerTakes
<1>5. ~SBody
  BY <1>4, BodyTaken
<1>6. c2s # <<>> /\ Head(c2s) = c2s[1] /\ j = 1
  <2>1. Len(c2s) # 0
    BY <1>2
  <2>2. c2s # <<>>
    BY <2>1, EmptySeq
  <2> QED
    BY <1>2, <1>3, <2>2, HeadTailProperties
<1>7. UNCHANGED <<smode, txn>>
  BY <1>1, <1>2, <1>5, <1>6, ServerTakes
<1> QED
  BY <1>1, <1>2, <1>4, <1>7

\* What the server takes has the sender and the recipients of its email.
LEMMA ServerKeepsIntact ==
    ASSUME TypeOK, ContentInv, DeliveredIntact, ServerStep \/ NetworkStep
    PROVE  DeliveredIntact'
<1>1. ASSUME UNCHANGED delivered
      PROVE  DeliveredIntact'
  BY <1>1 DEF DeliveredIntact, Genuine, Envelope
<1>2. CASE SBody
  BY <1>1, <1>2, BodyTaken, DeliveredGrows
<1>3. CASE ~SBody
  BY <1>1, <1>3, ServerTakes
<1> QED
  BY <1>2, <1>3

\* Nobody delivers, and what is known of the result was known before.
LEMMA OnceKept ==
    ASSUME NEW e \in Emails, Once(e), UNCHANGED delivered,
           smode' # "closed" /\ InWire(e)' => smode # "closed" /\ InWire(e),
           Unwritten(e)' \/ result'[e] \in Rejections =>
               Unwritten(e) \/ result[e] \in Rejections \/ NotTaken(e),
           result'[e] = "ok" => result[e] = "ok" \/ Accepted(e) # {}
    PROVE  Once(e)'
<1>1. Accepted(e)' = Accepted(e)
  BY DEF Accepted
<1>2. NotTaken(e) => NotTaken(e)'
  BY <1>1 DEF NotTaken
<1> QED
  BY <1>1, <1>2 DEF Once

\* What was not taken, and is not on its way, is not taken later.
LEMMA NotTakenKept ==
    ASSUME TypeOK, ContentInv, ServerStep \/ NetworkStep, NEW e \in Emails, NotTaken(e)
    PROVE  NotTaken(e)'
<1>1. smode' # "closed" => smode # "closed"
  BY ServerTakes
<1>2. InWire(e)' => InWire(e)
  BY ServerTakes DEF InWire
<1>3. CASE UNCHANGED delivered
  BY <1>1, <1>2, <1>3 DEF NotTaken, Accepted
<1>4. CASE SBody
  <2>0. /\ Head(c2s).email \in Emails /\ smode = "data"
        /\ Len(c2s) = 1 /\ c2s[1] = Content(Head(c2s).email)
        /\ UNCHANGED delivered \/ delivered' = Append(delivered, Genuine(Head(c2s).email))
    BY <1>4, BodyTaken
  <2>1. InWire(Head(c2s).email)
    BY <2>0, ContentFacts DEF InWire
  <2>2. Head(c2s).email # e
    BY <2>0, <2>1 DEF NotTaken
  <2>3. Accepted(e)' = Accepted(e)
    BY <1>3, <2>0, <2>2, DeliveredGrows DEF Accepted
  <2> QED
    BY <1>1, <1>2, <2>3 DEF NotTaken
<1> QED
  BY <1>3, <1>4, ServerTakes

\* The server takes content that it did not take before.
LEMMA ServerKeepsOnce ==
    ASSUME TypeOK, ContentInv, NEW e \in Emails, Once(e), ServerStep \/ NetworkStep,
           UNCHANGED <<pc, email, sent, result>>
    PROVE  Once(e)'
<1>1. smode' # "closed" /\ InWire(e)' => smode # "closed" /\ InWire(e)
  BY ServerTakes DEF InWire
<1>2. Unwritten(e)' = Unwritten(e) /\ result'[e] = result[e]
  BY DEF Unwritten, DataStep
<1>3. CASE UNCHANGED delivered
  BY <1>1, <1>2, <1>3, OnceKept
<1>4. CASE SBody /\ delivered' # delivered
  <2>1. PICK f \in Emails :
            /\ smode = "data" /\ c2s[1] = Content(f) /\ Len(c2s) = 1
            /\ Len(c2s') = 0 /\ delivered' = Append(delivered, Genuine(f))
    BY <1>4, BodyTaken
  <2>2. InWire(f) /\ ~InWire(e)'
    BY <2>1, ContentFacts DEF InWire
  <2>3. /\ Accepted(f)' = Accepted(f) \cup {Len(delivered) + 1}
        /\ e # f => Accepted(e)' = Accepted(e)
    BY <2>1, DeliveredGrows
  <2>4. CASE e = f
    <3>1. Accepted(f) = {} /\ ~(Unwritten(f) \/ result[f] \in Rejections)
      BY <2>1, <2>2, <2>4 DEF Once, NotTaken
    <3> QED
      BY <1>2, <2>1, <2>2, <2>3, <2>4, <3>1 DEF Once, NotTaken
  <2>5. CASE e # f
    <3>1. Accepted(e)' = Accepted(e)
      BY <2>3, <2>5
    <3> QED
      BY <1>2, <2>1, <2>2, <3>1 DEF Once, NotTaken
  <2> QED
    BY <2>4, <2>5
<1> QED
  BY <1>3, <1>4, ServerTakes

\* Nobody is told anything once the connection or the session is over.
LEMMA NoReplyUnlessLive ==
    ASSUME ServerStep, ~Live
    PROVE  UNCHANGED s2c
<1>1. CASE link # "up"
  BY <1>1 DEF ServerStep, SGreet, SEhlo, SAuth, SSasl, SMail, SRcpt, SData, SRefuse, SBody,
     SAbsorb, SQuit, SStarttls, SDiscard, SHangup, SGlue, Answer, AnswerMore, Say
<1>2. CASE smode = "closed"
  BY <1>2 DEF ServerStep, SGreet, SEhlo, SAuth, SSasl, SMail, SRcpt, SData, SRefuse, SBody,
     SAbsorb, SQuit, SStarttls, SDiscard, SHangup, SGlue
<1> QED
  BY <1>1, <1>2 DEF Live

\* As long as a live server has said nothing, the content is not taken.
LEMMA SilentNotTaken ==
    ASSUME TypeOK, SyncInv, CurrentInv, Live, pc = "send", s2c = <<>>
    PROVE  Accepted(email) = {}
<1>1. /\ email \in Emails /\ sent \in Nat /\ acked \in Nat
      /\ ScriptLength(email) = DataStep(email) + 1 /\ DataStep(email) \in Nat
      /\ c2s \in Seq(Commands) /\ Len(c2s) \in Nat /\ Len(s2c) = 0
  BY ContentFacts, LenProperties, EmptySeq DEF TypeOK, ServerTypeOK, ClientTypeOK
<1>2. CASE sent <= DataStep(email)
  BY <1>1, <1>2 DEF CurrentInv, Once, Unwritten, NotTaken
<1>3. CASE sent = ScriptLength(email)
  <2>1. acked = DataStep(email)
    BY <1>3 DEF SyncInv, InvCall
  <2>2. Outstanding = 1
    BY <1>1, <1>3, <2>1 DEF Outstanding
  <2>3. Len(c2s) = 1 /\ smode # "closed"
    BY <1>1, <2>2 DEF SyncInv, InvInFlight, Live
  <2>4. c2s[1] = Awaited(Len(s2c) + 1)
    BY <2>3 DEF SyncInv, InvInFlight
  <2>5. Awaited(1) = Content(email)
    BY <1>1, <2>1 DEF Awaited, Content
  <2>6. InWire(email)
    BY <1>1, <2>3, <2>4, <2>5, ContentFacts DEF InWire
  <2> QED
    BY <1>1, <2>3, <2>6 DEF CurrentInv, Once
<1>4. sent <= ScriptLength(email)
  BY DEF SyncInv, InvCall
<1> QED
  BY <1>1, <1>2, <1>3, <1>4

\* The reply to the content says what the server did with it.
LEMMA ServerKeepsVerdict ==
    ASSUME TypeOK, SyncInv, TidyStep, ContentInv, CurrentInv, VerdictInv,
           ServerStep \/ NetworkStep, UNCHANGED clientVars
    PROVE  VerdictInv'
<1>0. UNCHANGED <<pc, email, sent, acked, result>>
  BY DEF clientVars, call
<1> SUFFICES ASSUME pc = "send"
             PROVE  VerdictInv'
  BY <1>0 DEF VerdictInv
<1>e. PICK e \in Emails : email = e /\ email' = e
  BY <1>0 DEF TypeOK, ClientTypeOK
<1>1. /\ ClientTypeOK /\ s2c \in Seq(Replies) /\ s2c' \in Seq(Replies)
      /\ Content(e).verb = "BODY" /\ Content(e).email = e
  BY ServerType, ContentFacts DEF TypeOK, ServerTypeOK, ClientTypeOK
<1>2. Accepted(e) # {} => Accepted(e)' # {}
  <2>1. CASE UNCHANGED delivered
    BY <2>1 DEF Accepted
  <2>2. CASE SBody
    BY <1>1, <2>1, <2>2, BodyTaken, DeliveredGrows
  <2> QED
    BY <2>1, <2>2, ServerTakes
<1>3. Accepted(e)' # {} /\ s2c # <<>> => s2c[1].to # Unsolicited
  <2>1. SUFFICES ASSUME s2c # <<>>, s2c[1].to = Unsolicited, Accepted(e)' # {}
                 PROVE  FALSE
    OBVIOUS
  <2>2. 1 \in 1 .. Len(s2c)
    BY <1>1, <2>1, EmptySeq
  <2>3. smode = "closed"
    BY <1>1, <2>1, <2>2, UnsolicitedUnawaited DEF SyncInv, InvReplies
  <2>4. ~SBody
    BY <2>3 DEF SBody
  <2>5. UNCHANGED delivered
    BY <2>4, ServerTakes
  <2> QED
    BY <1>e, <2>1, <2>5 DEF VerdictInv, Accepted
<1>4. NotTaken(e) => NotTaken(e)'
  BY <1>1, NotTakenKept
<1> DEFINE Told(i) ==
        s2c'[i].to = Content(e) =>
            /\ is_positive(s2c'[i]) => Accepted(e)' # {}
            /\ s2c'[i].severity \in Negative => NotTaken(e)'
<1>5. SUFFICES /\ \A i \in 1 .. Len(s2c') : Told(i)
               /\ Accepted(e)' # {} /\ s2c' # <<>> => s2c'[1].to # Unsolicited
  BY <1>0, <1>e DEF VerdictInv
<1>6. ASSUME NEW i \in 1 .. Len(s2c'), i \in 1 .. Len(s2c), s2c'[i].to = s2c[i].to,
             s2c'[i].severity \in {s2c[i].severity, "Malformed", "NotText"}
      PROVE  Told(i)
  BY <1>e, <1>2, <1>4, <1>6 DEF VerdictInv, is_positive, Negative, Positive
<1>7. CASE UNCHANGED s2c
  BY <1>3, <1>6, <1>7
<1>8. CASE GarbleReply
  <2>1. PICK sev \in {"Malformed", "NotText"} :
            /\ s2c' = [s2c EXCEPT ![Len(s2c)] = Reply(sev, @.to)]
            /\ Len(s2c) \in Nat \ {0} /\ s2c # <<>>
    BY <1>1, <1>8, EmptySeq, LenProperties DEF GarbleReply
  <2>2. Len(s2c') = Len(s2c)
    BY <1>1, <2>1
  <2>3. \A i \in 1 .. Len(s2c) :
            /\ s2c'[i].to = s2c[i].to
            /\ s2c'[i].severity \in {s2c[i].severity, "Malformed", "NotText"}
    BY <1>1, <2>1 DEF Reply
  <2>4. \A i \in 1 .. Len(s2c') : Told(i)
    BY <1>6, <2>2, <2>3
  <2> QED
    BY <1>3, <2>1, <2>3, <2>4
<1>9. CASE LoseConnection
  <2>1. PICK n \in 0 .. Len(s2c) : s2c' = SubSeq(s2c, 1, n)
    BY <1>9 DEF LoseConnection
  <2>2. Len(s2c') = n /\ n <= Len(s2c) /\ \A i \in 1 .. n : s2c'[i] = s2c[i]
    BY <1>1, <2>1
  <2>3. \A i \in 1 .. Len(s2c') : i \in 1 .. Len(s2c) /\ s2c'[i] = s2c[i]
    BY <2>1, <2>2
  <2>4. \A i \in 1 .. Len(s2c') : Told(i)
    BY <1>6, <2>3
  <2>5. s2c' # <<>> => s2c # <<>> /\ s2c'[1] = s2c[1]
    <3>1. SUFFICES ASSUME s2c' # <<>> PROVE s2c # <<>> /\ s2c'[1] = s2c[1]
      OBVIOUS
    <3>2. 1 \in 1 .. Len(s2c')
      BY <1>1, <3>1, EmptySeq
    <3>3. 1 \in 1 .. Len(s2c) /\ s2c'[1] = s2c[1]
      BY <2>3, <3>2
    <3> QED
      BY <3>3, EmptySeq
  <2> QED
    BY <1>3, <2>4, <2>5
<1>10. ASSUME NEW r \in Replies, Say(r), Live, Told(Len(s2c) + 1), r.to # Unsolicited \/ ~SBody
       PROVE  /\ \A i \in 1 .. Len(s2c') : Told(i)
              /\ Accepted(e)' # {} /\ s2c' # <<>> => s2c'[1].to # Unsolicited
  <2>1. /\ s2c' # <<>> /\ Len(s2c') = Len(s2c) + 1 /\ Len(s2c) \in Nat
        /\ \A i \in 1 .. Len(s2c) : s2c'[i] = s2c[i]
        /\ s2c'[Len(s2c) + 1] = r
    BY <1>1, <1>10, SayAdds, LenProperties DEF Live
  <2>2. \A i \in 1 .. Len(s2c') : Told(i)
    <3> SUFFICES ASSUME NEW i \in 1 .. Len(s2c') PROVE Told(i)
      OBVIOUS
    <3>1. CASE i = Len(s2c) + 1
      BY <1>10, <3>1
    <3>2. CASE i # Len(s2c) + 1
      <4>1. i \in 1 .. Len(s2c)
        BY <2>1, <3>2
      <4> QED
        BY <1>6, <2>1, <4>1
    <3> QED
      BY <3>1, <3>2
  <2>3. Accepted(e)' # {} => s2c'[1].to # Unsolicited
    <3>1. CASE s2c # <<>>
      <4>1. 1 \in 1 .. Len(s2c)
        BY <1>1, <3>1, EmptySeq
      <4> QED
        BY <1>3, <2>1, <3>1, <4>1
    <3>2. CASE s2c = <<>>
      <4>1. s2c'[1] = r
        BY <2>1, <3>2, EmptySeq
      <4>2. ~SBody => UNCHANGED delivered
        BY ServerTakes
      <4>3. Accepted(e) = {}
        BY <1>e, <1>10, <3>2, SilentNotTaken
      <4>4. ~SBody => Accepted(e)' = {}
        BY <4>2, <4>3 DEF Accepted
      <4> QED
        BY <1>10, <4>1, <4>4
    <3> QED
      BY <3>1, <3>2
  <2> QED
    BY <2>2, <2>3
<1>11. CASE SShutdown
  <2> DEFINE r == Reply("TransientNegative", Unsolicited)
  <2>1. r \in Replies /\ r.to = Unsolicited
    BY PlainType, ReplyType DEF Unsolicited, PlainVerbs, Severities, Negative, Reply
  <2>2. Say(r) /\ ~SBody /\ smode # "closed"
    BY <1>11 DEF SShutdown, SBody
  <2> HIDE DEF r
  <2>3. CASE link # "up"
    BY <1>1, <1>7, <2>1, <2>2, <2>3, SayAdds
  <2>4. CASE link = "up"
    <3>1. s2c'[Len(s2c) + 1] = r
      BY <1>1, <2>1, <2>2, <2>4, SayAdds
    <3>2. Content(e) # Unsolicited
      BY <1>1 DEF Unsolicited, Plain
    <3> QED
      BY <1>10, <2>1, <2>2, <2>4, <3>1, <3>2 DEF Live
  <2> QED
    BY <2>3, <2>4
<1>12. CASE ServerStep /\ Live
  <2>1. PICK r \in Replies :
            /\ r.to = Head(c2s)
            /\ Say(r)
            /\ \/ is_positive(r) /\ (SMail \/ SRcpt \/ SData)
               \/ ~is_positive(r) /\ UNCHANGED delivered
               \/ is_positive(r) /\ SBody /\ delivered' = Append(delivered,
                               [from |-> txn.from, to |-> txn.to, intact |-> txn.intact,
                                body |-> Head(c2s).email])
    BY <1>12, LiveReply
  <2>2. /\ c2s # <<>> /\ c2s' = Tail(c2s) /\ c2s \in Seq(Commands)
        /\ Answered + 1 \in 1 .. ScriptLength(e) /\ Head(c2s) = Step(e, Answered + 1)
        /\ SMail \/ SRcpt \/ SData \/ SBody \/ (SRefuse /\ Head(c2s).verb # "BODY")
    BY <1>e, <1>12, LiveMove DEF TypeOK, ServerTypeOK
  <2>3. s2c'[Len(s2c) + 1] = r
    BY <1>1, <1>12, <2>1, SayAdds DEF Live
  <2>4. Head(c2s) # Unsolicited
    <3>1. Head(c2s).verb \in ScriptVerbs
      BY <1>1, <2>2, ScriptFacts
    <3> QED
      BY <3>1 DEF Unsolicited, Plain, ScriptVerbs
  <2>5. ASSUME Head(c2s) = Content(e)
        PROVE  /\ is_positive(r) => Accepted(e)' # {}
               /\ r.severity \in Negative => NotTaken(e)'
    <3>1. SBody
      BY <1>1, <2>2, <2>5 DEF SMail, SRcpt, SData, Take
    <3>2. /\ smode = "data" /\ Len(c2s) = 1 /\ c2s[1] = Content(e) /\ Len(c2s') = 0
          /\ UNCHANGED delivered \/ delivered' = Append(delivered, Genuine(e))
      BY <1>1, <2>5, <3>1, BodyTaken
    <3>3. InWire(e) /\ Accepted(e) = {}
      BY <1>e, <1>1, <3>2 DEF InWire, CurrentInv, Once
    <3>4. ASSUME is_positive(r)
          PROVE  Accepted(e)' # {}
      <4>1. delivered' # delivered
        <5>1. delivered \in Seq(Messages)
          BY DEF TypeOK, ServerTypeOK
        <5>2. ~(SMail \/ SRcpt \/ SData)
          BY <1>1, <2>5 DEF SMail, SRcpt, SData, Take
        <5>3. delivered' = Append(delivered,
                               [from |-> txn.from, to |-> txn.to, intact |-> txn.intact,
                                body |-> Head(c2s).email])
          BY <2>1, <3>4, <5>2
        <5> QED
          BY <5>1, <5>3
      <4>2. Accepted(e)' = Accepted(e) \cup {Len(delivered) + 1}
        BY <1>1, <3>2, <4>1, DeliveredGrows
      <4> QED
        BY <4>2
    <3>5. ASSUME r.severity \in Negative
          PROVE  NotTaken(e)'
      <4>1. ~is_positive(r)
        BY <3>5 DEF is_positive, Negative, Positive
      <4>2. UNCHANGED delivered
        BY <2>1, <4>1
      <4> QED
        BY <3>2, <3>3, <4>2 DEF NotTaken, Accepted, InWire
    <3> QED
      BY <3>4, <3>5
  <2>6. Told(Len(s2c) + 1)
    BY <2>1, <2>3, <2>5
  <2> QED
    BY <1>10, <1>12, <2>1, <2>4, <2>6
<1>13. CASE ServerStep /\ ~Live
  BY <1>7, <1>13, NoReplyUnlessLive
<1> QED
  BY <1>8, <1>9, <1>11, <1>12, <1>13 DEF NetworkStep

\* The server's transaction follows its replies.
LEMMA ServerKeepsTxn ==
    ASSUME TypeOK, SyncInv, TidyStep, TxnInv, ServerStep \/ NetworkStep, UNCHANGED clientVars
    PROVE  TxnInv'
<1>0. UNCHANGED <<pc, email, sent, acked, result>>
  BY DEF clientVars, call
<1>1. SUFFICES ASSUME Live', pc = "send", Answered' \in 1 .. DataStep(email),
                      \A i \in 1 .. Len(s2c') : is_positive(s2c'[i])
               PROVE  txn' = [from |-> email,
                              to |-> {email} \X {n \in 2 .. RcptCount[email] + 1 : n <= Answered'},
                              intact |-> TRUE]
  BY <1>0 DEF TxnInv, DataStep, is_positive
<1>2. /\ email \in Emails /\ s2c \in Seq(Replies) /\ s2c' \in Seq(Replies) /\ acked \in Nat
      /\ Len(s2c) \in Nat /\ Answered \in Nat /\ txn \in Transactions
      /\ DataStep(email) = RcptCount[email] + 2 /\ RcptCount[email] \in Nat
      /\ ScriptLength(email) = DataStep(email) + 1
  BY <1>1, ServerType, ContentFacts, LenProperties DEF TypeOK, ServerTypeOK, ClientTypeOK, Answered
<1>3. Live
  <2>1. smode # "closed"
    BY <1>1, ServerTakes DEF Live
  <2>2. link = "up"
    BY <1>1 DEF Live, ServerStep, SGreet, SEhlo, SAuth, SSasl, SMail, SRcpt, SData, SRefuse,
       SBody, SAbsorb, SQuit, SStarttls, SDiscard, SHangup, SGlue, NetworkStep, SShutdown,
       LoseConnection, GarbleReply
  <2> QED
    BY <2>1, <2>2 DEF Live
<1>4. CASE NetworkStep
  <2>1. GarbleReply
    BY <1>1, <1>4 DEF NetworkStep, SShutdown, LoseConnection, Live
  <2>2. PICK sev \in {"Malformed", "NotText"} :
            Len(s2c) \in Nat \ {0} /\ s2c' = [s2c EXCEPT ![Len(s2c)] = Reply(sev, @.to)]
    BY <1>2, <2>1, EmptySeq DEF GarbleReply
  <2>3. Len(s2c') = Len(s2c) /\ s2c'[Len(s2c)] = Reply(sev, s2c[Len(s2c)].to)
    BY <1>2, <2>2
  <2>4. ~is_positive(s2c'[Len(s2c)]) /\ Len(s2c) \in 1 .. Len(s2c')
    BY <2>2, <2>3 DEF is_positive, Positive, Reply
  <2> QED
    BY <1>1, <2>4
<1>5. CASE ServerStep
  <2>1. PICK r \in Replies :
            /\ r.to = Head(c2s)
            /\ Say(r)
            /\ \/ is_positive(r) /\ (SMail \/ SRcpt \/ SData)
               \/ ~is_positive(r) /\ UNCHANGED delivered
               \/ is_positive(r) /\ SBody /\ delivered' = Append(delivered,
                               [from |-> txn.from, to |-> txn.to, intact |-> txn.intact,
                                body |-> Head(c2s).email])
    BY <1>1, <1>3, <1>5, LiveReply
  <2>2. /\ Answered + 1 \in 1 .. ScriptLength(email) /\ Head(c2s) = Step(email, Answered + 1)
    BY <1>1, <1>3, <1>5, LiveMove
  <2>3. /\ Len(s2c') = Len(s2c) + 1
        /\ \A i \in 1 .. Len(s2c) : s2c'[i] = s2c[i]
        /\ s2c'[Len(s2c) + 1] = r
    BY <1>2, <1>3, <2>1, SayAdds DEF Live
  <2>4. /\ is_positive(r) /\ \A i \in 1 .. Len(s2c) : is_positive(s2c[i])
        /\ Answered' = Answered + 1
    BY <1>0, <1>1, <1>2, <2>3 DEF Answered
  <2>5. ~SBody
    <3>1. Head(c2s).verb # "BODY"
      BY <1>1, <1>2, <2>2, <2>4, ContentFacts
    <3> QED
      BY <3>1 DEF SBody, Take
  <2>6. CASE SMail
    <3>1. Answered + 1 = 1 /\ Head(c2s).email = email
      BY <1>2, <2>2, <2>6, ContentFacts, ScriptFacts DEF SMail, Take
    <3>2. {n \in 2 .. RcptCount[email] + 1 : n <= Answered'} = {}
      BY <1>2, <2>4, <3>1
    <3>3. txn' = [from |-> email, to |-> {}, intact |-> TRUE]
      BY <2>6, <3>1 DEF SMail
    <3> QED
      BY <3>2, <3>3
  <2>7. CASE SRcpt
    <3>1. /\ Answered + 1 \in 2 .. RcptCount[email] + 1
          /\ Head(c2s).email = email /\ Head(c2s).n = Answered + 1
      BY <1>2, <2>2, <2>7, ContentFacts, ScriptFacts DEF SRcpt, Take
    <3>2. Answered \in 1 .. DataStep(email)
      BY <1>2, <3>1
    <3>3. txn = [from |-> email,
                 to |-> {email} \X {n \in 2 .. RcptCount[email] + 1 : n <= Answered},
                 intact |-> TRUE]
      BY <1>1, <1>3, <2>4, <3>2 DEF TxnInv
    <3>4. {n \in 2 .. RcptCount[email] + 1 : n <= Answered'} =
              {n \in 2 .. RcptCount[email] + 1 : n <= Answered} \cup {Answered + 1}
      BY <1>2, <2>4, <3>1
    <3>5. txn' = [txn EXCEPT !.to = @ \cup {<<email, Answered + 1>>}]
      BY <2>7, <3>1 DEF SRcpt
    <3>6. txn' = [from |-> email, to |-> txn.to \cup {<<email, Answered + 1>>}, intact |-> TRUE]
      BY <3>3, <3>5
    <3>7. txn.to \cup {<<email, Answered + 1>>} =
              {email} \X {n \in 2 .. RcptCount[email] + 1 : n <= Answered'}
      BY <3>3, <3>4
    <3> QED
      BY <3>6, <3>7
  <2>8. CASE SData
    <3>1. Answered + 1 = DataStep(email)
      BY <1>2, <2>2, <2>8, ContentFacts DEF SData, Take
    <3>2. Answered \in 1 .. DataStep(email)
      BY <1>2, <3>1, RcptAssumption
    <3>3. txn = [from |-> email,
                 to |-> {email} \X {n \in 2 .. RcptCount[email] + 1 : n <= Answered},
                 intact |-> TRUE]
      BY <1>1, <1>3, <2>4, <3>2 DEF TxnInv
    <3>4. {n \in 2 .. RcptCount[email] + 1 : n <= Answered'} =
              {n \in 2 .. RcptCount[email] + 1 : n <= Answered}
      BY <1>2, <2>4, <3>1
    <3>5. txn' = txn
      BY <2>8 DEF SData
    <3> QED
      BY <3>3, <3>4, <3>5
  <2> QED
    BY <2>1, <2>4, <2>5, <2>6, <2>7, <2>8
<1> QED
  BY <1>4, <1>5

-----------------------------------------------------------------------------
(* The client keeps DeliveryInv *)

\* Steps of the client that write nothing and leave the server where it is.
Listens ==
    \/ ReadGreeting \/ ReadEhlo \/ ReadStepReply \/ ReadFinalReply \/ ReadNegativeReply
    \/ ReaderFails \/ ReadQuit \/ ReadStarttls \/ ReadEof \/ WriteFails
    \/ ReadChallenge \/ RespondFails \/ ReadAuthReply \/ (Abandon /\ UNCHANGED c2s)
    \/ StarttlsUnsupported \/ Cancel \/ Drop \/ \E e \in Emails : Send(e)

\* Steps that write a line that belongs to no email.
Speaks == SendEhlo \/ Auth \/ Respond \/ Quit \/ Starttls

\* What the steps of the client change, of what the server and the wire know.
LEMMA ClientSteps ==
    ASSUME TypeOK, CallStep \/ CallerStep
    PROVE  /\ UNCHANGED delivered
           /\ Listens => UNCHANGED <<c2s, smode, txn>>
           /\ Listens \/ Speaks \/ Connect \/ UpgradeTls \/ WriteCommand \/ WriteMessage
              \/ (Abandon /\ c2s' # c2s)
           /\ TidyStep => ~(Abandon /\ c2s' # c2s)
<1>1. TidyStep => ~(Abandon /\ c2s' # c2s)
  BY DEF TidyStep
<1>2. Listens => UNCHANGED <<c2s, smode, txn, delivered>>
  BY DEF Listens, ReadGreeting, ReadEhlo, ReadStepReply, ReadFinalReply, ReadNegativeReply,
     ReaderFails, ReadQuit, ReadStarttls, ReadEof, WriteFails, StarttlsUnsupported, Cancel, Drop,
     Send, GiveUp, ReadChallenge, RespondFails, ReadAuthReply, Abandon, server, serverVars
<1>3. Listens \/ Speaks \/ Connect \/ UpgradeTls \/ WriteCommand \/ WriteMessage
      \/ (Abandon /\ c2s' # c2s)
  BY DEF Listens, Speaks, CallStep, CallerStep
<1>4. Speaks \/ Connect \/ UpgradeTls \/ WriteCommand \/ WriteMessage \/ Abandon
          => UNCHANGED delivered
  BY DEF Speaks, SendEhlo, Auth, Respond, Quit, Starttls, Connect, UpgradeTls, WriteCommand,
     WriteMessage, Abandon, server
<1> QED
  BY <1>1, <1>2, <1>3, <1>4

\* What such a line is.
LEMMA SpeaksLine ==
    ASSUME Speaks
    PROVE  /\ \E v \in {"EHLO", "AUTH", "SASL", "QUIT", "STARTTLS"} :
                 Write(Plain(v)) /\ Plain(v) \in Commands /\ Plain(v).verb # "BODY"
           /\ Outstanding = 0 /\ pc # "dropped" /\ pc' # "send"
           /\ UNCHANGED <<link, s2c, smode, txn, result>>
<1>1. \A v \in {"EHLO", "AUTH", "SASL", "QUIT", "STARTTLS"} :
          Plain(v) \in Commands /\ Plain(v).verb # "BODY"
  BY PlainType DEF Plain, PlainVerbs
<1>2. \E v \in {"EHLO", "AUTH", "SASL", "QUIT", "STARTTLS"} : Write(Plain(v))
  BY DEF Speaks, SendEhlo, Auth, Respond, Quit, Starttls
<1>3. /\ pc \in {"hello", "idle", "challenged"} /\ pc' # "send"
      /\ UNCHANGED <<link, s2c, smode, txn, result>>
  BY DEF Speaks, SendEhlo, Auth, Respond, Quit, Starttls, server
<1>4. Outstanding = 0
  BY <1>3 DEF Outstanding, AwaitsReply
<1> QED
  BY <1>1, <1>2, <1>3, <1>4

\* What a client in `send` has written is on its way in the order of the script.
LEMMA WireInOrder ==
    ASSUME TypeOK, SyncInv, Live, pc = "send", NEW i \in 1 .. Len(c2s)
    PROVE  /\ Answered + i \in 1 .. sent
           /\ c2s[i] = Step(email, Answered + i)
<1>1. /\ sent \in Nat /\ acked \in Nat /\ Len(s2c) \in Nat /\ Len(c2s) \in Nat /\ i \in Nat
  BY LenProperties DEF TypeOK, ServerTypeOK, ClientTypeOK
<1>2. smode # "greet" /\ Len(s2c) + Len(c2s) = sent - acked
  BY DEF SyncInv, InvInFlight, Outstanding
<1>3. c2s[i] = Step(email, acked + (Len(s2c) + i))
  BY DEF SyncInv, InvInFlight, Awaited
<1>4. acked + (Len(s2c) + i) = Answered + i /\ Answered + i \in 1 .. sent
  BY <1>1, <1>2 DEF Answered
<1> QED
  BY <1>3, <1>4

\* Content is written to a server that has taken its envelope, and to nothing else.
LEMMA ReadyForContent ==
    ASSUME TypeOK, SyncInv, TxnInv, Live, pc = "send", MayWriteMessage
    PROVE  /\ email \in Emails /\ c2s = <<>> /\ s2c = <<>> /\ smode = "data"
           /\ txn = [from |-> email, to |-> Envelope(email), intact |-> TRUE]
<1>1. /\ email \in Emails /\ acked \in Nat /\ sent = DataStep(email) /\ acked = sent
      /\ s2c \in Seq(Replies) /\ Len(s2c) \in Nat /\ c2s \in Seq(Commands) /\ Len(c2s) \in Nat
      /\ DataStep(email) = RcptCount[email] + 2 /\ RcptCount[email] \in Nat
  BY ContentFacts, LenProperties DEF TypeOK, ServerTypeOK, ClientTypeOK, MayWriteMessage
<1>2. Outstanding = 0
  BY <1>1 DEF Outstanding
<1>3. c2s = <<>> /\ s2c = <<>> /\ Len(s2c) = 0
  BY <1>2, QuietBetweenCalls, EmptySeq
<1>4. Answered = DataStep(email)
  BY <1>1, <1>3 DEF Answered
<1>5. smode = "data"
  BY <1>1, <1>3 DEF SyncInv, InvData
<1>6. {n \in 2 .. RcptCount[email] + 1 : n <= Answered} = 2 .. RcptCount[email] + 1
  BY <1>1, <1>4
<1>7. Answered \in 1 .. DataStep(email) /\ \A i \in 1 .. Len(s2c) : is_positive(s2c[i])
  BY <1>1, <1>3, <1>4
<1> QED
  BY <1>1, <1>3, <1>5, <1>6, <1>7 DEF TxnInv, Envelope

\* The client writes content when the server has the whole envelope and has asked for
\* it.
LEMMA ClientKeepsContent ==
    ASSUME TypeOK, SyncInv, TidyStep, TxnInv, ContentInv, CallStep \/ CallerStep
    PROVE  ContentInv'
<1>0. c2s \in Seq(Commands) /\ Len(c2s) \in Nat
  BY LenProperties DEF TypeOK, ServerTypeOK
<1>1. ASSUME UNCHANGED <<c2s, smode, txn>>
      PROVE  ContentInv'
  BY <1>1 DEF ContentInv, Content, Envelope, Step, ScriptLength, DataStep
<1>2. ASSUME \A i \in 1 .. Len(c2s') : c2s'[i].verb # "BODY"
      PROVE  ContentInv'
  BY <1>2 DEF ContentInv
<1>3. ASSUME NEW cmd \in Commands, cmd.verb # "BODY", Write(cmd), UNCHANGED <<smode, txn>>,
             Live => \A i \in 1 .. Len(c2s) : c2s[i].verb # "BODY"
      PROVE  ContentInv'
  <2>1. CASE smode = "closed"
    BY <1>3, <2>1 DEF ContentInv
  <2>2. CASE link # "up"
    BY <1>0, <1>1, <1>3, <2>2, WriteAdds
  <2>3. CASE Live
    <3>1. /\ Len(c2s') = Len(c2s) + 1
          /\ \A i \in 1 .. Len(c2s) : c2s'[i] = c2s[i]
          /\ c2s'[Len(c2s) + 1] = cmd
      BY <1>0, <1>3, <2>3, WriteAdds DEF Live
    <3>2. \A i \in 1 .. Len(c2s') : c2s'[i].verb # "BODY"
      BY <1>0, <1>3, <2>3, <3>1
    <3> QED
      BY <1>2, <3>2
  <2> QED
    BY <2>1, <2>2, <2>3 DEF Live
<1>4. ASSUME Outstanding = 0, pc # "dropped"
      PROVE  Live => \A i \in 1 .. Len(c2s) : c2s[i].verb # "BODY"
  BY <1>4, QuietBetweenCalls, EmptySeq
<1>5. CASE Listens
  BY <1>1, <1>5, ClientSteps
<1>6. CASE Speaks
  BY <1>3, <1>4, <1>6, SpeaksLine
<1>7. CASE Connect
  BY <1>2, <1>7, EmptySeq DEF Connect
<1>8. CASE UpgradeTls
  <2>1. Outstanding = 0 /\ pc # "dropped" /\ Live /\ UNCHANGED c2s
    BY <1>8 DEF UpgradeTls, Outstanding, AwaitsReply, Live
  <2> QED
    BY <1>2, <1>4, <2>1
<1>9. CASE WriteCommand
  <2>1. /\ pc = "send" /\ email \in Emails /\ sent \in Nat /\ sent < DataStep(email)
        /\ Write(Step(email, sent + 1)) /\ UNCHANGED <<smode, txn>>
    BY <1>9 DEF WriteCommand, MayWrite, TypeOK, ClientTypeOK, server
  <2>2. DataStep(email) \in Nat /\ \A k \in 1 .. DataStep(email) : Step(email, k).verb # "BODY"
    BY <2>1, ContentFacts
  <2>3. Live => \A i \in 1 .. Len(c2s) : c2s[i].verb # "BODY"
    <3>1. 1 .. sent \subseteq 1 .. DataStep(email)
      BY <2>1, <2>2
    <3> QED
      BY <2>1, <2>2, <3>1, WireInOrder
  <2>4. Step(email, sent + 1) \in Commands /\ sent + 1 \in 1 .. DataStep(email)
    BY <2>1, <2>2, StepType
  <2> QED
    BY <1>3, <2>1, <2>2, <2>3, <2>4
<1>10. CASE WriteMessage
  <2>1. /\ pc = "send" /\ email \in Emails /\ MayWriteMessage
        /\ Write(Step(email, sent + 1)) /\ UNCHANGED <<smode, txn>>
    BY <1>10 DEF WriteMessage, TypeOK, ClientTypeOK, server
  <2>2. Step(email, sent + 1) = Content(email) /\ Content(email) \in Commands
        /\ Content(email).email = email
    BY <2>1, ContentFacts DEF MayWriteMessage, Content
  <2>3. CASE smode = "closed"
    BY <2>1, <2>3 DEF ContentInv
  <2>4. CASE link # "up"
    BY <1>0, <1>1, <2>1, <2>2, <2>4, WriteAdds
  <2>5. CASE Live
    <3>1. /\ c2s = <<>> /\ smode = "data"
          /\ txn = [from |-> email, to |-> Envelope(email), intact |-> TRUE]
      BY <2>1, <2>5, ReadyForContent
    <3>2. Len(c2s') = 1 /\ c2s'[1] = Content(email)
      BY <1>0, <2>1, <2>2, <2>5, <3>1, WriteAdds, EmptySeq DEF Live
    <3> QED
      <4>1. PICK e : e = email
        OBVIOUS
      <4>2. /\ smode' = "data" /\ c2s'[1] = Content(e) /\ Content(e).email = e
            /\ txn' = [from |-> e, to |-> Envelope(e), intact |-> TRUE]
        BY <2>1, <2>2, <3>1, <3>2, <4>1
      <4>3. \A i \in 1 .. Len(c2s') : i = 1
        BY <3>2
      <4> QED
        BY <3>2, <4>2, <4>3 DEF ContentInv
  <2> QED
    BY <2>3, <2>4, <2>5 DEF Live
<1> QED
  BY <1>5, <1>6, <1>7, <1>8, <1>9, <1>10, ClientSteps

\* The client takes replies that leave the transaction as they say.
LEMMA ClientKeepsTxn ==
    ASSUME TypeOK, SyncInv, TidyStep, TxnInv, CallStep \/ CallerStep
    PROVE  TxnInv'
<1>1. CASE pc' # "send"
  BY <1>1 DEF TxnInv
<1>2. CASE \E e \in Emails : Send(e)
  <2>1. /\ UNCHANGED <<link, smode, s2c>> /\ acked' = 0 /\ Outstanding = 0 /\ pc # "dropped"
    BY <1>2 DEF Send, serverVars, Outstanding, AwaitsReply
  <2>2. Live' => Len(s2c') = 0
    BY <2>1, QuietBetweenCalls, EmptySeq DEF Live
  <2>3. Live' => Answered' = 0
    BY <2>1, <2>2 DEF Answered
  <2> QED
    BY <2>3 DEF TxnInv
<1>3. CASE WriteCommand \/ WriteMessage
  BY <1>3 DEF WriteCommand, WriteMessage, server, TxnInv, Live, Answered, DataStep, is_positive
<1>4. CASE ReadStepReply
  <2>1. /\ pc = "send" /\ is_positive(response) /\ acked' = acked + 1 /\ s2c' = Tail(s2c)
        /\ UNCHANGED <<link, smode, txn, pc, email>> /\ ReplyArrived
    BY <1>4 DEF ReadStepReply, Consume, server
  <2>2. /\ Len(s2c) \in Nat \ {0} /\ response = s2c[1] /\ Len(s2c') = Len(s2c) - 1
        /\ \A i \in 1 .. Len(s2c') : s2c'[i] = s2c[i + 1]
    BY <2>1, ConsumeShifts DEF TypeOK, ServerTypeOK
  <2>3. Answered' = Answered
    BY <2>1, <2>2 DEF Answered, TypeOK, ClientTypeOK
  <2>4. ASSUME \A i \in 1 .. Len(s2c') : is_positive(s2c'[i])
        PROVE  \A i \in 1 .. Len(s2c) : is_positive(s2c[i])
    <3> SUFFICES ASSUME NEW i \in 1 .. Len(s2c) PROVE is_positive(s2c[i])
      OBVIOUS
    <3>1. CASE i = 1
      BY <2>1, <2>2, <3>1
    <3>2. CASE i # 1
      <4>1. i - 1 \in 1 .. Len(s2c') /\ (i - 1) + 1 = i
        BY <2>2, <3>2
      <4> QED
        BY <2>2, <2>4, <4>1
    <3> QED
      BY <3>1, <3>2
  <2> QED
    BY <2>1, <2>3, <2>4 DEF TxnInv, Live, DataStep, is_positive
<1>5. pc' # "send" \/ WriteCommand \/ WriteMessage \/ ReadStepReply \/ \E e \in Emails : Send(e)
  BY DEF CallStep, CallerStep, ReadGreeting, SendEhlo, ReadEhlo, ReaderFails, ReadFinalReply,
     ReadNegativeReply, ReadQuit, ReadStarttls, ReadEof, WriteFails, GiveUp, Fail, KeepOrDrop,
     ReadChallenge, Respond, RespondFails, ReadAuthReply, Auth, DropTransport, Connect, Quit,
     StarttlsUnsupported, Starttls, UpgradeTls, Cancel, Abandon, Drop
<1> QED
  BY <1>1, <1>2, <1>3, <1>4, <1>5

\* What the client writes before the content is no content.
LEMMA WireKept ==
    ASSUME TypeOK, NEW cmd \in Commands, Write(cmd), NEW e,
           cmd.verb # "BODY" \/ cmd.email # e
    PROVE  InWire(e)' => InWire(e)
<1> SUFFICES ASSUME NEW i \in 1 .. Len(c2s'), c2s'[i].verb = "BODY", c2s'[i].email = e
             PROVE  InWire(e)
  BY DEF InWire
<1>1. c2s \in Seq(Commands) /\ Len(c2s) \in Nat
  BY LenProperties DEF TypeOK, ServerTypeOK
<1>2. CASE link = "up"
  <2>1. /\ Len(c2s') = Len(c2s) + 1
        /\ \A k \in 1 .. Len(c2s) : c2s'[k] = c2s[k]
        /\ c2s'[Len(c2s) + 1] = cmd
    BY <1>1, <1>2, WriteAdds
  <2>2. i # Len(c2s) + 1
    BY <2>1
  <2>3. i \in 1 .. Len(c2s)
    BY <1>1, <2>1, <2>2
  <2> QED
    BY <2>1, <2>3 DEF InWire
<1>3. CASE link # "up"
  BY <1>1, <1>3, WriteAdds DEF InWire
<1> QED
  BY <1>2, <1>3

\* The first reply of the stream, read inside `send`.
LEMMA FirstOfSend ==
    ASSUME TypeOK, SyncInv, pc = "send", ReplyArrived
    PROVE  /\ email \in Emails /\ response = s2c[1] /\ 1 \in 1 .. Len(s2c) /\ s2c # <<>>
           /\ acked + 1 <= ScriptLength(email)
           /\ \/ response.to = Unsolicited /\ smode = "closed" /\ ~is_positive(response)
              \/ response.to = Step(email, acked + 1)
<1>1. /\ s2c \in Seq(Replies) /\ email \in Emails /\ acked \in Nat
      /\ ScriptLength(email) = DataStep(email) + 1 /\ DataStep(email) \in Nat
  BY ContentFacts DEF TypeOK, ServerTypeOK, ClientTypeOK
<1>2. response = s2c[1] /\ 1 \in 1 .. Len(s2c) /\ s2c # <<>>
  BY <1>1, ConsumeShifts DEF ReplyArrived
<1>3. acked + 1 <= ScriptLength(email)
  BY <1>1 DEF SyncInv, InvCall
<1> QED
  BY <1>1, <1>2, <1>3 DEF SyncInv, InvReplies, Awaited

\* Before the last step of the script is answered its content is not written.
LEMMA UnwrittenYet ==
    ASSUME TypeOK, SyncInv, pc = "send", acked + 1 # ScriptLength(email)
    PROVE  Unwritten(email)
<1>1. /\ email \in Emails /\ acked \in Nat /\ sent \in Nat
      /\ ScriptLength(email) = DataStep(email) + 1 /\ DataStep(email) \in Nat
  BY ContentFacts DEF TypeOK, ClientTypeOK
<1>2. sent <= ScriptLength(email) /\ sent # ScriptLength(email)
  BY <1>1 DEF SyncInv, InvCall
<1> QED
  BY <1>1, <1>2 DEF Unwritten

\* Ok is the reply to the content.
LEMMA OkIsTaken ==
    ASSUME TypeOK, SyncInv, VerdictInv, ReadFinalReply
    PROVE  Accepted(email) # {}
<1>1. /\ pc = "send" /\ ReplyArrived /\ is_positive(response)
      /\ acked + 1 = ScriptLength(email)
  BY DEF ReadFinalReply
<1>2. response = s2c[1] /\ 1 \in 1 .. Len(s2c) /\ response.to = Content(email)
  BY <1>1, FirstOfSend DEF Content
<1> QED
  BY <1>1, <1>2 DEF VerdictInv

\* A refusal comes from a server that has not taken the content.
LEMMA RejectedIsNotTaken ==
    ASSUME TypeOK, SyncInv, CurrentInv, VerdictInv, ReadNegativeReply,
           ErrorKind(response) \in Rejections
    PROVE  NotTaken(email)
<1>1. pc = "send" /\ ReplyArrived /\ email \in Emails
  BY DEF ReadNegativeReply, TypeOK, ClientTypeOK
<1>2. response.severity \in Negative
  BY DEF ErrorKind, Rejections, Negative
<1>3. CASE Unwritten(email)
  BY <1>1, <1>3 DEF CurrentInv, Once
<1>4. CASE acked + 1 = ScriptLength(email) /\ response.to = Step(email, acked + 1)
  BY <1>1, <1>2, <1>4, FirstOfSend DEF VerdictInv, Content
<1>5. CASE response.to = Unsolicited /\ smode = "closed"
  BY <1>1, <1>5, FirstOfSend DEF VerdictInv, NotTaken
<1> QED
  BY <1>1, <1>3, <1>4, <1>5, FirstOfSend, UnwrittenYet

\* The client writes the content of a call once.
LEMMA ClientKeepsOnce ==
    ASSUME TypeOK, SyncInv, TidyStep, TxnInv, CurrentInv, VerdictInv, CallStep \/ CallerStep,
           NEW e \in Emails, Once(e)
    PROVE  Once(e)'
<1>0. UNCHANGED delivered /\ result \in [Emails -> Results]
  BY ClientSteps DEF TypeOK, ClientTypeOK
<1> DEFINE WireSame == smode' # "closed" /\ InWire(e)' => smode # "closed" /\ InWire(e)
           Known == /\ Unwritten(e)' \/ result'[e] \in Rejections =>
                           Unwritten(e) \/ result[e] \in Rejections \/ NotTaken(e)
                    /\ result'[e] = "ok" => result[e] = "ok" \/ Accepted(e) # {}
<1>1. ASSUME ~WriteMessage
      PROVE  WireSame
  <2>1. CASE UNCHANGED <<c2s, smode>>
    BY <2>1 DEF InWire
  <2>2. CASE Speaks
    BY <2>2, SpeaksLine, WireKept
  <2>3. CASE Connect
    BY <2>3, EmptySeq DEF Connect, InWire
  <2>4. CASE UpgradeTls
    BY <2>4 DEF UpgradeTls, InWire
  <2>5. CASE WriteCommand
    <3>1. /\ email \in Emails /\ sent \in Nat /\ sent + 1 \in 1 .. DataStep(email)
          /\ Write(Step(email, sent + 1)) /\ UNCHANGED smode
      BY <2>5, ContentFacts DEF WriteCommand, MayWrite, TypeOK, ClientTypeOK, server
    <3>2. Step(email, sent + 1) \in Commands /\ Step(email, sent + 1).verb # "BODY"
      BY <3>1, ContentFacts, StepType
    <3> QED
      BY <3>1, <3>2, WireKept
  <2> QED
    BY <1>1, <2>1, <2>2, <2>3, <2>4, <2>5, ClientSteps
<1>2. ASSUME pc' # "send", result'[e] = result[e]
      PROVE  Known
  BY <1>2 DEF Unwritten
<1>3. ASSUME NEW kind \in {"io", "cancelled"}, GiveUp(kind)
      PROVE  Known
  <2>1. pc' = "dropped" /\ (result'[e] = result[e] \/ result'[e] = kind)
    BY <1>0, <1>3 DEF GiveUp, DropTransport
  <2> QED
    BY <1>2, <1>3, <2>1 DEF Unwritten, Rejections
<1>4. ASSUME ~WriteMessage
      PROVE  Known
  <2>1. CASE ReadGreeting \/ Speaks \/ ReadEhlo \/ ReadQuit \/ ReadStarttls \/ Connect
             \/ ReadChallenge \/ RespondFails \/ ReadAuthReply
             \/ StarttlsUnsupported \/ UpgradeTls \/ Drop
    <3>1. pc' # "send" /\ UNCHANGED result
      BY <2>1, SpeaksLine DEF ReadGreeting, ReadEhlo, ReadQuit, ReadStarttls, Connect,
         ReadChallenge, RespondFails, ReadAuthReply, StarttlsUnsupported, UpgradeTls, Drop,
         KeepOrDrop, DropTransport
    <3> QED
      BY <1>2, <3>1
  <2>2. CASE ReadEof \/ WriteFails \/ Cancel
    BY <1>3, <2>2 DEF ReadEof, WriteFails, Cancel
  <2>3. CASE \E f \in Emails : Send(f)
    <3>1. PICK f \in Emails : Send(f)
      BY <2>3
    <3>2. /\ result[f] = "unsent" /\ email' = f /\ result' = [result EXCEPT ![f] = "sending"]
      BY <3>1 DEF Send
    <3> QED
      BY <1>0, <3>2 DEF Unwritten, Rejections
  <2>4. CASE WriteCommand \/ ReadStepReply
    <3>1. /\ UNCHANGED <<result, pc, email>> /\ sent' \in {sent, sent + 1}
          /\ sent \in Nat /\ pc = "send" /\ email \in Emails
      BY <2>4 DEF WriteCommand, ReadStepReply, TypeOK, ClientTypeOK
    <3>2. Unwritten(e)' => Unwritten(e)
      BY <3>1, ContentFacts DEF Unwritten, DataStep
    <3> QED
      BY <3>1, <3>2
  <2>5. CASE ReadFinalReply
    <3>1. Accepted(email) # {} /\ pc' = "idle" /\ result' = [result EXCEPT ![email] = "ok"]
      BY <2>5, OkIsTaken DEF ReadFinalReply
    <3> QED
      BY <1>0, <1>2, <3>1 DEF Unwritten, Rejections
  <2>6. CASE ReadNegativeReply
    <3>1. pc' # "send" /\ result' = [result EXCEPT ![email] = ErrorKind(response)]
      BY <2>6 DEF ReadNegativeReply, Fail, KeepOrDrop, DropTransport
    <3>2. ErrorKind(response) \in Rejections => NotTaken(email)
      BY <2>6, RejectedIsNotTaken
    <3>3. ErrorKind(response) \notin {"ok", "unsent"}
      BY ErrorKindType
    <3> QED
      BY <1>0, <1>2, <3>1, <3>2, <3>3 DEF Unwritten
  <2>7. CASE ReaderFails
    <3>1. pc' # "send" /\ result' = [result EXCEPT ![email] = "reader"] /\ Unwritten(email)
      BY <2>7, ContentFacts DEF ReaderFails, Fail, KeepOrDrop, DropTransport, Unwritten,
         MayWriteMessage, TypeOK, ClientTypeOK
    <3> QED
      BY <1>0, <1>2, <3>1 DEF Unwritten
  <2>8. CASE Abandon
    <3>1. pc' # "send" /\ result' \in {result, [result EXCEPT ![email] = "cancelled"]}
      BY <2>8 DEF Abandon
    <3> QED
      BY <1>0, <1>2, <3>1 DEF Unwritten, Rejections
  <2> QED
    BY <1>4, <2>1, <2>2, <2>3, <2>4, <2>5, <2>6, <2>7, <2>8 DEF CallStep, CallerStep, Speaks
<1>5. CASE ~WriteMessage
  BY <1>0, <1>1, <1>4, <1>5, OnceKept
<1>6. CASE WriteMessage
  <2>1. PICK f \in Emails : f = email /\ f = email'
    BY <1>6 DEF WriteMessage, TypeOK, ClientTypeOK
  <2>2. /\ pc = "send" /\ pc' = "send" /\ UNCHANGED <<result, smode>>
        /\ sent = DataStep(f) /\ sent' = DataStep(f) + 1 /\ Write(Content(f))
    BY <1>6, <2>1, ContentFacts DEF WriteMessage, MayWriteMessage, server, Content
  <2>3. CASE e = f
    <3>1. result[f] = "sending" /\ NotTaken(f) /\ DataStep(f) \in Nat
      BY <2>1, <2>2, ContentFacts DEF VerdictInv, CurrentInv, Once, Unwritten
    <3>2. ~Unwritten(f)' /\ result'[f] = "sending" /\ Accepted(f)' = {}
      BY <1>0, <2>1, <2>2, <3>1 DEF Unwritten, NotTaken, Accepted, DataStep
    <3> QED
      BY <2>3, <3>2 DEF Once, Rejections
  <2>4. CASE e # f
    <3>1. Content(f) \in Commands /\ Content(f).email # e
      BY <2>4, ContentFacts
    <3>2. InWire(e)' => InWire(e)
      BY <2>2, <3>1, WireKept
    <3>3. Known
      BY <2>1, <2>2, <2>4 DEF Unwritten
    <3> QED
      BY <1>0, <2>2, <3>2, <3>3, OnceKept
  <2> QED
    BY <2>3, <2>4
<1> QED
  BY <1>5, <1>6

\* The result of a call is what the reply to its content says.
LEMMA ClientKeepsVerdict ==
    ASSUME TypeOK, SyncInv, TidyStep, TxnInv, CurrentInv, VerdictInv, CallStep \/ CallerStep,
           \A e \in Emails : result[e] = "unsent" => Accepted(e) = {}
    PROVE  VerdictInv'
<1>0. UNCHANGED delivered /\ s2c \in Seq(Replies) /\ result \in [Emails -> Results]
  BY ClientSteps DEF TypeOK, ServerTypeOK, ClientTypeOK
<1>1. CASE pc' # "send"
  BY <1>1 DEF VerdictInv
\* Nothing is taken yet, and no reply is one to the content.
<1>2. ASSUME NEW e \in Emails, email' = e, result'[e] = "sending", Accepted(e) = {},
             \A i \in 1 .. Len(s2c') : s2c'[i].to # Content(e)
      PROVE  VerdictInv'
  BY <1>0, <1>2 DEF VerdictInv, Accepted, Content, Step, ScriptLength, DataStep
<1>3. CASE \E e \in Emails : Send(e)
  <2>1. PICK e \in Emails : Send(e)
    BY <1>3
  <2>2. /\ pc = "idle" /\ email' = e /\ result[e] = "unsent" /\ UNCHANGED s2c
        /\ result'[e] = "sending"
    BY <1>0, <2>1 DEF Send, serverVars
  <2>3. Accepted(e) = {}
    BY <2>2
  <2>4. Outstanding = 0 /\ pc # "dropped"
    BY <2>2 DEF Outstanding, AwaitsReply
  <2>5. \A i \in 1 .. Len(s2c) : s2c[i].to = Unsolicited
    BY <2>4, QuietBetweenCalls
  <2>6. Content(e) # Unsolicited
    BY ContentFacts DEF Unsolicited, Plain
  <2> QED
    BY <1>2, <2>2, <2>3, <2>5, <2>6
<1>4. CASE WriteCommand
  <2>1. PICK e \in Emails : e = email /\ e = email'
    BY <1>4 DEF WriteCommand, TypeOK, ClientTypeOK
  <2>2. /\ pc = "send" /\ sent \in Nat /\ sent + 1 \in 1 .. DataStep(e)
        /\ Write(Step(e, sent + 1)) /\ UNCHANGED <<s2c, smode, result>>
    BY <1>4, <2>1, ContentFacts DEF WriteCommand, MayWrite, TypeOK, ClientTypeOK, server
  <2>3. Step(e, sent + 1) \in Commands /\ Step(e, sent + 1).verb # "BODY"
    BY <2>2, ContentFacts, StepType
  <2>4. NotTaken(e) => NotTaken(e)'
    BY <1>0, <2>2, <2>3, WireKept DEF NotTaken, Accepted
  <2>5. Accepted(e)' = Accepted(e)
    BY <1>0 DEF Accepted
  <2> QED
    BY <2>1, <2>2, <2>4, <2>5
       DEF VerdictInv, is_positive, Content, Step, ScriptLength, DataStep
<1>5. CASE WriteMessage
  <2>1. PICK e \in Emails : e = email /\ e = email'
    BY <1>5 DEF WriteMessage, TypeOK, ClientTypeOK
  <2>2. /\ pc = "send" /\ sent = DataStep(e) /\ acked = sent /\ sent \in Nat
        /\ UNCHANGED <<s2c, result>>
    BY <1>5, <2>1 DEF WriteMessage, MayWriteMessage, TypeOK, ClientTypeOK
  <2>3. result'[e] = "sending" /\ Accepted(e) = {}
    BY <2>1, <2>2, ContentFacts DEF VerdictInv, CurrentInv, Once, Unwritten, NotTaken
  <2>4. Outstanding = 0
    BY <2>2 DEF Outstanding
  <2>5. \A i \in 1 .. Len(s2c) : s2c[i].to = Unsolicited
    BY <2>2, <2>4, QuietBetweenCalls
  <2>6. Content(e) # Unsolicited
    BY ContentFacts DEF Unsolicited, Plain
  <2> QED
    BY <1>2, <2>1, <2>2, <2>3, <2>5, <2>6
<1>6. CASE ReadStepReply
  <2>1. PICK e \in Emails : e = email /\ e = email'
    BY <1>6 DEF ReadStepReply, TypeOK, ClientTypeOK
  <2>2. /\ pc = "send" /\ acked + 1 < ScriptLength(e) /\ s2c' = Tail(s2c) /\ ReplyArrived
        /\ UNCHANGED <<c2s, result, smode>>
    BY <1>6, <2>1 DEF ReadStepReply, Consume, server
  <2>3. Unwritten(e)
    BY <2>1, <2>2, ContentFacts, UnwrittenYet DEF TypeOK, ClientTypeOK
  <2>4. result'[e] = "sending" /\ Accepted(e) = {}
    BY <2>1, <2>2, <2>3 DEF VerdictInv, CurrentInv, Once, NotTaken
  <2>5. sent <= DataStep(e) /\ sent \in Nat /\ acked \in Nat
    BY <2>1, <2>2, <2>3, <2>4 DEF Unwritten, TypeOK, ClientTypeOK
  <2>6. /\ Len(s2c') = Len(s2c) - 1 /\ Len(s2c) \in Nat
        /\ \A i \in 1 .. Len(s2c') : s2c'[i] = s2c[i + 1]
    BY <1>0, <2>2, ConsumeShifts
  <2>7. ASSUME NEW i \in 1 .. Len(s2c')
        PROVE  s2c'[i].to # Content(e)
    <3>1. i + 1 \in 1 .. Len(s2c) /\ s2c'[i] = s2c[i + 1]
      BY <2>6
    <3>2. CASE s2c[i + 1].to = Unsolicited
      BY <3>1, <3>2, ContentFacts DEF Unsolicited, Plain
    <3>3. CASE i + 1 <= Outstanding /\ s2c[i + 1].to = Awaited(i + 1)
      <4>1. acked + (i + 1) \in 1 .. DataStep(e)
        BY <2>2, <2>5, <3>3, ContentFacts DEF Outstanding
      <4>2. s2c[i + 1].to = Step(e, acked + (i + 1))
        BY <2>1, <2>2, <3>3 DEF Awaited
      <4> QED
        BY <3>1, <4>1, <4>2, ContentFacts
    <3> QED
      BY <3>1, <3>2, <3>3 DEF SyncInv, InvReplies
  <2> QED
    BY <1>2, <2>1, <2>4, <2>7
<1>7. pc' # "send" \/ WriteCommand \/ WriteMessage \/ ReadStepReply \/ \E e \in Emails : Send(e)
  BY DEF CallStep, CallerStep, ReadGreeting, SendEhlo, ReadEhlo, ReaderFails, ReadFinalReply,
     ReadNegativeReply, ReadQuit, ReadStarttls, ReadEof, WriteFails, GiveUp, Fail, KeepOrDrop,
     ReadChallenge, Respond, RespondFails, ReadAuthReply, Auth, DropTransport, Connect, Quit,
     StarttlsUnsupported, Starttls, UpgradeTls, Cancel, Abandon, Drop
<1> QED
  BY <1>1, <1>3, <1>4, <1>5, <1>6, <1>7

-----------------------------------------------------------------------------
(* The theorems *)

\* At first nothing is sent and nothing delivered.
LEMMA InitDelivery == Init => DeliveryInv
<1> SUFFICES ASSUME Init PROVE DeliveryInv
  OBVIOUS
<1>1. /\ pc = "dropped" /\ smode = "closed" /\ Len(delivered) = 0
      /\ \A e \in Emails : result[e] = "unsent"
  BY EmptySeq DEF Init, ServerInit
<1> QED
  BY <1>1 DEF DeliveryInv, TxnInv, ContentInv, DeliveredIntact, OnceInv, Once, NotTaken,
     Accepted, VerdictInv

\* Every tidy step keeps DeliveryInv.
LEMMA NextDelivery ==
    ASSUME TypeOK, SyncInv, DeliveryInv, TidyStep, [Next]_vars
    PROVE  DeliveryInv'
<1>0. /\ CurrentInv
      /\ \A e \in Emails : result[e] = "unsent" => Accepted(e) = {}
  BY DEF DeliveryInv, OnceInv, Once, Unwritten, NotTaken, CurrentInv, TypeOK, ClientTypeOK
<1>1. CASE CallStep \/ CallerStep
  <2>1. DeliveredIntact'
    BY <1>1, ClientSteps DEF DeliveryInv, DeliveredIntact, Genuine, Envelope
  <2> QED
    BY <1>0, <1>1, <2>1, ClientKeepsTxn, ClientKeepsContent, ClientKeepsOnce,
       ClientKeepsVerdict DEF DeliveryInv, OnceInv
<1>2. CASE ServerMoves \/ NetworkMoves
  <2>1. ServerStep \/ NetworkStep
    BY <1>2 DEF ServerMoves, NetworkMoves
  <2>2. UNCHANGED clientVars /\ UNCHANGED <<pc, email, sent, result>>
    BY <1>2 DEF ServerMoves, NetworkMoves, clientVars, call
  <2> QED
    BY <1>0, <2>1, <2>2, ServerKeepsTxn, ServerKeepsContent, ServerKeepsIntact,
       ServerKeepsOnce, ServerKeepsVerdict DEF DeliveryInv, OnceInv
<1>3. CASE UNCHANGED vars
  <2>1. UNCHANGED <<link, c2s, s2c, smode, txn, delivered, pc, email, sent, acked, result>>
    BY <1>3 DEF vars, serverVars, clientVars, call
  <2>2. /\ TxnInv' /\ ContentInv' /\ DeliveredIntact'
    BY <2>1 DEF DeliveryInv, TxnInv, ContentInv, DeliveredIntact, Live, Answered, is_positive,
       Content, Envelope, Genuine, Step, ScriptLength, DataStep
  <2>3. OnceInv' /\ VerdictInv'
    BY <2>1 DEF DeliveryInv, OnceInv, Once, VerdictInv, Unwritten, NotTaken, Accepted, InWire,
       is_positive, Content, Step, ScriptLength, DataStep
  <2> QED
    BY <2>2, <2>3 DEF DeliveryInv
<1> QED
  BY <1>1, <1>2, <1>3 DEF Next, Finished

\* The invariants of delivery, for an orderly caller.
LEMMA DeliveryInvariant ==
    ASSUME Orderly
    PROVE  Spec => [](TypeOK /\ SyncInv /\ DeliveryInv)
<1>1. Init => TypeOK /\ SyncInv /\ DeliveryInv
  BY InitType, InitSync, InitDelivery
<1>2. TypeOK /\ SyncInv /\ DeliveryInv /\ [Next]_vars => (TypeOK /\ SyncInv /\ DeliveryInv)'
  BY NextType, NextSync, NextDelivery, OrderlyIsTidy
<1> QED
  BY <1>1, <1>2, PTL DEF Spec

\* `send` returns Ok for exactly the messages the server took, each of them once, with
\* its own sender and for all of its own recipients.
THEOREM OkMeansTakenOnce ==
    ASSUME Orderly
    PROVE  Spec => []SentOkDelivered
<1>1. DeliveryInv => SentOkDelivered
  <2> SUFFICES ASSUME DeliveryInv, NEW e \in Emails, result[e] = "ok"
               PROVE  \E m \in 1 .. Len(delivered) :
                         delivered[m] = Genuine(e) /\ Accepted(e) = {m}
    BY DEF SentOkDelivered
  <2>1. PICK m : m \in Accepted(e)
    BY DEF DeliveryInv, OnceInv, Once
  <2>2. Accepted(e) = {m}
    BY <2>1 DEF DeliveryInv, OnceInv, Once
  <2> QED
    BY <2>1, <2>2 DEF Accepted, DeliveryInv, DeliveredIntact
<1> QED
  BY <1>1, DeliveryInvariant, PTL

\* After Transient, Permanent or a failure of the reader nothing was taken and
\* nothing is on its way: the caller may send the message again.
THEOREM RejectedMeansNotTaken ==
    ASSUME Orderly
    PROVE  Spec => []RejectedNotDelivered
<1>1. DeliveryInv => RejectedNotDelivered
  BY ContentFacts
     DEF DeliveryInv, OnceInv, Once, NotTaken, InWire, Content, RejectedNotDelivered
<1> QED
  BY <1>1, DeliveryInvariant, PTL

\* Whatever becomes of a call, nobody gets a message that was not addressed to them.
THEOREM NothingMisaddressed ==
    ASSUME Orderly
    PROVE  Spec => []DeliveredIntact
<1>1. DeliveryInv => DeliveredIntact
  BY DEF DeliveryInv
<1> QED
  BY <1>1, DeliveryInvariant, PTL

=============================================================================
