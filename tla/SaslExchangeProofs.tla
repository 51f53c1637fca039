-------------------------- MODULE SaslExchangeProofs --------------------------
(***************************************************************************)
(* Theorems about SaslExchange, for every list of accepted mechanisms and  *)
(* every limit on challenges and calls.                                    *)
(***************************************************************************)
EXTENDS SaslExchange, SequenceTheorems, TLAPS

\* The lines and replies the actions build are of their types.
LEMMA LinesAndReplies ==
    /\ NoLine \in LineSet
    /\ [NoLine EXCEPT !.verb = "command"] \in LineSet
    /\ \A c \in Credentials :
          [NoLine EXCEPT !.verb = "response", !.holds = {c}] \in LineSet
    /\ \A m \in Mechanisms : AuthLine(m) \in LineSet
    /\ NoReply \in ReplySet
    /\ \A code \in {"235", "250", "negative", "eof"} :
          [code |-> code, challenge |-> "none"] \in ReplySet
    /\ \A q \in Questions : [code |-> "334", challenge |-> q] \in ReplySet
<1>1. NoLine \in LineSet
  BY DEF NoLine, LineSet
<1>2. [NoLine EXCEPT !.verb = "command"] \in LineSet
  BY DEF NoLine, LineSet
<1>3. ASSUME NEW c \in Credentials
      PROVE  [NoLine EXCEPT !.verb = "response", !.holds = {c}] \in LineSet
  <2>1. {c} \in SUBSET Credentials
    OBVIOUS
  <2> QED
    BY <2>1 DEF NoLine, LineSet
<1>4. ASSUME NEW m \in Mechanisms
      PROVE  AuthLine(m) \in LineSet
  <2>1. (IF supports_initial_response(m) THEN Credentials ELSE {}) \in SUBSET Credentials
    OBVIOUS
  <2> QED
    BY <2>1 DEF AuthLine, LineSet
<1>5. NoReply \in ReplySet
  BY DEF NoReply, ReplySet
<1>6. \A code \in {"235", "250", "negative", "eof"} :
          [code |-> code, challenge |-> "none"] \in ReplySet
  BY DEF ReplySet
<1>7. \A q \in Questions : [code |-> "334", challenge |-> q] \in ReplySet
  BY DEF ReplySet
<1> QED
  BY <1>1, <1>2, <1>3, <1>4, <1>5, <1>6, <1>7

\* What the server knows after a line is part of the credentials.
LEMMA KnowsType == TypeOK => Knows \in SUBSET Credentials
<1> SUFFICES ASSUME TypeOK PROVE Knows \in SUBSET Credentials
  OBVIOUS
<1>1. line.holds \in SUBSET Credentials
  BY DEF TypeOK, LineSet
<1>2. has \in SUBSET Credentials
  BY DEF TypeOK
<1> QED
  BY <1>1, <1>2 DEF Knows

\* Every state is of its type: `challenges`, for one, never falls below zero.
THEOREM TypeCorrect == Spec => []TypeOK
<1>1. Init => TypeOK
  <2> SUFFICES ASSUME Init PROVE TypeOK
    OBVIOUS
  <2>1. line \in LineSet /\ reply \in ReplySet
    BY LinesAndReplies DEF Init
  <2>2. challenges \in 0 .. Challenges
    BY SaslAssumption DEF Init
  <2>3. log \in Seq(Entries)
    BY DEF Init
  <2> QED
    BY <2>1, <2>2, <2>3 DEF Init, TypeOK
<1>2. TypeOK /\ [Next]_vars => TypeOK'
  <2> SUFFICES ASSUME TypeOK, [Next]_vars PROVE TypeOK'
    OBVIOUS
  <2>b. Challenges \in Nat
    BY SaslAssumption
  <2>a. Challenges \in 0 .. Challenges /\ 0 \in 0 .. Challenges
    BY <2>b
  <2>c. challenges \in 0 .. Challenges /\ challenges > 0
            => challenges - 1 \in 0 .. Challenges
    BY <2>b
  <2> USE LinesAndReplies DEF TypeOK
  <2>0. ASSUME NEW r \in Results, Return(r)
        PROVE  /\ log' \in Seq(Entries)
               /\ pc' \in {"idle", "closed"}
               /\ mechanism' = "none"
               /\ challenges' \in 0 .. Challenges
    <3>1. [result |-> r, granted |-> granted] \in Entries
      <4> HIDE DEF TypeOK
      <4>1. granted \in BOOLEAN
        BY DEF TypeOK
      <4> QED
        BY <4>1 DEF Entries
    <3>2. log' \in Seq(Entries)
      <4>1. log \in Seq(Entries)
        OBVIOUS
      <4>2. log' = Append(log, [result |-> r, granted |-> granted])
        BY <2>0 DEF Return
      <4> QED
        BY <3>1, <4>1, <4>2, AppendProperties
    <3>3. pc' \in {"idle", "closed"} /\ mechanism' = "none" /\ challenges' = 0
      BY <2>0 DEF Return
    <3> QED
      BY <2>a, <3>2, <3>3
  <2>1. CASE Auth
    <3>1. PICK m \in Mechanisms : Begin(m)
      BY <2>1 DEF Auth
    <3>2. line' \in LineSet
      BY <3>1 DEF Begin
    <3> QED
      BY <2>a, <2>1, <3>1, <3>2 DEF Auth, Begin
  <2>2. CASE TryLogin
    <3>1. CASE UNCHANGED log
      <4>1. CASE \E i \in 1 .. Len(Accepted) : Begin(Accepted[i])
        <5>1. PICK i \in 1 .. Len(Accepted) : Begin(Accepted[i])
          BY <4>1
        <5>2. Accepted[i] \in Mechanisms
          BY <5>1, ElementOfSeq, SaslAssumption
        <5>3. line' \in LineSet
          BY <5>1, <5>2 DEF Begin
        <5> QED
          BY <2>a, <2>2, <3>1, <5>1, <5>2, <5>3 DEF TryLogin, Begin
      <4>2. CASE UNCHANGED <<pc, mechanism, challenges, line, granted>>
        BY <2>2, <3>1, <4>2 DEF TryLogin
      <4> QED
        BY <2>2, <4>1, <4>2 DEF TryLogin
    <3>2. CASE /\ log' = Append(log, [result |-> "skipped", granted |-> FALSE])
               /\ UNCHANGED <<pc, mechanism, challenges, line, granted>>
      <4>1. [result |-> "skipped", granted |-> FALSE] \in Entries
        BY DEF Entries, Results
      <4>2. log' \in Seq(Entries)
        BY <3>2, <4>1, AppendProperties
      <4> QED
        BY <2>2, <3>2, <4>2 DEF TryLogin
    <3> QED
      BY <2>2, <3>1, <3>2 DEF TryLogin
  <2>3. CASE NextCommand
    BY <2>3 DEF NextCommand, server
  <2>4. CASE ReadChallenge
    <3>1. reply' \in ReplySet
      BY <2>4 DEF ReadChallenge
    <3>2. CASE Answer(mechanism, reply.challenge) \in Credentials
      <4>1. line' \in LineSet
        BY <2>4, <3>2 DEF ReadChallenge
      <4>2. challenges' \in 0 .. Challenges
        BY <2>c, <2>4, <3>2 DEF ReadChallenge
      <4> QED
        BY <2>4, <3>1, <3>2, <4>1, <4>2 DEF ReadChallenge, server
    <3>3. CASE Answer(mechanism, reply.challenge) \notin Credentials
      <4>1. Answer(mechanism, reply.challenge) \in Results
        BY <3>3 DEF Answer, Credentials, Results
      <4> QED
        BY <2>0, <2>4, <3>1, <3>3, <4>1 DEF ReadChallenge, server
    <3> QED
      BY <3>2, <3>3
  <2>5. CASE ReadLast
    <3>1. PICK r \in Results : Return(r)
      BY <2>5 DEF ReadLast, Results
    <3> QED
      BY <2>0, <2>5, <3>1 DEF ReadLast, server
  <2>6. CASE ReadNext
    BY <2>6 DEF ReadNext, server
  <2>7. CASE ServeAuth
    BY <2>7, KnowsType DEF ServeAuth, Grant, Challenge, Refuse, Say
  <2>8. CASE ServeResponse
    BY <2>8, KnowsType DEF ServeResponse, Grant, Challenge, Refuse, Say
  <2>9. CASE ServeCommand
    BY <2>9 DEF ServeCommand, Say, server
  <2>10. CASE ServeMisread
    BY <2>10 DEF ServeMisread, Refuse, Say
  <2>11. CASE Lose
    BY <2>11 DEF Lose, Say
  <2>12. CASE UNCHANGED vars
    BY <2>12 DEF vars
  <2>13. CASE Finished
    BY <2>13 DEF Finished, vars
  <2> QED
    BY <2>1, <2>2, <2>3, <2>4, <2>5, <2>6, <2>7, <2>8, <2>9, <2>10, <2>11, <2>12, <2>13
    DEF Next, ClientStep, ServerStep
<1> QED
  BY <1>1, <1>2, PTL DEF Spec

\* A call of auth that returns appends one entry to the log; the entries before it
\* stay true.
LEMMA LogGrows ==
    ASSUME TypeOK, LoginOutcome,
           NEW r \in Results, NEW g \in BOOLEAN,
           log' = Append(log, [result |-> r, granted |-> g]),
           r = "ok" => g,
           g => r \in {"ok", "limit", "io"}
    PROVE  LoginOutcome'
<1> SUFFICES ASSUME NEW i \in 1 .. Len(log')
             PROVE  /\ log'[i].result = "ok" => log'[i].granted
                    /\ log'[i].granted => log'[i].result \in {"ok", "limit", "io"}
  BY DEF LoginOutcome
<1>1. log \in Seq(Entries)
  BY DEF TypeOK
<1>2. CASE i \in 1 .. Len(log)
  <2>1. log'[i] = log[i]
    BY <1>1, <1>2
  <2> QED
    BY <1>2, <2>1 DEF LoginOutcome
<1>3. CASE i = Len(log) + 1
  <2>1. log'[i] = [result |-> r, granted |-> g]
    BY <1>1, <1>3
  <2> QED
    BY <2>1
<1> QED
  BY <1>1, <1>2, <1>3

\* What `auth` tells its caller is what the server decided, for every server that
\* keeps to RFC 4954, however many calls and challenges there are.
THEOREM LoginTold == Spec => []LoginOutcome
<1>1. Init => LoginInv
  BY DEF Init, LoginInv, GrantInFlight, LoginOutcome, NoLine, NoReply
<1>2. TypeOK /\ LoginInv /\ [Next]_vars => LoginInv'
  <2> SUFFICES ASSUME TypeOK, LoginInv, [Next]_vars PROVE LoginInv'
    OBVIOUS
  <2>1. GrantInFlight /\ LoginOutcome
    BY DEF LoginInv
  <2>2. GrantInFlight'
    <3> USE <2>1 DEF TypeOK, GrantInFlight, NoLine, NoReply, LineSet, ReplySet
    <3>1. CASE Auth
      BY <3>1 DEF Auth, MayCall, Begin, AuthLine
    <3>2. CASE TryLogin
      BY <3>2 DEF TryLogin, MayCall, Begin, AuthLine
    <3>3. CASE NextCommand
      BY <3>3 DEF NextCommand, MayCall, server
    <3>4. CASE ReadChallenge
      BY <3>4 DEF ReadChallenge, Return, server
    <3>5. CASE ReadLast
      <4>1. PICK r \in Results : Return(r)
        BY <3>5 DEF ReadLast, Results
      <4>2. reply'.code = "none" /\ line'.verb = "none"
        BY <3>5 DEF ReadLast
      <4>3. pc' \in {"idle", "closed"}
        BY <4>1 DEF Return
      <4> QED
        BY <4>2, <4>3 DEF GrantInFlight
    <3>6. CASE ReadNext
      BY <3>6 DEF ReadNext, server
    <3>7. CASE ServeAuth
      BY <3>7 DEF ServeAuth, Grant, Challenge, Refuse, Say
    <3>8. CASE ServeResponse
      BY <3>8 DEF ServeResponse, Grant, Challenge, Refuse, Say
    <3>9. CASE ServeCommand
      BY <3>9 DEF ServeCommand, Say, server
    <3>10. CASE ServeMisread
      BY <3>10 DEF ServeMisread, Refuse, Say
    <3>11. CASE Lose
      BY <3>11 DEF Lose, Say
    <3>12. CASE UNCHANGED vars
      BY <3>12 DEF vars
    <3>13. CASE Finished
      BY <3>13 DEF Finished, vars
    <3> QED
      BY <3>1, <3>2, <3>3, <3>4, <3>5, <3>6, <3>7, <3>8, <3>9, <3>10, <3>11, <3>12,
         <3>13
      DEF Next, ClientStep, ServerStep
  <2>3. LoginOutcome'
    <3>1. CASE UNCHANGED log
      BY <2>1, <3>1 DEF LoginOutcome
    <3>2. CASE TryLogin /\ log' # log
      <4>1. log' = Append(log, [result |-> "skipped", granted |-> FALSE])
        BY <3>2 DEF TryLogin
      <4>2. "skipped" \in Results /\ FALSE \in BOOLEAN
        BY DEF Results
      <4> QED
        BY <2>1, <4>1, <4>2, LogGrows
    <3>3. CASE ReadChallenge /\ log' # log
      <4>1. PICK r \in {"parsing", "client"} :
                log' = Append(log, [result |-> r, granted |-> granted])
        BY <3>3 DEF ReadChallenge, Return, Answer, Credentials
      <4>2. ~granted
        BY <2>1, <3>3 DEF GrantInFlight, ReadChallenge
      <4>3. r \in Results
        BY DEF Results
      <4>4. granted \in BOOLEAN
        BY DEF TypeOK
      <4> QED
        BY <2>1, <4>1, <4>2, <4>3, <4>4, LogGrows
    <3>4. CASE ReadLast
      <4>1. PICK r \in {"negative", "io", "limit", "ok"} :
                /\ log' = Append(log, [result |-> r, granted |-> granted])
                /\ r = "negative" => reply.code = "negative"
                /\ r = "ok" => reply.code \notin {"none", "334", "negative", "eof"}
        BY <3>4 DEF ReadLast, Return
      <4>2. reply.code \in {"none", "235", "250", "334", "negative", "eof"}
        BY DEF TypeOK, ReplySet
      <4>3. r = "ok" => granted
        BY <2>1, <3>4, <4>1, <4>2 DEF GrantInFlight, ReadLast
      <4>4. granted => r # "negative"
        BY <2>1, <3>4, <4>1, <4>2 DEF GrantInFlight, ReadLast
      <4>5. r \in Results
        BY DEF Results
      <4>6. granted \in BOOLEAN
        BY DEF TypeOK
      <4> QED
        BY <2>1, <4>1, <4>3, <4>4, <4>5, <4>6, LogGrows
    <3> QED
      BY <3>1, <3>2, <3>3, <3>4
      DEF Next, ClientStep, ServerStep, Auth, NextCommand, ReadNext, ServeAuth,
          ServeResponse, ServeCommand, ServeMisread, Lose, Finished, vars
  <2> QED
    BY <2>2, <2>3 DEF LoginInv
<1>3. LoginInv => LoginOutcome
  BY DEF LoginInv
<1> QED
  BY <1>1, <1>2, <1>3, TypeCorrect, PTL DEF Spec

-----------------------------------------------------------------------------

\* What try_login looks for in the features of the server.
AcceptedOffered == \E i \in 1 .. Len(Accepted) : Accepted[i] \in offered

\* Only TryLogin writes "skipped", and only over an offer it does not accept.
NeverSkipped ==
    AcceptedOffered => \A i \in 1 .. Len(log) : log[i].result # "skipped"

\* An entry that is not "skipped" leaves NeverSkipped as it was.
LEMMA NotSkippedKept ==
    ASSUME TypeOK, NeverSkipped, UNCHANGED offered,
           NEW r \in Results \ {"skipped"}, NEW g \in BOOLEAN,
           log' = Append(log, [result |-> r, granted |-> g])
    PROVE  NeverSkipped'
<1> SUFFICES ASSUME AcceptedOffered, NEW i \in 1 .. Len(log')
             PROVE  log'[i].result # "skipped"
  BY DEF NeverSkipped, AcceptedOffered
<1>1. log \in Seq(Entries)
  BY DEF TypeOK
<1>2. CASE i \in 1 .. Len(log)
  <2>1. log'[i] = log[i]
    BY <1>1, <1>2
  <2> QED
    BY <1>2, <2>1 DEF NeverSkipped
<1>3. CASE i = Len(log) + 1
  <2>1. log'[i] = [result |-> r, granted |-> g]
    BY <1>1, <1>3
  <2> QED
    BY <2>1
<1> QED
  BY <1>1, <1>2, <1>3

\* An Ok of try_login or auth is a granted login whenever the server offers a
\* mechanism the caller accepts, wherever in the caller's list it stands.
THEOREM OkIsLogin == Spec => []OkMeansLogin
<1>1. Init => NeverSkipped
  BY DEF Init, NeverSkipped
<1>2. TypeOK /\ NeverSkipped /\ [Next]_vars => NeverSkipped'
  <2> SUFFICES ASSUME TypeOK, NeverSkipped, [Next]_vars PROVE NeverSkipped'
    OBVIOUS
  <2>1. CASE UNCHANGED <<log, offered>>
    BY <2>1 DEF NeverSkipped, AcceptedOffered
  <2>2. CASE TryLogin /\ log' # log
    <3>1. ~AcceptedOffered /\ UNCHANGED offered
      BY <2>2 DEF TryLogin, AcceptedOffered
    <3> QED
      BY <3>1 DEF NeverSkipped, AcceptedOffered
  <2>3. CASE (ReadChallenge \/ ReadLast) /\ log' # log
    <3>1. PICK r \in {"parsing", "client", "negative", "io", "limit", "ok"} :
              log' = Append(log, [result |-> r, granted |-> granted])
      BY <2>3 DEF ReadChallenge, ReadLast, Return, Answer, Credentials
    <3>2. r \in Results \ {"skipped"}
      BY DEF Results
    <3>3. granted \in BOOLEAN
      BY DEF TypeOK
    <3>4. UNCHANGED offered
      BY <2>3 DEF ReadChallenge, ReadLast
    <3> QED
      BY <3>1, <3>2, <3>3, <3>4, NotSkippedKept
  <2>4. UNCHANGED offered
    BY DEF Next, ClientStep, ServerStep, Auth, TryLogin, NextCommand, ReadChallenge,
        ReadLast, ReadNext, ServeAuth, ServeResponse, ServeCommand, ServeMisread,
        Lose, Finished, vars
  <2>5. UNCHANGED log \/ TryLogin \/ ReadChallenge \/ ReadLast
    BY DEF Next, ClientStep, ServerStep, Auth, NextCommand, ReadNext, ServeAuth,
        ServeResponse, ServeCommand, ServeMisread, Lose, Finished, vars
  <2> QED
    BY <2>1, <2>2, <2>3, <2>4, <2>5
<1>3. LoginOutcome /\ NeverSkipped => OkMeansLogin
  BY DEF LoginOutcome, NeverSkipped, AcceptedOffered, OkMeansLogin
<1> QED
  BY <1>1, <1>2, <1>3, TypeCorrect, LoginTold, PTL DEF Spec

=============================================================================
