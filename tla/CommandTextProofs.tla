-------------------------- MODULE CommandTextProofs --------------------------
(***************************************************************************)
(* What holds of the text of every command, for the proofs of              *)
(* TextSessionProofs: a command is its verb first, its CR LF last, and no  *)
(* CR or LF in between, and what a server finds where a separator stands.  *)
(***************************************************************************)
EXTENDS CommandText, SequenceTheorems, FiniteSetTheorems, WellFoundedInduction, TLAPS

\* Every set of naturals that is not empty has a least element.
LEMMA Least ==
    ASSUME NEW T, T \subseteq Nat, T # {}
    PROVE  Min(T) \in T /\ \A n \in T : Min(T) <= n
<1> DEFINE R == OpToRel(<, Nat)
<1>1. IsWellFoundedOn(R, Nat)
  BY NatLessThanWellFounded
<1>2. \A x, y \in Nat : x < y => <<x, y>> \in R
  BY DEF R, OpToRel
<1> HIDE DEF R
<1>3. PICK m \in T : \A y \in T : <<y, m>> \notin R
  BY <1>1, WFMin
<1>4. ASSUME NEW n \in T PROVE m <= n
  <2>1. ~(n < m)
    BY <1>2, <1>3
  <2> QED
    BY <2>1
<1>5. Min(T) \in T /\ \A y \in T : Min(T) =< y
  BY <1>4 DEF Min
<1> QED
  BY <1>5

\* Induction, for a set.
LEMMA Induct ==
    ASSUME NEW S, 0 \in S, \A n \in Nat : n \in S => n + 1 \in S
    PROVE  Nat \subseteq S
<1> DEFINE T == {n \in Nat : n \notin S}
<1>1. SUFFICES ASSUME T # {} PROVE FALSE
  OBVIOUS
<1>2. PICK m : m = Min(T)
  OBVIOUS
<1>3. m \in Nat /\ m \notin S /\ \A n \in Nat : n \notin S => m <= n
  BY <1>1, <1>2, Least
<1>4. m - 1 \in Nat /\ m - 1 \in S
  BY <1>3
<1> QED
  BY <1>3, <1>4

-----------------------------------------------------------------------------
(* FlattenSeq *)

\* What the recursive function of FlattenSeq is, up to the n-th sequence.
Flat(s, T, n, g) ==
    /\ g \in [1 .. n -> Seq(T)]
    /\ \A i \in 1 .. n : g[i] = IF i = 1 THEN s[i] ELSE g[i - 1] \o s[i]

\* The recursion of FlattenSeq has a solution, however long the sequence.
LEMMA FlatExists ==
    ASSUME NEW T, NEW s \in Seq(Seq(T))
    PROVE  \A n \in Nat : n <= Len(s) => \E g : Flat(s, T, n, g)
<1>0. Len(s) \in Nat /\ \A i \in 1 .. Len(s) : s[i] \in Seq(T)
  BY LenProperties, ElementOfSeq
<1> DEFINE S == {n \in Nat : n <= Len(s) => \E g : Flat(s, T, n, g)}
<1>1. 0 \in S
  <2>1. Flat(s, T, 0, <<>>)
    BY DEF Flat
  <2> QED
    BY <2>1
<1>2. ASSUME NEW n \in Nat, n \in S PROVE n + 1 \in S
  <2>1. SUFFICES ASSUME n + 1 <= Len(s) PROVE \E g : Flat(s, T, n + 1, g)
    OBVIOUS
  <2>2. PICK g : Flat(s, T, n, g)
    BY <1>0, <1>2, <2>1
  <2>3. n + 1 \in 1 .. Len(s) /\ s[n + 1] \in Seq(T)
    BY <1>0, <2>1
  <2>4. PICK x \in Seq(T) : x = IF n = 0 THEN s[n + 1] ELSE g[n] \o s[n + 1]
    <3>1. CASE n = 0
      BY <2>3, <3>1
    <3>2. CASE n # 0
      <4>1. n \in 1 .. n /\ g[n] \in Seq(T)
        BY <2>2, <3>2 DEF Flat
      <4>2. g[n] \o s[n + 1] \in Seq(T)
        BY <2>3, <4>1, ConcatProperties
      <4> QED
        BY <3>2, <4>2
    <3> QED
      BY <3>1, <3>2
  <2>5. PICK h : h = [i \in 1 .. n + 1 |-> IF i = n + 1 THEN x ELSE g[i]]
    OBVIOUS
  <2>6. h \in [1 .. n + 1 -> Seq(T)] /\ h[n + 1] = x /\ \A i \in 1 .. n : h[i] = g[i]
    <3>1. \A i \in 1 .. n + 1 : i # n + 1 => i \in 1 .. n
      OBVIOUS
    <3>2. \A i \in 1 .. n : g[i] \in Seq(T)
      BY <2>2 DEF Flat
    <3> QED
      BY <2>5, <3>1, <3>2
  <2>7. ASSUME NEW i \in 1 .. n + 1
        PROVE  h[i] = IF i = 1 THEN s[i] ELSE h[i - 1] \o s[i]
    <3>1. CASE i \in 1 .. n
      <4>1. g[i] = IF i = 1 THEN s[i] ELSE g[i - 1] \o s[i]
        BY <2>2, <3>1 DEF Flat
      <4>2. i # 1 => i - 1 \in 1 .. n
        BY <3>1
      <4> QED
        BY <2>6, <3>1, <4>1, <4>2
    <3>2. CASE i = n + 1
      <4>1. CASE n = 0
        BY <2>4, <2>6, <3>2, <4>1
      <4>2. CASE n # 0
        <5>1. n \in 1 .. n /\ i # 1 /\ i - 1 = n
          BY <3>2, <4>2
        <5> QED
          BY <2>4, <2>6, <3>2, <4>2, <5>1
      <4> QED
        BY <4>1, <4>2
    <3> QED
      BY <3>1, <3>2
  <2> QED
    BY <2>6, <2>7 DEF Flat
<1>3. Nat \subseteq S
  <2> HIDE DEF S
  <2> QED
    BY <1>1, <1>2, Induct, Zenon
<1> QED
  BY <1>3

\* FlattenSeq is its last value.
LEMMA FlattenIs ==
    ASSUME NEW T, NEW s \in Seq(Seq(T)), s # <<>>
    PROVE  \E g : Flat(s, T, Len(s), g) /\ FlattenSeq(s) = g[Len(s)]
<1>0. Len(s) \in Nat \ {0}
  BY LenProperties, EmptySeq
<1>1. PICK g : Flat(s, T, Len(s), g)
  BY <1>0, FlatExists
<1> DEFINE f == CHOOSE h : h = [i \in 1 .. Len(s) |-> IF i = 1 THEN s[i] ELSE h[i - 1] \o s[i]]
<1>2. FlattenSeq(s) = f[Len(s)]
  BY <1>0 DEF FlattenSeq
<1>3. g = [i \in 1 .. Len(s) |-> IF i = 1 THEN s[i] ELSE g[i - 1] \o s[i]]
  BY <1>1, Zenon DEF Flat
<1>4. f = [i \in 1 .. Len(s) |-> IF i = 1 THEN s[i] ELSE f[i - 1] \o s[i]]
  BY <1>3, Zenon
<1> HIDE DEF f
<1>5. \A i \in 1 .. Len(s) : f[i] = IF i = 1 THEN s[i] ELSE f[i - 1] \o s[i]
  <2> DEFINE F(i) == IF i = 1 THEN s[i] ELSE f[i - 1] \o s[i]
  <2>1. f = [i \in 1 .. Len(s) |-> F(i)]
    BY <1>4
  <2> HIDE DEF F
  <2>2. \A i \in 1 .. Len(s) : f[i] = F(i)
    BY <2>1
  <2> QED
    BY <2>2 DEF F
<1>6. \A i \in 1 .. Len(s) : g[i] = IF i = 1 THEN s[i] ELSE g[i - 1] \o s[i]
  BY <1>1 DEF Flat
<1>7. \A n \in Nat : n \in 1 .. Len(s) => f[n] = g[n]
  <2> DEFINE S == {n \in Nat : n \in 1 .. Len(s) => f[n] = g[n]}
  <2>1. 0 \in S
    BY <1>0
  <2>2. ASSUME NEW n \in Nat, n \in S PROVE n + 1 \in S
    <3>1. SUFFICES ASSUME n + 1 \in 1 .. Len(s) PROVE f[n + 1] = g[n + 1]
      OBVIOUS
    <3>2. /\ f[n + 1] = IF n + 1 = 1 THEN s[n + 1] ELSE f[n + 1 - 1] \o s[n + 1]
          /\ g[n + 1] = IF n + 1 = 1 THEN s[n + 1] ELSE g[n + 1 - 1] \o s[n + 1]
      BY <1>5, <1>6, <3>1
    <3>3. n # 0 => f[n] = g[n]
      BY <1>0, <2>2, <3>1
    <3>4. n + 1 - 1 = n /\ (n + 1 = 1 <=> n = 0)
      OBVIOUS
    <3> QED
      <4>1. CASE n = 0
        BY <3>2, <3>4, <4>1
      <4>2. CASE n # 0
        BY <3>2, <3>3, <3>4, <4>2
      <4> QED
        BY <4>1, <4>2
  <2>3. Nat \subseteq S
    <3> HIDE DEF S
    <3> QED
      BY <2>1, <2>2, Induct
  <2> QED
    BY <2>3
<1> QED
  BY <1>0, <1>1, <1>2, <1>7

\* Sequences put one after the other are a sequence.
LEMMA FlattenType ==
    ASSUME NEW T, NEW s \in Seq(Seq(T))
    PROVE  FlattenSeq(s) \in Seq(T)
<1>1. CASE s = <<>>
  <2>1. FlattenSeq(s) = s
    BY <1>1, EmptySeq DEF FlattenSeq
  <2> QED
    BY <1>1, <2>1, EmptySeq
<1>2. CASE s # <<>>
  <2>1. PICK g : Flat(s, T, Len(s), g) /\ FlattenSeq(s) = g[Len(s)]
    BY <1>2, FlattenIs
  <2>2. Len(s) \in Nat \ {0}
    BY <1>2, LenProperties, EmptySeq
  <2> QED
    BY <2>1, <2>2 DEF Flat
<1> QED
  BY <1>1, <1>2

-----------------------------------------------------------------------------
(* A command is one line *)

Verbs == BareVerbs \cup TextVerbs \cup {"EHLO", "MAIL", "RCPT"}

\* STRING, for provers that do not know the words in it.
Tokens ==
    STRING \cup Characters \cup Verbs \cup ToSet(HexDigits)
    \cup {"FROM:", "TO:", "<", ">", "[", "]", "IPv6:", "=", "BODY", "8BITMIME", "7BIT", "SIZE", "SMTPUTF8",
     "ENVID", "ORCPT"}

\* Tokens that are no part of the end of a line.
Plain == Tokens \ {"CR", "LF"}

Params == FixedParameters \cup [keyword : Plain, value : Seq(Characters)]

\* The commands whose text, but for the values of parameters, holds no CR and no LF.
Written ==
    [verb : Verbs, kind : {"none", "Domain", "Ipv4", "Ipv6"}, text : Seq(Plain), params : Seq(Params)]

\* The code points.
LEMMA CodePointIs ==
    /\ CodePoint["TAB"] = 9 /\ CodePoint["LF"] = 10 /\ CodePoint["CR"] = 13 /\ CodePoint["SP"] = 32
    /\ CodePoint["+"] = 43 /\ CodePoint["2"] = 50 /\ CodePoint["<"] = 60 /\ CodePoint["="] = 61
    /\ CodePoint[">"] = 62 /\ CodePoint["@"] = 64 /\ CodePoint["A"] = 65 /\ CodePoint["a"] = 97
    /\ CodePoint["DEL"] = 127 /\ CodePoint["oslash"] = 248
<1> DEFINE F(x) ==
        CASE x = "TAB" -> 9 [] x = "LF" -> 10 [] x = "CR" -> 13 [] x = "SP" -> 32
          [] x = "+" -> 43 [] x = "2" -> 50 [] x = "<" -> 60 [] x = "=" -> 61
          [] x = ">" -> 62 [] x = "@" -> 64 [] x = "A" -> 65 [] x = "a" -> 97
          [] x = "DEL" -> 127 [] x = "oslash" -> 248
<1>1. CodePoint = [x \in Characters |-> F(x)]
  BY Zenon DEF CodePoint
<1>2. /\ F("TAB") = 9 /\ F("LF") = 10 /\ F("CR") = 13 /\ F("SP") = 32 /\ F("+") = 43
      /\ F("2") = 50 /\ F("<") = 60 /\ F("=") = 61 /\ F(">") = 62 /\ F("@") = 64
      /\ F("A") = 65 /\ F("a") = 97 /\ F("DEL") = 127 /\ F("oslash") = 248
  OBVIOUS
<1> HIDE DEF F
<1>3. \A x \in Characters : CodePoint[x] = F(x)
  BY <1>1
<1>4. /\ "TAB" \in Characters /\ "LF" \in Characters /\ "CR" \in Characters /\ "SP" \in Characters
      /\ "+" \in Characters /\ "2" \in Characters /\ "<" \in Characters /\ "=" \in Characters
      /\ ">" \in Characters /\ "@" \in Characters /\ "A" \in Characters /\ "a" \in Characters
      /\ "DEL" \in Characters /\ "oslash" \in Characters
  BY DEF Characters
<1> QED
  BY <1>2, <1>3, <1>4

\* Every character is a byte, and those of the end of a line are below 33.
LEMMA CodePoints ==
    ASSUME NEW c \in Characters
    PROVE  /\ CodePoint[c] \in 0 .. 255
           /\ c \in {"CR", "LF"} => CodePoint[c] < 33
BY CodePointIs DEF Characters

\* The digits {:X} writes are no CR and no LF.
LEMMA HexPlain ==
    ASSUME NEW n \in 0 .. 255
    PROVE  Hex(n) \in Seq(Plain)
<1>1. \A i \in 1 .. 16 : HexDigits[i] \in Plain
  <2> DEFINE h == HexDigits
  <2>1. \A i \in 1 .. 16 : h[i] \in {"0", "1", "2", "3", "4", "5", "6", "7", "8", "9", "A", "B", "C", "D", "E", "F"}
    BY DEF HexDigits
  <2>2. DOMAIN h = 1 .. 16
    BY DEF HexDigits
  <2> HIDE DEF h
  <2>3. \A i \in 1 .. 16 : h[i] \in ToSet(h)
    BY <2>2 DEF ToSet
  <2> QED
    BY <2>1, <2>3 DEF Plain, Tokens, h
<1>2. n \div 16 \in 0 .. 15 /\ n % 16 \in 0 .. 15
  OBVIOUS
<1>3. n < 16 => HexDigits[n + 1] \in Plain
  BY <1>1
<1>4. HexDigits[(n \div 16) + 1] \in Plain /\ HexDigits[(n % 16) + 1] \in Plain
  BY <1>1, <1>2
<1> QED
  BY <1>3, <1>4 DEF Hex

\* Nor is any other character.
LEMMA CharacterPlain ==
    ASSUME NEW c \in Characters, c \notin {"CR", "LF"}
    PROVE  c \in Plain
BY DEF Plain, Tokens

\* No value can end the line it is written in.
LEMMA XTextPlain ==
    ASSUME NEW value \in Seq(Characters)
    PROVE  XText(value) \in Seq(Plain)
<1> DEFINE piece(c) ==
             IF CodePoint[c] < 33 \/ c \in {"+", "="} THEN <<"+">> \o Hex(CodePoint[c]) ELSE <<c>>
           s == [i \in DOMAIN value |-> piece(value[i])]
<1>1. \A c \in Characters : piece(c) \in Seq(Plain)
  <2> TAKE c \in Characters
  <2>1. "+" \in Plain
    BY DEF Characters, Plain, Tokens
  <2>2. <<"+">> \in Seq(Plain) /\ Hex(CodePoint[c]) \in Seq(Plain)
    <3>1. <<"+">> \in Seq(Plain)
      BY <2>1
    <3>2. Hex(CodePoint[c]) \in Seq(Plain)
      BY CodePoints, HexPlain
    <3> QED
      BY <3>1, <3>2
  <2>3. <<"+">> \o Hex(CodePoint[c]) \in Seq(Plain)
    BY <2>2, ConcatProperties
  <2>4. ~(CodePoint[c] < 33) => <<c>> \in Seq(Plain)
    <3>1. ~(CodePoint[c] < 33) => c \in Plain
      BY CodePoints, CharacterPlain
    <3> QED
      BY <3>1
  <2> QED
    BY <2>3, <2>4
<1>2. XText(value) = FlattenSeq(s)
  BY DEF XText
<1>3. s \in Seq(Seq(Plain))
  <2>1. Len(value) \in Nat /\ DOMAIN value = 1 .. Len(value)
    BY LenProperties
  <2>2. \A i \in 1 .. Len(value) : piece(value[i]) \in Seq(Plain)
    <3>1. \A i \in 1 .. Len(value) : value[i] \in Characters
      BY ElementOfSeq
    <3> QED
      BY <1>1, <3>1
  <2> HIDE DEF piece
  <2> QED
    BY <2>1, <2>2
<1> QED
  BY <1>2, <1>3, FlattenType

\* A parameter is written without a CR or a LF, whatever its value.
LEMMA ParameterPlain ==
    ASSUME NEW p \in Params
    PROVE  Parameter(p) \in Seq(Plain)
<1>1. "=" \in Plain
  BY DEF Plain, Tokens
<1>2. CASE p \in FixedParameters
  <2>1. p.keyword \in Plain /\ p.value \in Seq(Plain) /\ p.value # <<>>
    <3>1. {"BODY", "8BITMIME", "7BIT", "SIZE", "2"} \subseteq Plain
      BY DEF Plain, Tokens, Characters
    <3>2. \/ p.keyword = "BODY" /\ p.value = <<"8BITMIME">>
          \/ p.keyword = "BODY" /\ p.value = <<"7BIT">>
          \/ p.keyword = "SIZE" /\ p.value = <<"2">>
      BY <1>2 DEF FixedParameters
    <3>3. /\ "BODY" \in Plain /\ "8BITMIME" \in Plain /\ "7BIT" \in Plain /\ "SIZE" \in Plain
          /\ "2" \in Plain
      BY <3>1
    <3>4. PICK x \in Plain : p.keyword \in Plain /\ p.value = <<x>>
      BY <3>2, <3>3
    <3>5. <<x>> \in Seq(Plain) /\ Len(<<x>>) = 1 /\ Len(<<>>) = 0
      OBVIOUS
    <3> QED
      BY <3>4, <3>5
  <2>2. <<p.keyword, "=">> \in Seq(Plain)
    BY <1>1, <2>1
  <2>3. <<p.keyword, "=">> \o p.value \in Seq(Plain)
    BY <2>1, <2>2, ConcatProperties
  <2> QED
    BY <1>2, <2>1, <2>3 DEF Parameter
<1>3. CASE p \notin FixedParameters
  <2>1. p.keyword \in Plain /\ p.value \in Seq(Characters)
    BY <1>3 DEF Params
  <2>2. <<p.keyword, "=">> \in Seq(Plain) /\ <<p.keyword>> \in Seq(Plain)
    BY <1>1, <2>1
  <2>3. <<p.keyword, "=">> \o XText(p.value) \in Seq(Plain)
    BY <2>1, <2>2, XTextPlain, ConcatProperties
  <2> QED
    BY <1>3, <2>2, <2>3 DEF Parameter
<1> QED
  BY <1>2, <1>3

\* So are all the parameters of a command.
LEMMA ParametersPlain ==
    ASSUME NEW cmd \in Written
    PROVE  Parameters(cmd) \in Seq(Plain)
<1> DEFINE piece(p) == <<"SP">> \o Parameter(p)
           s == [i \in DOMAIN cmd.params |-> piece(cmd.params[i])]
<1>1. cmd.params \in Seq(Params)
  BY DEF Written
<1>2. \A p \in Params : piece(p) \in Seq(Plain)
  <2> TAKE p \in Params
  <2>1. <<"SP">> \in Seq(Plain)
    <3>1. "SP" \in Plain
      BY DEF Plain, Tokens, Characters
    <3> QED
      BY <3>1
  <2> QED
    BY <2>1, ParameterPlain, ConcatProperties
<1>3. Parameters(cmd) = FlattenSeq(s)
  BY DEF Parameters
<1>4. s \in Seq(Seq(Plain))
  <2>1. Len(cmd.params) \in Nat /\ DOMAIN cmd.params = 1 .. Len(cmd.params)
    BY <1>1, LenProperties
  <2>2. \A i \in 1 .. Len(cmd.params) : piece(cmd.params[i]) \in Seq(Plain)
    <3>1. \A i \in 1 .. Len(cmd.params) : cmd.params[i] \in Params
      BY <1>1, ElementOfSeq
    <3> QED
      BY <1>2, <3>1
  <2> HIDE DEF piece
  <2> QED
    BY <2>1, <2>2
<1> QED
  BY <1>3, <1>4, FlattenType

\* A command is its verb and then no CR and no LF.
LEMMA WordsPlain ==
    ASSUME NEW cmd \in Written
    PROVE  Words(cmd) \in Seq(Plain) /\ Len(Words(cmd)) > 0 /\ Words(cmd)[1] = cmd.verb
<1>0. /\ cmd.verb \in Verbs /\ cmd.text \in Seq(Plain)
      /\ Parameters(cmd) \in Seq(Plain)
  BY ParametersPlain DEF Written
<1>1. /\ Verbs \subseteq Plain
      /\ {"SP", "FROM:", "TO:", "<", ">", "[", "]", "IPv6:"} \subseteq Plain
  BY DEF Plain, Tokens, Characters, Verbs, BareVerbs, TextVerbs
<1>2. ASSUME NEW head \in Seq(Plain), NEW rest \in Seq(Plain), Len(head) > 0, head[1] = cmd.verb
      PROVE  /\ head \o rest \in Seq(Plain) /\ Len(head \o rest) > 0
             /\ (head \o rest)[1] = cmd.verb
  <2>1. /\ Len(head) \in Nat /\ Len(rest) \in Nat
        /\ head \o rest \in Seq(Plain) /\ Len(head \o rest) = Len(head) + Len(rest)
        /\ \A i \in 1 .. Len(head) + Len(rest) :
              (head \o rest)[i] = IF i <= Len(head) THEN head[i] ELSE rest[i - Len(head)]
    BY LenProperties, ConcatProperties
  <2> QED
    BY <1>2, <2>1
<1>3. CASE cmd.verb \in BareVerbs
  <2>1. Words(cmd) = <<cmd.verb>>
    BY <1>3 DEF Words, TextVerbs, BareVerbs
  <2> QED
    BY <1>0, <1>1, <2>1
<1>4. CASE cmd.verb \in TextVerbs
  <2>1. Words(cmd) = <<cmd.verb>> \o Argument(cmd)
    BY <1>4 DEF Words, TextVerbs, BareVerbs
  <2>2. Argument(cmd) \in Seq(Plain)
    <3>1. <<"SP">> \in Seq(Plain)
      BY <1>1
    <3>2. <<"SP">> \o cmd.text \in Seq(Plain)
      BY <1>0, <3>1, ConcatProperties
    <3>3. <<>> \in Seq(Plain)
      BY EmptySeq
    <3> QED
      BY <3>2, <3>3 DEF Argument
  <2>3. <<cmd.verb>> \in Seq(Plain) /\ Len(<<cmd.verb>>) > 0 /\ <<cmd.verb>>[1] = cmd.verb
    BY <1>0, <1>1
  <2> QED
    BY <1>2, <2>1, <2>2, <2>3
<1>5. CASE cmd.verb = "EHLO"
  <2>1. Words(cmd) = <<"EHLO", "SP">> \o ClientId(cmd.kind, cmd.text)
    BY <1>5 DEF Words, TextVerbs, BareVerbs
  <2>2. ClientId(cmd.kind, cmd.text) \in Seq(Plain)
    <3>1. <<"[">> \in Seq(Plain) /\ <<"]">> \in Seq(Plain) /\ <<"[", "IPv6:">> \in Seq(Plain)
      BY <1>1
    <3>2. /\ <<"[">> \o cmd.text \in Seq(Plain)
          /\ <<"[", "IPv6:">> \o cmd.text \in Seq(Plain)
      BY <1>0, <3>1, ConcatProperties
    <3>3. /\ <<"[">> \o cmd.text \o <<"]">> \in Seq(Plain)
          /\ <<"[", "IPv6:">> \o cmd.text \o <<"]">> \in Seq(Plain)
      BY <3>1, <3>2, ConcatProperties
    <3> QED
      BY <1>0, <3>3 DEF ClientId
  <2>3. <<"EHLO", "SP">> \in Seq(Plain) /\ Len(<<"EHLO", "SP">>) > 0 /\ <<"EHLO", "SP">>[1] = cmd.verb
    BY <1>0, <1>1, <1>5
  <2> QED
    BY <1>2, <2>1, <2>2, <2>3
<1>6. CASE cmd.verb \in {"MAIL", "RCPT"}
  <2> DEFINE head == <<cmd.verb, "SP", IF cmd.verb = "MAIL" THEN "FROM:" ELSE "TO:", "<">>
  <2>1. Words(cmd) = head \o cmd.text \o <<">">> \o Parameters(cmd)
    BY <1>6 DEF Words, TextVerbs, BareVerbs
  <2>2. head \in Seq(Plain) /\ Len(head) > 0 /\ head[1] = cmd.verb /\ <<">">> \in Seq(Plain)
    BY <1>0, <1>1
  <2> HIDE DEF head
  <2>3. /\ head \o cmd.text \in Seq(Plain) /\ Len(head \o cmd.text) > 0
        /\ (head \o cmd.text)[1] = cmd.verb
    BY <1>0, <1>2, <2>2
  <2>4. /\ head \o cmd.text \o <<">">> \in Seq(Plain) /\ Len(head \o cmd.text \o <<">">>) > 0
        /\ (head \o cmd.text \o <<">">>)[1] = cmd.verb
    BY <1>2, <2>2, <2>3
  <2> QED
    BY <1>0, <1>2, <2>1, <2>4
<1> QED
  BY <1>0, <1>3, <1>4, <1>5, <1>6 DEF Verbs

\* Its end is the only one.
LEMMA DisplayEnds ==
    ASSUME NEW cmd \in Written
    PROVE  LET n == Len(Words(cmd))
           IN  /\ n \in Nat \ {0}
               /\ Display(cmd) \in Seq(Tokens) /\ Len(Display(cmd)) = n + 2
               /\ Display(cmd)[1] = cmd.verb
               /\ \A i \in 1 .. n : Display(cmd)[i] = Words(cmd)[i] /\ Words(cmd)[i] \in Plain
               /\ Display(cmd)[n + 1] = "CR" /\ Display(cmd)[n + 2] = "LF"
<1> DEFINE w == Words(cmd)
           e == CRLF
           d == w \o e
<1>1. w \in Seq(Plain) /\ Len(w) \in Nat \ {0} /\ w[1] = cmd.verb
      /\ \A i \in 1 .. Len(w) : w[i] \in Plain
  BY WordsPlain, LenProperties, ElementOfSeq
<1>2. e \in Seq(Tokens) /\ Len(e) = 2 /\ e[1] = "CR" /\ e[2] = "LF"
  <2>1. "CR" \in Tokens /\ "LF" \in Tokens
    BY DEF Tokens, Characters
  <2> QED
    BY <2>1 DEF CRLF
<1>3. Display(cmd) = d
  BY DEF Display
<1> HIDE DEF w, e
<1>4. w \in Seq(Tokens)
  <2>1. Plain \subseteq Tokens
    BY DEF Plain
  <2> QED
    BY <1>1, <2>1, SeqMonotonic
<1>5. /\ d \in Seq(Tokens) /\ Len(d) = Len(w) + 2
      /\ \A i \in 1 .. Len(w) + 2 : d[i] = IF i <= Len(w) THEN w[i] ELSE e[i - Len(w)]
  <2>1. /\ d \in Seq(Tokens) /\ Len(d) = Len(w) + Len(e)
        /\ \A i \in 1 .. Len(w) + Len(e) : d[i] = IF i <= Len(w) THEN w[i] ELSE e[i - Len(w)]
    BY <1>2, <1>4, ConcatProperties
  <2> HIDE DEF d
  <2> QED
    BY <1>2, <2>1
<1> HIDE DEF d
<1>6. d[Len(w) + 1] = "CR" /\ d[Len(w) + 2] = "LF" /\ \A i \in 1 .. Len(w) : d[i] = w[i]
  BY <1>1, <1>2, <1>5
<1> QED
  BY <1>1, <1>3, <1>5, <1>6 DEF w

Commands == [cmd : Written, cut : BOOLEAN]

\* What is known of a command written.
LEMMA CommandType ==
    ASSUME NEW M \in Seq(Commands), NEW i \in 1 .. Len(M)
    PROVE  M[i].cmd \in Written /\ M[i].cut \in BOOLEAN
<1>1. M[i] \in Commands
  BY ElementOfSeq
<1> QED
  BY <1>1 DEF Commands

-----------------------------------------------------------------------------
(* Where commands lie in the text *)

\* The texts of the commands M, one after the other, are `all`; cut[i] tokens come
\* before the i-th.  A whole one is all there, of one cut short a first part.
Laid(M, all, cut) ==
    /\ all \in Seq(Tokens)
    /\ cut \in [1 .. Len(M) + 1 -> 0 .. Len(all)]
    /\ cut[1] = 0
    /\ cut[Len(M) + 1] = Len(all)
    /\ \A i, j \in 1 .. Len(M) + 1 : i < j => cut[i] < cut[j]
    /\ \A i \in 1 .. Len(M) :
        /\ M[i].cut => cut[i + 1] - cut[i] < Len(Display(M[i].cmd))
        /\ ~M[i].cut => cut[i + 1] - cut[i] = Len(Display(M[i].cmd))
        /\ \A j \in 1 .. cut[i + 1] - cut[i] : all[cut[i] + j] = Display(M[i].cmd)[j]

\* How many of the first i commands are whole.
WholeTo(M, i) == {k \in 1 .. i : ~M[k].cut}
Rank(M, i) == Cardinality(WholeTo(M, i))

\* c is what a server reads in the n-th line, which is among the first m commands.
Line(M, all, cut, m, n, c) ==
    \E b, e \in 1 .. m :
        /\ b <= e /\ ~M[e].cut /\ \A k \in b .. e - 1 : M[k].cut
        /\ b = 1 \/ ~M[b - 1].cut
        /\ Rank(M, e) = n
        /\ c = ReadCommand(SubSeq(all, cut[b] + 1, cut[e + 1] - 2))

\* A rank is a natural number.
LEMMA RankType ==
    ASSUME NEW M, NEW i \in Nat
    PROVE  IsFiniteSet(WholeTo(M, i)) /\ Rank(M, i) \in Nat
<1>1. WholeTo(M, i) \in SUBSET (1 .. i)
  BY DEF WholeTo
<1>2. IsFiniteSet(1 .. i)
  BY FS_Interval
<1>3. IsFiniteSet(WholeTo(M, i))
  BY <1>1, <1>2, FS_Subset
<1> QED
  BY <1>3, FS_CardinalityType DEF Rank

\* Ranks grow, and with every whole command strictly.
LEMMA RankMonotone ==
    ASSUME NEW M, NEW i \in Nat, NEW j \in Nat, i <= j
    PROVE  /\ Rank(M, i) <= Rank(M, j)
           /\ i < j /\ ~M[j].cut => Rank(M, i) < Rank(M, j)
<1>1. IsFiniteSet(WholeTo(M, j)) /\ Rank(M, i) \in Nat /\ Rank(M, j) \in Nat
  BY RankType
<1>2. WholeTo(M, i) \in SUBSET WholeTo(M, j)
  BY DEF WholeTo
<1>3. Rank(M, i) <= Rank(M, j) /\ (Rank(M, i) = Rank(M, j) => WholeTo(M, i) = WholeTo(M, j))
  BY <1>1, <1>2, FS_Subset DEF Rank
<1>4. i < j /\ ~M[j].cut => WholeTo(M, i) # WholeTo(M, j)
  <2>1. ~M[j].cut /\ i < j => j \in WholeTo(M, j)
    BY DEF WholeTo
  <2>2. i < j => j \notin WholeTo(M, i)
    BY DEF WholeTo
  <2> QED
    BY <2>1, <2>2
<1> QED
  BY <1>1, <1>3, <1>4

\* The next whole command has the next rank.
LEMMA RankNext ==
    ASSUME NEW M, NEW m \in Nat, NEW e \in Nat, m < e, ~M[e].cut,
           \A k \in m + 1 .. e - 1 : M[k].cut
    PROVE  Rank(M, e) = Rank(M, m) + 1
<1>1. WholeTo(M, e) = WholeTo(M, m) \cup {e}
  <2>1. ASSUME NEW k \in 1 .. e, ~M[k].cut PROVE k \in 1 .. m \/ k = e
    <3>1. k \in m + 1 .. e - 1 => FALSE
      BY <2>1
    <3> QED
      BY <3>1
  <2> QED
    BY <2>1 DEF WholeTo
<1>2. e \notin WholeTo(M, m)
  BY DEF WholeTo
<1>3. IsFiniteSet(WholeTo(M, m))
  BY RankType
<1>4. Cardinality(WholeTo(M, m) \cup {e}) = Cardinality(WholeTo(M, m)) + 1
  BY <1>2, <1>3, FS_AddElement
<1> QED
  BY <1>1, <1>4 DEF Rank

\* Ranks depend on which commands are cut short, and on nothing else.
LEMMA RankSame ==
    ASSUME NEW M, NEW N, NEW i \in Nat, \A k \in 1 .. i : M[k].cut = N[k].cut
    PROVE  Rank(M, i) = Rank(N, i)
<1>1. WholeTo(M, i) = WholeTo(N, i)
  BY DEF WholeTo
<1> QED
  BY <1>1 DEF Rank

\* A part of a text that two texts share.
LEMMA SubSeqSame ==
    ASSUME NEW s \in Seq(Tokens), NEW t \in Seq(Tokens), NEW a \in Nat \ {0}, NEW b \in Int,
           b <= Len(s), b <= Len(t), \A i \in 1 .. b : s[i] = t[i]
    PROVE  SubSeq(s, a, b) = SubSeq(t, a, b)
<1>1. Len(s) \in Nat /\ Len(t) \in Nat
  BY LenProperties
<1>2. /\ SubSeq(s, a, b) \in Seq(Tokens) /\ SubSeq(t, a, b) \in Seq(Tokens)
      /\ Len(SubSeq(s, a, b)) = Len(SubSeq(t, a, b))
      /\ \A i \in 1 .. Len(SubSeq(s, a, b)) : SubSeq(s, a, b)[i] = SubSeq(t, a, b)[i]
  OBVIOUS
<1> QED
  BY <1>2, SeqEqual

\* n places behind the first a, of l.
LEMMA Shifted ==
    ASSUME NEW a \in Nat, NEW n \in Nat, NEW l \in Nat, a + n <= l
    PROVE  \A j \in 1 .. n : a + j \in 1 .. l
OBVIOUS

\* What is read of the first m commands stays read when no more than later ones change.
LEMMA LineKept ==
    ASSUME NEW M \in Seq(Commands), NEW all, NEW cut, Laid(M, all, cut),
           NEW N \in Seq(Commands), NEW all2, NEW cut2, Laid(N, all2, cut2),
           NEW m \in Nat, m <= Len(M), m <= Len(N),
           \A i \in 1 .. m : M[i].cut = N[i].cut,
           \A i \in 1 .. m + 1 : cut[i] = cut2[i],
           \A i \in 1 .. cut[m + 1] : all[i] = all2[i],
           NEW n, NEW c, Line(M, all, cut, m, n, c)
    PROVE  Line(N, all2, cut2, m, n, c)
<1>1. PICK b \in 1 .. m, e \in 1 .. m :
        /\ b <= e /\ ~M[e].cut /\ \A k \in b .. e - 1 : M[k].cut
        /\ b = 1 \/ ~M[b - 1].cut
        /\ Rank(M, e) = n
        /\ c = ReadCommand(SubSeq(all, cut[b] + 1, cut[e + 1] - 2))
  BY DEF Line
<1>2. ~N[e].cut /\ (\A k \in b .. e - 1 : N[k].cut) /\ (b = 1 \/ ~N[b - 1].cut)
  <2>1. ~N[e].cut
    BY <1>1
  <2>2. \A k \in b .. e - 1 : N[k].cut
    <3>1. \A k \in b .. e - 1 : k \in 1 .. m
      OBVIOUS
    <3> QED
      BY <1>1, <3>1
  <2>3. b = 1 \/ ~N[b - 1].cut
    <3>1. b = 1 \/ b - 1 \in 1 .. m
      OBVIOUS
    <3> QED
      BY <1>1, <3>1
  <2> QED
    BY <2>1, <2>2, <2>3
<1>3. Rank(N, e) = n
  <2>1. \A k \in 1 .. e : M[k].cut = N[k].cut
    OBVIOUS
  <2> QED
    BY <1>1, <2>1, RankSame
<1>4. SubSeq(all, cut[b] + 1, cut[e + 1] - 2) = SubSeq(all2, cut2[b] + 1, cut2[e + 1] - 2)
  <2>1. cut2[b] = cut[b] /\ cut2[e + 1] = cut[e + 1]
    OBVIOUS
  <2>2. Len(M) \in Nat /\ Len(N) \in Nat /\ b \in 1 .. Len(M) + 1 /\ e + 1 \in 1 .. Len(M) + 1
        /\ m + 1 \in 1 .. Len(M) + 1 /\ m + 1 \in 1 .. Len(N) + 1 /\ e + 1 \in 1 .. Len(N) + 1
    BY LenProperties
  <2>3. /\ all \in Seq(Tokens) /\ all2 \in Seq(Tokens)
        /\ cut[b] \in Nat /\ cut[e + 1] \in Nat /\ cut[m + 1] \in Nat
        /\ cut[e + 1] <= Len(all) /\ cut2[e + 1] <= Len(all2) /\ cut[e + 1] <= cut[m + 1]
    <3>1. all \in Seq(Tokens) /\ all2 \in Seq(Tokens) /\ Len(all) \in Nat /\ Len(all2) \in Nat
      BY DEF Laid
    <3>2. cut[b] \in 0 .. Len(all) /\ cut[e + 1] \in 0 .. Len(all) /\ cut[m + 1] \in 0 .. Len(all)
          /\ cut2[e + 1] \in 0 .. Len(all2)
      BY <2>2 DEF Laid
    <3>3. e + 1 < m + 1 => cut[e + 1] < cut[m + 1]
      BY <2>2 DEF Laid
    <3> QED
      BY <3>1, <3>2, <3>3
  <2>4. \A i \in 1 .. cut[e + 1] - 2 : all[i] = all2[i]
    BY <2>3
  <2>5. PICK x \in Nat : x = cut[b] + 1
    BY <2>3
  <2>6. PICK y \in Int : y = cut[e + 1] - 2
    BY <2>3
  <2>7. x \in Nat \ {0} /\ y <= Len(all) /\ y <= Len(all2) /\ \A i \in 1 .. y : all[i] = all2[i]
    <3>1. Len(all) \in Nat /\ Len(all2) \in Nat
      BY <2>3
    <3>2. y <= Len(all) /\ y <= Len(all2)
      BY ONLY <2>1, <2>3, <2>6, <3>1
    <3>3. \A i \in 1 .. y : all[i] = all2[i]
      BY ONLY <2>4, <2>6
    <3>4. x \in Nat \ {0}
      BY ONLY <2>3, <2>5
    <3> QED
      BY ONLY <3>2, <3>3, <3>4
  <2>8. SubSeq(all, x, y) = SubSeq(all2, x, y)
    BY <2>3, <2>7, SubSeqSame
  <2> QED
    BY <2>1, <2>5, <2>6, <2>8
<1> QED
  BY <1>1, <1>2, <1>3, <1>4 DEF Line

\* Where commands lie: each has a place and is not empty.
LEMMA CutType ==
    ASSUME NEW M \in Seq(Commands), NEW all, NEW cut, Laid(M, all, cut)
    PROVE  /\ Len(M) \in Nat /\ Len(all) \in Nat
           /\ \A i \in 1 .. Len(M) + 1 : cut[i] \in Nat /\ cut[i] <= Len(all)
           /\ \A i \in 1 .. Len(M) : cut[i] \in Nat /\ cut[i + 1] \in Nat /\ cut[i] < cut[i + 1]
<1>1. Len(M) \in Nat
  OBVIOUS
<1>2. Len(all) \in Nat /\ cut \in [1 .. Len(M) + 1 -> 0 .. Len(all)]
  <2>1. all \in Seq(Tokens)
    BY DEF Laid
  <2>2. Len(all) \in Nat
    BY <2>1
  <2> QED
    BY <2>2 DEF Laid
<1>3. \A i \in 1 .. Len(M) + 1 : cut[i] \in Nat /\ cut[i] <= Len(all)
  BY <1>2
<1>4. \A i \in 1 .. Len(M) : i \in 1 .. Len(M) + 1 /\ i + 1 \in 1 .. Len(M) + 1 /\ i < i + 1
  BY <1>1
<1>5. \A i, j \in 1 .. Len(M) + 1 : i < j => cut[i] < cut[j]
  BY DEF Laid
<1> QED
  BY <1>1, <1>2, <1>3, <1>4, <1>5

\* Each token of the text is of one command.
LEMMA Within ==
    ASSUME NEW M \in Seq(Commands), NEW all, NEW cut, Laid(M, all, cut), NEW q \in 1 .. Len(all)
    PROVE  \E i \in 1 .. Len(M) : cut[i] < q /\ q <= cut[i + 1]
<1>0. /\ Len(M) \in Nat /\ Len(all) \in Nat /\ cut[1] = 0 /\ cut[Len(M) + 1] = Len(all)
      /\ \A i \in 1 .. Len(M) + 1 : cut[i] \in Nat
  BY CutType DEF Laid
<1> DEFINE T == {i \in 1 .. Len(M) + 1 : q <= cut[i]}
<1>1. T \subseteq Nat /\ T # {}
  <2>1. Len(M) + 1 \in T
    BY <1>0
  <2> QED
    BY <2>1
<1>2. PICK i : i = Min(T)
  OBVIOUS
<1>3. i \in 1 .. Len(M) + 1 /\ q <= cut[i] /\ \A k \in 1 .. Len(M) + 1 : q <= cut[k] => i <= k
  BY <1>1, <1>2, Least
<1>4. i # 1
  BY <1>0, <1>3
<1>5. i - 1 \in 1 .. Len(M) /\ i - 1 \in 1 .. Len(M) + 1 /\ i - 1 + 1 = i
  BY <1>0, <1>3, <1>4
<1>6. cut[i - 1] < q
  BY <1>0, <1>3, <1>5
<1> QED
  BY <1>3, <1>5, <1>6

\* The end of a line is the end of a whole command.
LEMMA LineEnd ==
    ASSUME NEW M \in Seq(Commands), NEW all, NEW cut, Laid(M, all, cut),
           NEW q \in 1 .. Len(all), all[q] = "LF"
    PROVE  \E e \in 1 .. Len(M) : ~M[e].cut /\ cut[e + 1] = q
<1>1. PICK i \in 1 .. Len(M) : cut[i] < q /\ q <= cut[i + 1]
  BY Within
<1>2. M[i].cmd \in Written /\ M[i].cut \in BOOLEAN
  BY CommandType
<1>3. PICK n \in Nat \ {0} : n = Len(Words(M[i].cmd))
  BY <1>2, DisplayEnds
<1>4. PICK d : d = Display(M[i].cmd)
  OBVIOUS
<1>5. Len(d) = n + 2 /\ d[n + 1] = "CR" /\ \A j \in 1 .. n : d[j] \in Plain
  BY <1>2, <1>3, <1>4, DisplayEnds
<1>6. cut[i] \in Nat /\ cut[i + 1] \in Nat /\ q \in Nat
  BY CutType
<1>7. PICK j \in Nat : j = q - cut[i]
  BY <1>1, <1>6
<1>8. j \in 1 .. cut[i + 1] - cut[i] /\ cut[i] + j = q
  BY <1>1, <1>6, <1>7
<1>9. /\ M[i].cut => cut[i + 1] - cut[i] < n + 2
      /\ ~M[i].cut => cut[i + 1] - cut[i] = n + 2
      /\ all[cut[i] + j] = d[j]
  BY <1>4, <1>5, <1>8 DEF Laid
<1>10. d[j] = "LF"
  BY <1>8, <1>9
<1>11. j \notin 1 .. n /\ j # n + 1
  BY <1>5, <1>10 DEF Plain
<1>12. j >= n + 2
  BY <1>8, <1>11
<1>13. ~M[i].cut
  <2>1. SUFFICES ASSUME M[i].cut PROVE FALSE
    OBVIOUS
  <2>2. cut[i + 1] - cut[i] < n + 2
    BY <1>9, <2>1
  <2> QED
    BY <1>6, <1>8, <1>12, <2>2
<1>14. cut[i + 1] = q
  <2>1. cut[i + 1] - cut[i] = n + 2
    BY <1>9, <1>13
  <2> QED
    BY <1>6, <1>8, <1>12, <2>1
<1> QED
  BY <1>13, <1>14

\* A whole command ends a line.
LEMMA WholeEnds ==
    ASSUME NEW M \in Seq(Commands), NEW all, NEW cut, Laid(M, all, cut),
           NEW e \in 1 .. Len(M), ~M[e].cut
    PROVE  /\ cut[e] + 3 <= cut[e + 1]
           /\ all[cut[e + 1] - 1] = "CR" /\ all[cut[e + 1]] = "LF"
<1>2. M[e].cmd \in Written
  BY CommandType
<1>3. PICK n \in Nat \ {0} : n = Len(Words(M[e].cmd))
  BY <1>2, DisplayEnds
<1>4. PICK d : d = Display(M[e].cmd)
  OBVIOUS
<1>5. Len(d) = n + 2 /\ d[n + 1] = "CR" /\ d[n + 2] = "LF"
  BY <1>2, <1>3, <1>4, DisplayEnds
<1>6. PICK x \in Nat, y \in Nat : x = cut[e] /\ y = cut[e + 1]
  BY CutType
<1>7. y - x = n + 2 /\ \A j \in 1 .. y - x : all[x + j] = d[j]
  BY <1>4, <1>5, <1>6 DEF Laid
<1>8. n + 1 \in 1 .. y - x /\ n + 2 \in 1 .. y - x /\ x + (n + 1) = y - 1 /\ x + (n + 2) = y
  <2>1. y - x = n + 2
    BY <1>7
  <2> QED
    BY <2>1
<1>9. all[x + (n + 1)] = d[n + 1] /\ all[x + (n + 2)] = d[n + 2]
  BY <1>7, <1>8
<1>10. x + 3 <= y
  BY <1>7
<1>11. all[y - 1] = "CR" /\ all[y] = "LF"
  BY <1>5, <1>8, <1>9
<1> QED
  BY <1>6, <1>10, <1>11

\* N is M with one more command, and all2 the text with it.
More(M, all, cut, N, all2, cut2) ==
    /\ M \in Seq(Commands) /\ N \in Seq(Commands)
    /\ Laid(M, all, cut)
    /\ Len(N) = Len(M) + 1 /\ (\A i \in 1 .. Len(M) : N[i] = M[i]) /\ ~N[Len(N)].cut
    /\ all2 \in Seq(Tokens) /\ Len(all2) = Len(all) + Len(Display(N[Len(N)].cmd))
    /\ \A i \in 1 .. Len(all) : all2[i] = all[i]
    /\ \A i \in 1 .. Len(Display(N[Len(N)].cmd)) : all2[Len(all) + i] = Display(N[Len(N)].cmd)[i]
    /\ cut2 \in [1 .. Len(N) + 1 -> 0 .. Len(all2)] /\ cut2[Len(N) + 1] = Len(all2)
    /\ \A i \in 1 .. Len(M) + 1 : cut2[i] = cut[i]

\* Start: a text with one more command at its end is laid out, too.
LEMMA LaidMore ==
    ASSUME NEW M, NEW all, NEW cut, NEW N, NEW all2, NEW cut2,
           More(M, all, cut, N, all2, cut2)
    PROVE  Laid(N, all2, cut2)
<1> SUFFICES
      ASSUME M \in Seq(Commands), N \in Seq(Commands), Laid(M, all, cut),
             Len(N) = Len(M) + 1, \A i \in 1 .. Len(M) : N[i] = M[i], ~N[Len(N)].cut,
             all2 \in Seq(Tokens), Len(all2) = Len(all) + Len(Display(N[Len(N)].cmd)),
             \A i \in 1 .. Len(all) : all2[i] = all[i],
             \A i \in 1 .. Len(Display(N[Len(N)].cmd)) :
                all2[Len(all) + i] = Display(N[Len(N)].cmd)[i],
             cut2 \in [1 .. Len(N) + 1 -> 0 .. Len(all2)], cut2[Len(N) + 1] = Len(all2),
             \A i \in 1 .. Len(M) + 1 : cut2[i] = cut[i]
      PROVE  Laid(N, all2, cut2)
  BY DEF More
<1> PICK d : d = Display(N[Len(N)].cmd)
  OBVIOUS
<1> PICK m \in Nat, l \in Nat : m = Len(M) /\ l = Len(all)
  BY CutType
<1>1. N[Len(N)].cmd \in Written
  BY CommandType
<1>2. Len(d) \in Nat /\ Len(d) > 0
  <2>1. Len(Words(N[Len(N)].cmd)) \in Nat \ {0} /\ Len(d) = Len(Words(N[Len(N)].cmd)) + 2
    BY <1>1, DisplayEnds
  <2> QED
    BY <2>1
<1>3. cut[1] = 0 /\ cut[m + 1] = l /\ \A i, j \in 1 .. m + 1 : i < j => cut[i] < cut[j]
  BY DEF Laid
<1>4. Len(N) = m + 1 /\ \A i \in 1 .. m + 1 : cut[i] \in Nat /\ cut[i] <= l /\ cut2[i] = cut[i]
  BY CutType
<1>5. cut2[m + 2] = l + Len(d)
  OBVIOUS
<1>6. cut2[1] = 0
  BY <1>3, <1>4
<1>7. ASSUME NEW i \in 1 .. Len(N) + 1, NEW j \in 1 .. Len(N) + 1, i < j
      PROVE  cut2[i] < cut2[j]
  <2>1. CASE j \in 1 .. m + 1
    <3>1. i \in 1 .. m + 1
      BY <1>7, <2>1
    <3> QED
      BY <1>3, <1>4, <1>7, <2>1, <3>1
  <2>2. CASE j \notin 1 .. m + 1
    <3>1. j = m + 2 /\ i \in 1 .. m + 1
      BY <1>4, <1>7, <2>2
    <3>2. cut[i] \in Nat /\ cut[i] <= l /\ cut2[i] = cut[i] /\ cut2[j] = l + Len(d)
      BY <1>4, <1>5, <3>1
    <3> QED
      BY <1>2, <3>2
  <2> QED
    BY <2>1, <2>2
<1>8. ASSUME NEW i \in 1 .. Len(N)
      PROVE  /\ N[i].cut => cut2[i + 1] - cut2[i] < Len(Display(N[i].cmd))
             /\ ~N[i].cut => cut2[i + 1] - cut2[i] = Len(Display(N[i].cmd))
             /\ \A j \in 1 .. cut2[i + 1] - cut2[i] : all2[cut2[i] + j] = Display(N[i].cmd)[j]
  <2>1. CASE i \in 1 .. m
    <3>1. N[i] = M[i]
      BY <2>1
    <3>2. i \in 1 .. m + 1 /\ i + 1 \in 1 .. m + 1
      BY <2>1
    <3>3. cut2[i] = cut[i] /\ cut2[i + 1] = cut[i + 1] /\ cut[i] \in Nat /\ cut[i + 1] \in Nat
          /\ cut[i + 1] <= l
      BY <1>4, <3>2
    <3>4. /\ M[i].cut => cut[i + 1] - cut[i] < Len(Display(M[i].cmd))
          /\ ~M[i].cut => cut[i + 1] - cut[i] = Len(Display(M[i].cmd))
          /\ \A j \in 1 .. cut[i + 1] - cut[i] : all[cut[i] + j] = Display(M[i].cmd)[j]
      BY <2>1 DEF Laid
    <3>5. \A j \in 1 .. cut[i + 1] - cut[i] : all2[cut[i] + j] = all[cut[i] + j]
      <4>1. \A a, b, j \in Nat : b <= l /\ j \in 1 .. b - a => a + j \in 1 .. l
        BY ONLY l \in Nat
      <4>2. \A j \in 1 .. cut[i + 1] - cut[i] : cut[i] + j \in 1 .. l
        BY ONLY <3>3, <4>1
      <4>3. \A j \in 1 .. l : all2[j] = all[j]
        BY <1>4
      <4> QED
        BY ONLY <4>2, <4>3
    <3> QED
      BY ONLY <3>1, <3>3, <3>4, <3>5
  <2>2. CASE i \notin 1 .. m
    <3>1. i = m + 1 /\ i = Len(N)
      BY <1>4, <2>2
    <3>2. cut2[i] = l /\ cut2[i + 1] = l + Len(d)
      <4>1. i + 1 = m + 2 /\ i \in 1 .. m + 1
        BY <3>1
      <4> QED
        BY <1>3, <1>4, <1>5, <3>1, <4>1
    <3>3. cut2[i + 1] - cut2[i] = Len(d)
      BY <1>2, <3>2
    <3> QED
      BY <3>1, <3>2, <3>3
  <2> QED
    BY <2>1, <2>2
<1> QED
  BY <1>6, <1>7, <1>8 DEF Laid

\* N is the first n commands of M, or all with the last one cut short, and all2 the first
\* q tokens of the text.
Less(M, all, cut, n, q, N, all2, cut2) ==
    /\ M \in Seq(Commands) /\ N \in Seq(Commands)
    /\ Laid(M, all, cut)
    /\ n \in Nat /\ n <= Len(M) /\ q \in Nat /\ q <= Len(all) /\ cut[n + 1] <= q
    /\ Len(N) <= Len(M) /\ \A i \in 1 .. n : N[i] = M[i]
    /\ all2 \in Seq(Tokens) /\ Len(all2) = q /\ \A i \in 1 .. q : all2[i] = all[i]
    /\ cut2 \in [1 .. Len(N) + 1 -> 0 .. q] /\ \A i \in 1 .. n + 1 : cut2[i] = cut[i]
    /\ \/ Len(N) = n /\ q = cut[n + 1]
       \/ /\ Len(N) = n + 1 /\ cut[n + 1] < q /\ q < Len(all) /\ n + 1 = Len(M)
          /\ N[n + 1].cmd = M[n + 1].cmd /\ N[n + 1].cut /\ ~M[n + 1].cut
          /\ cut2[n + 2] = q

\* The last command taken back, or cut short.
LEMMA LaidLess ==
    ASSUME NEW M, NEW all, NEW cut, NEW n, NEW q, NEW N, NEW all2, NEW cut2,
           Less(M, all, cut, n, q, N, all2, cut2)
    PROVE  Laid(N, all2, cut2)
<1> SUFFICES
      ASSUME M \in Seq(Commands), N \in Seq(Commands), Laid(M, all, cut),
             n \in Nat, n <= Len(M), q \in Nat, q <= Len(all), cut[n + 1] <= q,
             Len(N) <= Len(M), \A i \in 1 .. n : N[i] = M[i],
             all2 \in Seq(Tokens), Len(all2) = q, \A i \in 1 .. q : all2[i] = all[i],
             cut2 \in [1 .. Len(N) + 1 -> 0 .. q], \A i \in 1 .. n + 1 : cut2[i] = cut[i],
             \/ Len(N) = n /\ q = cut[n + 1]
             \/ /\ Len(N) = n + 1 /\ cut[n + 1] < q /\ q < Len(all) /\ n + 1 = Len(M)
                /\ N[n + 1].cmd = M[n + 1].cmd /\ N[n + 1].cut /\ ~M[n + 1].cut
                /\ cut2[n + 2] = q
      PROVE  Laid(N, all2, cut2)
  BY DEF Less
<1> PICK m \in Nat, l \in Nat : m = Len(M) /\ l = Len(all)
  BY CutType
<1>3. cut[1] = 0 /\ cut[m + 1] = l /\ \A i, j \in 1 .. m + 1 : i < j => cut[i] < cut[j]
  BY DEF Laid
<1>4. \A i \in 1 .. n + 1 : i \in 1 .. m + 1 /\ cut[i] \in Nat /\ cut[i] <= cut[n + 1] /\ cut2[i] = cut[i]
  <2>1. \A i \in 1 .. n + 1 : i \in 1 .. m + 1 /\ (i = n + 1 \/ i < n + 1) /\ n + 1 \in 1 .. m + 1
    OBVIOUS
  <2>2. \A i \in 1 .. m + 1 : cut[i] \in Nat
    BY CutType
  <2> QED
    BY <1>3, <2>1, <2>2
<1>6. cut2[1] = 0
  BY <1>3, <1>4
<1>9. \A i, j \in 1 .. n + 1 : i < j => cut2[i] < cut2[j]
  BY <1>3, <1>4
<1>10. ASSUME NEW i \in 1 .. n
      PROVE  /\ N[i].cut => cut2[i + 1] - cut2[i] < Len(Display(N[i].cmd))
             /\ ~N[i].cut => cut2[i + 1] - cut2[i] = Len(Display(N[i].cmd))
             /\ \A j \in 1 .. cut2[i + 1] - cut2[i] : all2[cut2[i] + j] = Display(N[i].cmd)[j]
  <2>1. N[i] = M[i] /\ i \in 1 .. m
    OBVIOUS
  <2>2. i \in 1 .. n + 1 /\ i + 1 \in 1 .. n + 1
    OBVIOUS
  <2>3. cut2[i] = cut[i] /\ cut2[i + 1] = cut[i + 1] /\ cut[i] \in Nat /\ cut[i + 1] \in Nat
        /\ cut[i + 1] <= cut[n + 1]
    BY <1>4, <2>2
  <2>4. /\ M[i].cut => cut[i + 1] - cut[i] < Len(Display(M[i].cmd))
        /\ ~M[i].cut => cut[i + 1] - cut[i] = Len(Display(M[i].cmd))
        /\ \A j \in 1 .. cut[i + 1] - cut[i] : all[cut[i] + j] = Display(M[i].cmd)[j]
    BY <2>1 DEF Laid
  <2>5. \A j \in 1 .. cut[i + 1] - cut[i] : all2[cut[i] + j] = all[cut[i] + j]
    <3>0. PICK x \in Nat, y \in Nat : x = cut[i] /\ y = cut[i + 1] /\ y <= q
      <4>1. cut[n + 1] \in Nat /\ cut[n + 1] <= q
        BY <1>4
      <4> QED
        BY <2>3, <4>1
    <3>1. \A j \in 1 .. y - x : x + j \in 1 .. q
      <4>1. y <= q
        BY <3>0
      <4> TAKE j \in 1 .. y - x
      <4> QED
        BY <4>1
    <3>2. \A j \in 1 .. cut[i + 1] - cut[i] : cut[i] + j \in 1 .. q
      BY <3>0, <3>1
    <3> QED
      BY <3>2
  <2> QED
    BY <2>1, <2>3, <2>4, <2>5
<1>1. CASE Len(N) = n /\ q = cut[n + 1]
  <2>1. cut2[Len(N) + 1] = Len(all2)
    BY <1>1, <1>4
  <2>2. \A i, j \in 1 .. Len(N) + 1 : i < j => cut2[i] < cut2[j]
    BY <1>1, <1>9
  <2>3. cut2 \in [1 .. Len(N) + 1 -> 0 .. Len(all2)]
    OBVIOUS
  <2> QED
    BY <1>1, <1>6, <1>10, <2>1, <2>2, <2>3 DEF Laid
<1>2. CASE /\ Len(N) = n + 1 /\ cut[n + 1] < q /\ q < Len(all) /\ n + 1 = Len(M)
           /\ N[n + 1].cmd = M[n + 1].cmd /\ N[n + 1].cut /\ ~M[n + 1].cut
           /\ cut2[n + 2] = q
  <2>1. cut2[Len(N) + 1] = Len(all2)
    BY <1>2
  <2>2. ASSUME NEW i \in 1 .. Len(N) + 1, NEW j \in 1 .. Len(N) + 1, i < j
        PROVE  cut2[i] < cut2[j]
    <3>1. CASE j \in 1 .. n + 1
      <4>1. i \in 1 .. n + 1
        BY <2>2, <3>1
      <4> QED
        BY <1>9, <2>2, <3>1, <4>1
    <3>2. CASE j \notin 1 .. n + 1
      <4>1. j = n + 2 /\ i \in 1 .. n + 1 /\ n + 1 \in 1 .. n + 1
        BY <1>2, <2>2, <3>2
      <4>2. cut2[i] \in Nat /\ cut2[i] <= cut[n + 1] /\ cut[n + 1] \in Nat /\ cut2[j] = q
        BY <1>2, <1>4, <4>1
      <4> QED
        BY <1>2, <4>2
    <3> QED
      BY <3>1, <3>2
  <2>3. cut2 \in [1 .. Len(N) + 1 -> 0 .. Len(all2)]
    OBVIOUS
  <2>4. ASSUME NEW i \in 1 .. Len(N)
      PROVE  /\ N[i].cut => cut2[i + 1] - cut2[i] < Len(Display(N[i].cmd))
             /\ ~N[i].cut => cut2[i + 1] - cut2[i] = Len(Display(N[i].cmd))
             /\ \A j \in 1 .. cut2[i + 1] - cut2[i] : all2[cut2[i] + j] = Display(N[i].cmd)[j]
    <3>1. CASE i \in 1 .. n
      BY <1>10, <3>1
    <3>2. CASE i \notin 1 .. n
      <4>1. i = n + 1 /\ i \in 1 .. n + 1 /\ i \in 1 .. m /\ m = n + 1
        BY <1>2, <3>2
      <4>2. PICK x \in Nat : x = cut[i] /\ cut2[i] = x /\ x < q /\ cut2[i + 1] = q
        BY <1>2, <1>4, <4>1
      <4>3. cut[i + 1] = l
        BY <1>3, <4>1
      <4>4. PICK d : d = Display(M[i].cmd) /\ d = Display(N[i].cmd)
        BY <1>2, <4>1
      <4>5. l - x = Len(d) /\ \A j \in 1 .. l - x : all[x + j] = d[j]
        BY <1>2, <4>1, <4>2, <4>3, <4>4 DEF Laid
      <4>6. q - x < Len(d)
        <5>1. q < l
          BY <1>2
        <5> QED
          BY <4>5, <5>1
      <4>7. \A j \in 1 .. q - x : all2[x + j] = d[j]
        <5>1. \A j \in 1 .. q - x : x + j \in 1 .. q /\ j \in 1 .. l - x
          OBVIOUS
        <5> QED
          BY <4>5, <5>1
      <4>8. N[i].cut
        BY <1>2, <4>1
      <4> QED
        BY <4>2, <4>4, <4>6, <4>7, <4>8
    <3> QED
      BY <3>1, <3>2
  <2> QED
    BY <1>6, <2>1, <2>2, <2>3, <2>4 DEF Laid
<1> QED
  BY <1>1, <1>2

\* The first m commands are the same.
Agree(M, all, cut, N, all2, cut2, m) ==
    /\ M \in Seq(Commands) /\ N \in Seq(Commands)
    /\ Laid(M, all, cut) /\ Laid(N, all2, cut2)
    /\ m \in Nat /\ m <= Len(M) /\ m <= Len(N)
    /\ \A i \in 1 .. m : M[i].cut = N[i].cut
    /\ \A i \in 1 .. m + 1 : cut[i] = cut2[i]
    /\ \A i \in 1 .. cut[m + 1] : all[i] = all2[i]

\* Lines that were read stay read when later commands change.
LEMMA LinesKept ==
    ASSUME NEW M, NEW all, NEW cut, NEW N, NEW all2, NEW cut2, NEW m,
           Agree(M, all, cut, N, all2, cut2, m)
    PROVE  /\ Rank(N, m) = Rank(M, m)
           /\ \A n, c : Line(M, all, cut, m, n, c) => Line(N, all2, cut2, m, n, c)
<1>1. ASSUME NEW n, NEW c, Line(M, all, cut, m, n, c) PROVE Line(N, all2, cut2, m, n, c)
  BY <1>1, LineKept DEF Agree
<1>2. Rank(N, m) = Rank(M, m)
  BY RankSame DEF Agree
<1> QED
  BY <1>1, <1>2

\* The first tokens of a text.
LEMMA Prefix ==
    ASSUME NEW s \in Seq(Tokens), NEW q \in 0 .. Len(s)
    PROVE  /\ SubSeq(s, 1, q) \in Seq(Tokens) /\ Len(SubSeq(s, 1, q)) = q
           /\ \A i \in 1 .. q : SubSeq(s, 1, q)[i] = s[i]
OBVIOUS

\* Cut: one command is marked, and nothing else changes.
LEMMA CutShort ==
    ASSUME NEW M \in Seq(Commands), NEW n \in 1 .. Len(M),
           NEW N, N = [M EXCEPT ![n].cut = TRUE]
    PROVE  /\ N \in Seq(Commands) /\ Len(N) = Len(M)
           /\ \A i \in 1 .. Len(M) : i # n => N[i] = M[i]
           /\ N[n].cmd = M[n].cmd /\ N[n].cut = TRUE
<1>1. M[n] \in Commands
  BY ElementOfSeq
<1>2. PICK x : x = M[n]
  OBVIOUS
<1>3. PICK w : w = [x EXCEPT !.cut = TRUE]
  OBVIOUS
<1>4. w \in Commands /\ w.cmd = x.cmd /\ w.cut = TRUE
  BY <1>1, <1>2, <1>3 DEF Commands
<1>5. N = [M EXCEPT ![n] = w]
  BY <1>2, <1>3
<1>6. /\ [M EXCEPT ![n] = w] \in Seq(Commands) /\ Len([M EXCEPT ![n] = w]) = Len(M)
      /\ \A i \in 1 .. Len(M) : [M EXCEPT ![n] = w][i] = IF i = n THEN w ELSE M[i]
  BY <1>4, ExceptSeq
<1>7. /\ N \in Seq(Commands) /\ Len(N) = Len(M)
      /\ \A i \in 1 .. Len(M) : N[i] = IF i = n THEN w ELSE M[i]
  BY <1>5, <1>6, Zenon
<1> QED
  BY <1>2, <1>4, <1>7

\* Later commands lie behind earlier ones.
LEMMA CutOrder ==
    ASSUME NEW M \in Seq(Commands), NEW all, NEW cut, Laid(M, all, cut),
           NEW i \in 1 .. Len(M) + 1, NEW j \in 1 .. Len(M) + 1
    PROVE  /\ cut[i] \in Nat /\ cut[j] \in Nat
           /\ i < j => cut[i] < cut[j]
           /\ i <= j => cut[i] <= cut[j]
<1>1. cut[i] \in Nat /\ cut[j] \in Nat
  BY CutType
<1>2. i < j => cut[i] < cut[j]
  BY DEF Laid
<1>3. i <= j => i = j \/ i < j
  OBVIOUS
<1> QED
  BY <1>1, <1>2, <1>3

\* The first s tokens of S are those of `all` after the first m commands, and their
\* first CR LF is at i.
First(M, all, cut, m, S, s, i) ==
    /\ M \in Seq(Commands) /\ Laid(M, all, cut) /\ m \in 0 .. Len(M)
    /\ s \in Nat /\ i \in 1 .. s - 1 /\ cut[m + 1] + s <= Len(all)
    /\ \A j \in 1 .. s : S[j] = all[cut[m + 1] + j]
    /\ S[i + 1] = "LF"
    /\ \A j \in 1 .. s - 1 : S[j] = "CR" /\ S[j + 1] = "LF" => i <= j

\* The first CR LF after m commands is the end of the next whole one.
LEMMA NextLine ==
    ASSUME NEW M, NEW all, NEW cut, NEW m, NEW S, NEW s, NEW i, First(M, all, cut, m, S, s, i)
    PROVE  \E e \in 1 .. Len(M) :
              /\ m < e /\ ~M[e].cut /\ cut[e + 1] = cut[m + 1] + i + 1
              /\ \A k \in m + 1 .. e - 1 : M[k].cut
<1> SUFFICES
      ASSUME M \in Seq(Commands), Laid(M, all, cut), m \in 0 .. Len(M),
             s \in Nat, i \in 1 .. s - 1, cut[m + 1] + s <= Len(all)
      PROVE  \E e \in 1 .. Len(M) :
                /\ m < e /\ ~M[e].cut /\ cut[e + 1] = cut[m + 1] + i + 1
                /\ \A k \in m + 1 .. e - 1 : M[k].cut
  BY DEF First
<1>1. PICK L \in Nat, l \in Nat : L = Len(M) /\ l = Len(all)
  BY CutType
<1>2. PICK p \in Nat : p = cut[m + 1]
  <2>1. m + 1 \in 1 .. Len(M) + 1
    BY <1>1
  <2> QED
    BY <2>1, CutType
<1>3. p + s <= l
  BY <1>1, <1>2
<1>4. PICK q \in Nat : q = p + (i + 1)
  OBVIOUS
<1>5. q \in 1 .. l /\ i + 1 \in 1 .. s
  BY <1>3, <1>4
<1>6. all[q] = "LF"
  BY <1>2, <1>4, <1>5 DEF First
<1>7. PICK e \in 1 .. Len(M) : ~M[e].cut /\ cut[e + 1] = q
  BY <1>1, <1>5, <1>6, LineEnd
<1>8. e \in 1 .. L /\ e + 1 \in 1 .. L + 1 /\ m \in 0 .. L /\ m + 1 \in 1 .. L + 1
  BY <1>1
<1>9. m < e
  <2>1. SUFFICES ASSUME e <= m PROVE FALSE
    BY <1>8
  <2>2. e + 1 <= m + 1
    BY <1>8, <2>1
  <2>3. q <= p
    BY <1>1, <1>2, <1>7, <1>8, <2>2, CutOrder
  <2> QED
    BY <1>4, <2>3
<1>10. ASSUME NEW k \in m + 1 .. e - 1, ~M[k].cut PROVE FALSE
  <2>1. k \in 1 .. L /\ k \in 1 .. L + 1 /\ k + 1 \in 1 .. L + 1 /\ k + 1 < e + 1 /\ m + 1 <= k
    BY <1>8
  <2>2. PICK y \in Nat, x \in Nat : y = cut[k + 1] /\ x = cut[k]
    BY <1>1, <2>1, CutOrder
  <2>3. x + 3 <= y /\ all[y - 1] = "CR" /\ all[y] = "LF"
    BY <1>1, <1>10, <2>1, <2>2, WholeEnds
  <2>4. y < q
    BY <1>1, <1>7, <1>8, <2>1, <2>2, CutOrder
  <2>5. p <= x
    BY <1>1, <1>2, <1>8, <2>1, <2>2, CutOrder
  <2>6. PICK j \in Int : j = y - 1 - p
    OBVIOUS
  <2>7. x + 3 <= y
    BY <2>3
  <2>8. j \in 1 .. s - 1 /\ j \in 1 .. s /\ j + 1 \in 1 .. s /\ p + j = y - 1 /\ p + (j + 1) = y /\ j < i
    BY <1>4, <2>4, <2>5, <2>6, <2>7
  <2>9. S[j] = all[p + j] /\ S[j + 1] = all[p + (j + 1)]
    BY <1>2, <2>8 DEF First
  <2>10. S[j] = "CR" /\ S[j + 1] = "LF"
    BY <2>3, <2>8, <2>9
  <2>11. i <= j
    BY <2>8, <2>10 DEF First
  <2> QED
    BY <2>8, <2>11
<1>11. \A k \in m + 1 .. e - 1 : M[k].cut
  BY <1>10
<1>12. cut[e + 1] = cut[m + 1] + i + 1
  <2>1. q = p + i + 1
    BY <1>4
  <2> QED
    BY <1>2, <1>7, <2>1
<1> QED
  BY <1>7, <1>9, <1>11, <1>12

\* Some tokens of the text, on their own.
LEMMA Same ==
    ASSUME NEW s \in Seq(Tokens), NEW t \in Seq(Tokens), NEW n \in Nat, NEW p \in Nat,
           n <= Len(s), p + n <= Len(t), \A j \in 1 .. n : s[j] = t[p + j]
    PROVE  SubSeq(s, 1, n) = SubSeq(t, p + 1, p + n) /\ SubSeq(s, 1, n) \in Seq(Tokens)
<1>1. Len(s) \in Nat /\ Len(t) \in Nat
  BY LenProperties
<1>2. \A j \in 1 .. n : s[j] \in Tokens
  OBVIOUS
<1>3. \A j \in p + 1 .. p + n : t[j] \in Tokens
  OBVIOUS
<1>4. /\ SubSeq(s, 1, n) \in Seq(Tokens) /\ Len(SubSeq(s, 1, n)) = n
      /\ \A j \in 1 .. n : SubSeq(s, 1, n)[j] = s[j]
  OBVIOUS
<1>5. /\ SubSeq(t, p + 1, p + n) \in Seq(Tokens) /\ Len(SubSeq(t, p + 1, p + n)) = n
      /\ \A j \in 1 .. n : SubSeq(t, p + 1, p + n)[j] = t[p + j]
  <2>1. p + 1 \in Int /\ p + n \in Int /\ (p + n) - (p + 1) + 1 = n
    OBVIOUS
  <2>2. /\ SubSeq(t, p + 1, p + n) \in Seq(Tokens)
        /\ Len(SubSeq(t, p + 1, p + n)) = n
    OBVIOUS
  <2>3. \A j \in 1 .. n : SubSeq(t, p + 1, p + n)[j] = t[p + j]
    OBVIOUS
  <2> QED
    BY <2>2, <2>3
<1> QED
  BY <1>4, <1>5, SeqEqual

\* A line of the first m commands is one of more.
LEMMA LineMore ==
    ASSUME NEW M, NEW all, NEW cut, NEW m \in Nat, NEW e \in Nat, m <= e, NEW n, NEW c,
           Line(M, all, cut, m, n, c)
    PROVE  Line(M, all, cut, e, n, c)
<1>1. 1 .. m \subseteq 1 .. e
  OBVIOUS
<1> QED
  BY <1>1 DEF Line

-----------------------------------------------------------------------------
(* Split *)

\* The elements of E before e, and the one with k before it.
Before(E, e) == {d \in E : d < e}
At(E, k) == CHOOSE e \in E : Cardinality(Before(E, e)) = k

\* The ends before one are finitely many.
LEMMA BeforeFinite ==
    ASSUME NEW E, IsFiniteSet(E), NEW e
    PROVE  IsFiniteSet(Before(E, e)) /\ Cardinality(Before(E, e)) \in Nat
<1>1. Before(E, e) \in SUBSET E
  BY DEF Before
<1>2. IsFiniteSet(Before(E, e))
  BY <1>1, FS_Subset
<1> QED
  BY <1>2, FS_CardinalityType

\* A later end has more ends before it.
LEMMA BeforeMore ==
    ASSUME NEW E \in SUBSET Nat, IsFiniteSet(E), NEW d \in E, NEW e \in E, d < e
    PROVE  Cardinality(Before(E, d)) < Cardinality(Before(E, e))
<1>1. Before(E, d) \in SUBSET Before(E, e) /\ d \in Before(E, e) /\ d \notin Before(E, d)
  <2>1. \A x \in E : x < d => x < e
    BY SMT
  <2>2. d \in Nat /\ ~(d < d)
    OBVIOUS
  <2> QED
    BY <2>1, <2>2 DEF Before
<1>2. IsFiniteSet(Before(E, e)) /\ Cardinality(Before(E, e)) \in Nat /\ Cardinality(Before(E, d)) \in Nat
  BY BeforeFinite
<1>3. /\ Cardinality(Before(E, d)) <= Cardinality(Before(E, e))
      /\ Cardinality(Before(E, e)) = Cardinality(Before(E, d)) => Before(E, e) = Before(E, d)
  BY <1>1, <1>2, FS_Subset
<1> QED
  BY <1>1, <1>2, <1>3

\* The end with as many before it as e has is e.
LEMMA AtIs ==
    ASSUME NEW E \in SUBSET Nat, IsFiniteSet(E), NEW e \in E
    PROVE  At(E, Cardinality(Before(E, e))) = e
<1>1. ASSUME NEW d \in E, Cardinality(Before(E, d)) = Cardinality(Before(E, e)) PROVE d = e
  <2>1. Cardinality(Before(E, d)) \in Nat /\ Cardinality(Before(E, e)) \in Nat
    BY BeforeFinite
  <2>2. d < e => FALSE
    BY <1>1, <2>1, BeforeMore
  <2>3. e < d => FALSE
    BY <1>1, <2>1, BeforeMore
  <2> QED
    BY <2>2, <2>3
<1> QED
  BY <1>1 DEF At

\* There is a k-th end for every k below their number.
LEMMA AtExists ==
    ASSUME NEW E \in SUBSET Nat, IsFiniteSet(E), NEW k \in Nat, k < Cardinality(E)
    PROVE  At(E, k) \in E /\ Cardinality(Before(E, At(E, k))) = k
<1>1. PICK n \in Nat : n = Cardinality(E)
  BY FS_CardinalityType
<1>2. \A e \in E : Cardinality(Before(E, e)) \in 0 .. n - 1
  <2> TAKE e \in E
  <2>1. Before(E, e) \in SUBSET E /\ e \notin Before(E, e)
    BY DEF Before
  <2>2. /\ Cardinality(Before(E, e)) <= n
        /\ n = Cardinality(Before(E, e)) => E = Before(E, e)
    BY <1>1, <2>1, FS_Subset
  <2>3. Cardinality(Before(E, e)) \in Nat
    BY BeforeFinite
  <2> QED
    BY <2>1, <2>2, <2>3
<1>3. PICK f : f = [e \in E |-> Cardinality(Before(E, e))]
  OBVIOUS
<1>4. f \in [E -> 0 .. n - 1]
  BY <1>2, <1>3
<1>5. ASSUME NEW d \in E, NEW e \in E, f[d] = f[e] PROVE d = e
  <2>1. Cardinality(Before(E, d)) = Cardinality(Before(E, e))
    BY <1>3, <1>5
  <2>2. At(E, Cardinality(Before(E, d))) = d /\ At(E, Cardinality(Before(E, e))) = e
    BY AtIs
  <2> QED
    BY <2>1, <2>2
<1>6. f \in Injection(E, 0 .. n - 1)
  BY <1>4, <1>5 DEF Injection, IsInjective
<1>7. IsFiniteSet(0 .. n - 1) /\ Cardinality(0 .. n - 1) = n
  BY FS_Interval
<1>8. f \in Surjection(E, 0 .. n - 1)
  BY <1>1, <1>6, <1>7, FS_Injection
<1>9. k \in 0 .. n - 1
  BY <1>1
<1>10. PICK e \in E : f[e] = k
  BY <1>8, <1>9 DEF Surjection
<1>11. Cardinality(Before(E, e)) = k
  BY <1>3, <1>10
<1> QED
  BY <1>11 DEF At

\* The next element has one more before it.
LEMMA BeforeNext ==
    ASSUME NEW E \in SUBSET Nat, IsFiniteSet(E), NEW d \in E, NEW e \in E, d < e,
           \A x \in E : ~(d < x /\ x < e)
    PROVE  Cardinality(Before(E, e)) = Cardinality(Before(E, d)) + 1
<1>1. Before(E, e) = Before(E, d) \cup {d}
  <2>1. ASSUME NEW x \in E, x < e PROVE x < d \/ x = d
    BY <2>1
  <2>2. ASSUME NEW x \in E, x < d PROVE x < e
    BY <2>2
  <2> QED
    BY <2>1, <2>2 DEF Before
<1>2. IsFiniteSet(Before(E, d)) /\ d \notin Before(E, d)
  BY BeforeFinite DEF Before
<1> QED
  BY <1>1, <1>2, FS_AddElement

\* Where the pieces of a text end.
Ends(text, separator) == {0, Len(text) + 1} \cup {i \in DOMAIN text : text[i] = separator}

\* The ends of the pieces of a text are finitely many places in it.
LEMMA EndsType ==
    ASSUME NEW text \in Seq(Tokens), NEW separator
    PROVE  /\ Ends(text, separator) \in SUBSET Nat /\ IsFiniteSet(Ends(text, separator))
           /\ Cardinality(Ends(text, separator)) \in Nat
           /\ DOMAIN text = 1 .. Len(text) /\ Len(text) \in Nat
<1>1. DOMAIN text = 1 .. Len(text) /\ Len(text) \in Nat
  BY LenProperties
<1>2. Ends(text, separator) \in SUBSET (0 .. Len(text) + 1)
  BY <1>1 DEF Ends
<1>3. IsFiniteSet(0 .. Len(text) + 1)
  BY <1>1, FS_Interval
<1>4. IsFiniteSet(Ends(text, separator))
  BY <1>2, <1>3, FS_Subset
<1>5. 0 .. Len(text) + 1 \in SUBSET Nat
  OBVIOUS
<1> QED
  BY <1>1, <1>2, <1>4, <1>5, FS_CardinalityType

\* Split, in terms of its ends.
LEMMA SplitIs ==
    ASSUME NEW text, NEW separator
    PROVE  Split(text, separator) =
             [k \in 1 .. Cardinality(Ends(text, separator)) - 1 |->
                SubSeq(text, At(Ends(text, separator), k - 1) + 1, At(Ends(text, separator), k) - 1)]
BY DEF Split, Ends, At, Before

\* What is between two separators is a piece, and not the first if one is before it.
LEMMA SplitPiece ==
    ASSUME NEW text \in Seq(Tokens), NEW separator,
           NEW lo \in Ends(text, separator), NEW hi \in Ends(text, separator), lo < hi,
           \A x \in Ends(text, separator) : ~(lo < x /\ x < hi)
    PROVE  \E r \in 1 .. Cardinality(Ends(text, separator)) - 1 :
              /\ Split(text, separator)[r] = SubSeq(text, lo + 1, hi - 1)
              /\ lo > 0 => r >= 2
<1> PICK E : E = Ends(text, separator)
  OBVIOUS
<1>1. E \in SUBSET Nat /\ IsFiniteSet(E) /\ lo \in E /\ hi \in E
  BY EndsType
<1>2. PICK r \in Nat : r = Cardinality(Before(E, hi))
  BY <1>1, BeforeFinite
<1>3. PICK k \in Nat : k = Cardinality(Before(E, lo))
  BY <1>1, BeforeFinite
<1>4. r = k + 1
  BY <1>1, <1>2, <1>3, BeforeNext
<1>5. At(E, r) = hi /\ At(E, k) = lo
  BY <1>1, <1>2, <1>3, AtIs
<1>6. PICK n \in Nat : n = Cardinality(E)
  BY EndsType
<1>7. r < n
  <2>1. Before(E, hi) \in SUBSET E /\ hi \notin Before(E, hi)
    BY <1>1 DEF Before
  <2>2. r <= n /\ (n = r => E = Before(E, hi))
    BY <1>1, <1>2, <1>6, <2>1, FS_Subset
  <2> QED
    BY <1>1, <2>1, <2>2
<1>8. r \in 1 .. n - 1 /\ r - 1 = k
  BY <1>4, <1>7
<1>9. Split(text, separator)[r] = SubSeq(text, lo + 1, hi - 1)
  BY <1>5, <1>6, <1>8, SplitIs
<1>10. ASSUME lo > 0 PROVE r >= 2
  <2>1. 0 \in E
    BY DEF Ends
  <2>2. Cardinality(Before(E, 0)) < k /\ Cardinality(Before(E, 0)) \in Nat
    <3>1. 0 < lo
      BY <1>1, <1>10
    <3>2. Cardinality(Before(E, 0)) < Cardinality(Before(E, lo))
      BY <1>1, <2>1, <3>1, BeforeMore
    <3> QED
      BY <1>1, <1>3, <3>2, BeforeFinite
  <2> QED
    BY <1>4, <2>2
<1> QED
  BY <1>6, <1>8, <1>9, <1>10

\* Each piece is one, and one is before each but the first.
LEMMA SplitSource ==
    ASSUME NEW text \in Seq(Tokens), NEW separator,
           NEW r \in 1 .. Cardinality(Ends(text, separator)) - 1
    PROVE  \E lo, hi \in Ends(text, separator) :
              /\ Split(text, separator)[r] = SubSeq(text, lo + 1, hi - 1)
              /\ lo < hi
              /\ r >= 2 => lo > 0
<1> PICK E : E = Ends(text, separator)
  OBVIOUS
<1>1. E \in SUBSET Nat /\ IsFiniteSet(E)
  BY EndsType
<1>2. PICK n \in Nat : n = Cardinality(E)
  BY EndsType
<1>3. r \in Nat /\ r < n /\ r - 1 \in Nat /\ r - 1 < n
  BY <1>2
<1>4. PICK lo \in E : lo = At(E, r - 1) /\ Cardinality(Before(E, lo)) = r - 1
  BY <1>1, <1>2, <1>3, AtExists
<1>5. PICK hi \in E : hi = At(E, r) /\ Cardinality(Before(E, hi)) = r
  BY <1>1, <1>2, <1>3, AtExists
<1>6. lo < hi
  <2>1. lo \in Nat /\ hi \in Nat
    BY <1>1
  <2>2. hi < lo => r < r - 1
    BY <1>1, <1>4, <1>5, BeforeMore
  <2>3. hi = lo => r = r - 1
    BY <1>4, <1>5
  <2> QED
    BY <1>3, <2>1, <2>2, <2>3
<1>7. r >= 2 => lo > 0
  <2>1. SUFFICES ASSUME lo = 0 PROVE r - 1 = 0
    BY <1>1, <1>3
  <2>2. Before(E, lo) = {}
    <3>1. \A d \in E : ~(d < 0)
      BY <1>1
    <3> QED
      BY <2>1, <3>1 DEF Before
  <2> QED
    BY <1>4, <2>2, FS_EmptySet
<1>8. Split(text, separator)[r] = SubSeq(text, lo + 1, hi - 1)
  BY <1>4, <1>5, SplitIs
<1> QED
  BY <1>6, <1>7, <1>8

\* The separators on both sides of a token that is none.
LEMMA Around ==
    ASSUME NEW text \in Seq(Tokens), NEW separator, NEW x \in 1 .. Len(text), text[x] # separator
    PROVE  \E lo, hi \in Ends(text, separator) :
              lo < x /\ x < hi /\ \A y \in Ends(text, separator) : ~(lo < y /\ y < hi)
<1> PICK E : E = Ends(text, separator)
  OBVIOUS
<1>1. PICK l \in Nat : l = Len(text) /\ DOMAIN text = 1 .. l
  BY EndsType
<1>2. E \in SUBSET Nat /\ 0 \in E /\ l + 1 \in E /\ x \notin E /\ x \in Nat /\ x < l + 1
  BY <1>1, EndsType DEF Ends
<1> DEFINE A == {y \in E : x < y}
           B == {d \in Nat : d <= x /\ x - d \in E}
<1>3. Min(A) \in A /\ \A n \in A : Min(A) <= n
  <2>1. A \subseteq Nat /\ A # {}
    BY <1>2
  <2> HIDE DEF A
  <2> QED
    BY <2>1, Least
<1>4. Min(B) \in B /\ \A n \in B : Min(B) <= n
  <2>1. x \in B
    BY <1>2
  <2>2. B \subseteq Nat
    OBVIOUS
  <2> HIDE DEF B
  <2> QED
    BY <2>1, <2>2, Least
<1>5. PICK hi : hi = Min(A)
  OBVIOUS
<1>6. PICK b : b = Min(B)
  OBVIOUS
<1>7. hi \in E /\ x < hi /\ \A y \in E : x < y => hi <= y
  BY <1>3, <1>5
<1>8. b \in Nat /\ b <= x /\ x - b \in E /\ \A n \in B : b <= n
  BY <1>4, <1>6
<1>9. PICK lo \in E : lo = x - b
  BY <1>8
<1>10. lo < x
  BY <1>2, <1>8, <1>9
<1>11. ASSUME NEW y \in E, lo < y, y < hi PROVE FALSE
  <2>1. y \in Nat /\ hi \in Nat
    BY <1>2, <1>7
  <2>2. ~(x < y)
    BY <1>7, <1>11, <2>1
  <2>3. y # x
    BY <1>2
  <2>4. PICK d \in Nat : d = x - y
    BY <1>2, <2>1, <2>2
  <2>5. x - d = y /\ d <= x
    BY <1>2, <2>1, <2>4
  <2>6. d \in B
    BY <2>5
  <2>7. b <= d
    BY <1>8, <2>6
  <2> QED
    BY <1>2, <1>8, <1>9, <1>11, <2>1, <2>4, <2>7
<1> QED
  BY <1>7, <1>10, <1>11

\* A verb in a piece that begins with a keyword of `send`, or with the verb itself.
LEMMA VerbNoParameter ==
    ASSUME NEW w \in Seq(Tokens), NEW x \in 1 .. Len(w), w[x] \in Verbs,
           x = 1 \/ w[1] \in {"BODY", "SMTPUTF8"}
    PROVE  ~ReadParameter(w).ok
<1>1. w # <<>> /\ Len(w) \in Nat
  BY EmptySeq, LenProperties
<1>2. Verbs \cap ({"BODY", "SIZE", "SMTPUTF8", "="} \cup Encoded) = {}
  BY DEF Verbs, BareVerbs, TextVerbs, Encoded
<1>3. w[1] \notin Encoded
  BY <1>2 DEF Encoded
<1>4. w[1] \in {"BODY", "SIZE", "SMTPUTF8"} => x # 1
  BY <1>2
<1> DEFINE bad == [ok |-> FALSE, param |-> [keyword |-> w[1], value |-> <<>>]]
           p == [keyword |-> w[1], value |-> SubSeq(w, 3, Len(w))]
<1>5. \/ ReadParameter(w) = bad
      \/ Len(w) = 1 /\ w[1] = "SMTPUTF8"
      \/ /\ Len(w) > 2 /\ w[2] = "=" /\ w[1] \in {"BODY", "SIZE"}
         /\ ReadParameter(w) = [ok |-> p \in FixedParameters, param |-> p]
  BY <1>1, <1>3 DEF ReadParameter
<1>6. CASE ReadParameter(w) = bad
  BY <1>6
<1>7. CASE Len(w) = 1 /\ w[1] = "SMTPUTF8"
  BY <1>4, <1>7
<1>8. CASE /\ Len(w) > 2 /\ w[2] = "=" /\ w[1] \in {"BODY", "SIZE"}
           /\ ReadParameter(w) = [ok |-> p \in FixedParameters, param |-> p]
  <2>1. x # 1 /\ x # 2
    BY <1>2, <1>4, <1>8
  <2>2. x \in 3 .. Len(w)
    BY <2>1
  <2>3. SubSeq(w, 3, Len(w))[x - 2] = w[x]
    BY <2>2
  <2>4. p \notin FixedParameters
    <3>1. SUFFICES ASSUME p \in FixedParameters PROVE FALSE
      OBVIOUS
    <3>2. p.value \in {<<"8BITMIME">>, <<"7BIT">>, <<"2">>}
      BY <3>1 DEF FixedParameters
    <3>3. PICK v : v = SubSeq(w, 3, Len(w))
      OBVIOUS
    <3>4. v \in {<<"8BITMIME">>, <<"7BIT">>, <<"2">>}
      BY <3>2, <3>3
    <3>5. Len(v) = 1 /\ v[1] \in {"8BITMIME", "7BIT", "2"}
      <4>1. \A a : Len(<<a>>) = 1 /\ <<a>>[1] = a
        OBVIOUS
      <4> QED
        BY <3>4, <4>1
    <3>6. Len(v) = Len(w) - 2
      BY <1>1, <1>8, <3>3
    <3>7. x = 3 /\ x - 2 = 1
      <4>1. PICK n \in Nat : n = Len(w)
        BY <1>1
      <4>2. n - 2 = 1 /\ x \in 3 .. n
        BY <2>2, <3>5, <3>6, <4>1
      <4> QED
        BY <4>2
    <3>8. v[x - 2] = w[x]
      BY <2>3, <3>3
    <3>9. w[x] \in {"8BITMIME", "7BIT", "2"}
      BY <3>5, <3>7, <3>8
    <3> QED
      BY <3>9 DEF Verbs, BareVerbs, TextVerbs
  <2>5. [ok |-> p \in FixedParameters, param |-> p].ok = (p \in FixedParameters)
    BY Zenon
  <2> QED
    BY <1>8, <2>4, <2>5, Zenon
<1> QED
  BY <1>5, <1>6, <1>7, <1>8

\* What a parameter names is its first word.
LEMMA KeywordRead ==
    ASSUME NEW w, w # <<>>
    PROVE  ReadParameter(w).param.keyword = w[1]
<1>1. ASSUME NEW ok, NEW value
      PROVE  [ok |-> ok, param |-> [keyword |-> w[1], value |-> value]].param.keyword = w[1]
  OBVIOUS
<1>2. \E ok, value : ReadParameter(w) = [ok |-> ok, param |-> [keyword |-> w[1], value |-> value]]
  BY Zenon DEF ReadParameter
<1> QED
  BY <1>1, <1>2

\* The ">" a server takes for the end of a path.
Close(line) == SelectInSeq(line, LAMBDA c : c = ">")

\* The first ">" of a line, if there is one.
LEMMA CloseIs ==
    ASSUME NEW line \in Seq(Tokens)
    PROVE  \/ Close(line) = 0 /\ \A j \in 1 .. Len(line) : line[j] # ">"
           \/ /\ Close(line) \in 1 .. Len(line) /\ line[Close(line)] = ">"
              /\ \A j \in 1 .. Len(line) : line[j] = ">" => Close(line) <= j
<1> DEFINE I == {i \in 1 .. Len(line) : line[i] = ">"}
<1>1. Close(line) = IF I # {} THEN Min(I) ELSE 0
  BY DEF Close, SelectInSeq
<1>2. CASE I = {}
  BY <1>1, <1>2
<1>3. CASE I # {}
  <2>1. I \subseteq Nat
    OBVIOUS
  <2>2. Min(I) \in I /\ \A n \in I : Min(I) <= n
    <3> HIDE DEF I
    <3> QED
      BY <1>3, <2>1, Least
  <2>3. Close(line) \in I /\ \A n \in I : Close(line) <= n
    BY <1>1, <1>3, <2>2
  <2> QED
    BY <2>3
<1> QED
  BY <1>2, <1>3

\* A sequence of one.
LEMMA Single ==
    ASSUME NEW T, NEW a \in T
    PROVE  <<a>> \in Seq(T) /\ Len(<<a>>) = 1 /\ <<a>>[1] = a
OBVIOUS

\* A sequence of two.
LEMMA Pair ==
    ASSUME NEW T, NEW a \in T, NEW b \in T
    PROVE  <<a, b>> \in Seq(T) /\ Len(<<a, b>>) = 2 /\ <<a, b>>[1] = a /\ <<a, b>>[2] = b
OBVIOUS

\* What stands where when two texts are joined.
LEMMA Joined ==
    ASSUME NEW s \in Seq(Tokens), NEW t \in Seq(Tokens)
    PROVE  /\ Len(s) \in Nat /\ Len(t) \in Nat
           /\ s \o t \in Seq(Tokens) /\ Len(s \o t) = Len(s) + Len(t)
           /\ \A i \in 1 .. Len(s) : (s \o t)[i] = s[i]
           /\ \A i \in 1 .. Len(t) : (s \o t)[Len(s) + i] = t[i]
<1> PICK r : r = s \o t
  OBVIOUS
<1> PICK m \in Nat, n \in Nat : m = Len(s) /\ n = Len(t)
  BY LenProperties
<1>1. /\ r \in Seq(Tokens) /\ Len(r) = m + n
      /\ \A i \in 1 .. m + n : r[i] = IF i <= m THEN s[i] ELSE t[i - m]
  BY ConcatProperties
<1>2. \A i \in 1 .. m : i \in 1 .. m + n /\ i <= m
  OBVIOUS
<1>3. \A i \in 1 .. n : m + i \in 1 .. m + n /\ ~(m + i <= m) /\ m + i - m = i
  OBVIOUS
<1> QED
  BY <1>1, <1>2, <1>3

\* FlattenSeq of one sequence.
LEMMA FlattenOne ==
    ASSUME NEW T, NEW a \in Seq(T)
    PROVE  FlattenSeq(<<a>>) = a
<1> PICK s : s = <<a>>
  OBVIOUS
<1>1. s \in Seq(Seq(T)) /\ s # <<>> /\ Len(s) = 1 /\ s[1] = a
  OBVIOUS
<1>2. PICK g : Flat(s, T, Len(s), g) /\ FlattenSeq(s) = g[Len(s)]
  BY <1>1, FlattenIs
<1>3. g[1] = s[1]
  BY <1>1, <1>2 DEF Flat
<1> QED
  BY <1>1, <1>2, <1>3

\* FlattenSeq of two sequences.
LEMMA FlattenTwo ==
    ASSUME NEW T, NEW a \in Seq(T), NEW b \in Seq(T)
    PROVE  FlattenSeq(<<a, b>>) = a \o b
<1> PICK s : s = <<a, b>>
  OBVIOUS
<1>1. s \in Seq(Seq(T)) /\ s # <<>> /\ Len(s) = 2 /\ s[1] = a /\ s[2] = b
  OBVIOUS
<1>2. PICK g : Flat(s, T, 2, g) /\ FlattenSeq(s) = g[2]
  BY <1>1, FlattenIs
<1>3. \A i \in 1 .. 2 : g[i] = IF i = 1 THEN s[i] ELSE g[i - 1] \o s[i]
  BY <1>2 DEF Flat
<1>4. 1 \in 1 .. 2 /\ 2 \in 1 .. 2 /\ 2 # 1 /\ 2 - 1 = 1
  OBVIOUS
<1>5. g[1] = s[1] /\ g[2] = g[2 - 1] \o s[2]
  BY <1>3, <1>4
<1>6. g[2] = s[1] \o s[2]
  BY <1>4, <1>5
<1> QED
  BY <1>1, <1>2, <1>6

-----------------------------------------------------------------------------
(* The commands of send *)

Sendable ==
    {Bare("DATA")} \cup
    [verb : {"MAIL", "RCPT"}, kind : {"none"}, text : Seq(Plain \ {">"}), params : MailOptions]

\* P is the text of some of the options: after each blank there is a keyword.
Optional(P, params) ==
    /\ P \in Seq(Tokens)
    /\ Len(P) > 0 => P[1] = "SP"
    /\ \A i \in 1 .. Len(P) : P[i] = "SP" =>
        /\ i < Len(P)
        /\ \/ P[i + 1] = "BODY" /\ BodyOption \in ToSet(params)
           \/ P[i + 1] = "SMTPUTF8" /\ Utf8Option \in ToSet(params)

\* How the options of `send` are written: token by token.
LEMMA OptionWords ==
    /\ <<"SP">> \o Parameter(BodyOption) \in Seq(Tokens)
    /\ Len(<<"SP">> \o Parameter(BodyOption)) = 4
    /\ (<<"SP">> \o Parameter(BodyOption))[1] = "SP"
    /\ (<<"SP">> \o Parameter(BodyOption))[2] = "BODY"
    /\ (<<"SP">> \o Parameter(BodyOption))[3] = "="
    /\ (<<"SP">> \o Parameter(BodyOption))[4] = "8BITMIME"
    /\ <<"SP">> \o Parameter(Utf8Option) \in Seq(Tokens)
    /\ Len(<<"SP">> \o Parameter(Utf8Option)) = 2
    /\ (<<"SP">> \o Parameter(Utf8Option))[1] = "SP"
    /\ (<<"SP">> \o Parameter(Utf8Option))[2] = "SMTPUTF8"
<1>1. {"SP", "BODY", "=", "8BITMIME", "SMTPUTF8"} \subseteq Tokens
  BY DEF Tokens, Characters
<1>2. Parameter(BodyOption) = <<"BODY", "=">> \o <<"8BITMIME">>
  <2>1. BodyOption.keyword = "BODY" /\ BodyOption.value = <<"8BITMIME">> /\ BodyOption \in FixedParameters
    BY DEF BodyOption, FixedParameters
  <2>2. <<"8BITMIME">> # <<>>
    OBVIOUS
  <2> QED
    BY <2>1, <2>2 DEF Parameter
<1>3. Parameter(Utf8Option) = <<"SMTPUTF8">>
  <2>1. Utf8Option.keyword = "SMTPUTF8" /\ Utf8Option.value = <<>>
    BY DEF Utf8Option
  <2>2. Utf8Option \notin FixedParameters
    <3>1. \A p \in FixedParameters : p.value \in {<<"8BITMIME">>, <<"7BIT">>, <<"2">>}
      BY DEF FixedParameters
    <3>2. \A x : <<x>> # <<>>
      OBVIOUS
    <3> QED
      BY <2>1, <3>1, <3>2
  <2>3. Parameter(Utf8Option) = <<Utf8Option.keyword>>
    BY <2>1, <2>2 DEF Parameter
  <2> QED
    BY <2>1, <2>3
<1>4. PICK u, v, x, z : u = <<"SP">> /\ v = <<"BODY", "=">> /\ x = <<"8BITMIME">> /\ z = <<"SMTPUTF8">>
  OBVIOUS
<1>5. /\ u \in Seq(Tokens) /\ Len(u) = 1 /\ u[1] = "SP"
      /\ x \in Seq(Tokens) /\ Len(x) = 1 /\ x[1] = "8BITMIME"
      /\ z \in Seq(Tokens) /\ Len(z) = 1 /\ z[1] = "SMTPUTF8"
  BY <1>1, <1>4, Single, Zenon
<1>6. "BODY" \in Tokens /\ "=" \in Tokens
  BY <1>1
<1>7. v \in Seq(Tokens) /\ Len(v) = 2 /\ v[1] = "BODY" /\ v[2] = "="
  BY <1>4, <1>6, Pair, Zenon
<1>8. PICK y : y = v \o x
  OBVIOUS
<1>9. y \in Seq(Tokens) /\ Len(y) = 3 /\ y[1] = "BODY" /\ y[2] = "=" /\ y[3] = "8BITMIME"
  <2>1. /\ y \in Seq(Tokens) /\ Len(y) = 2 + 1
        /\ \A i \in 1 .. 2 : y[i] = v[i]
        /\ \A i \in 1 .. 1 : y[2 + i] = x[i]
    <3>1. v \in Seq(Tokens) /\ x \in Seq(Tokens) /\ Len(v) = 2 /\ Len(x) = 1
      BY <1>5, <1>7
    <3>2. /\ y \in Seq(Tokens) /\ Len(y) = Len(v) + Len(x)
          /\ \A i \in 1 .. Len(v) : y[i] = v[i]
          /\ \A i \in 1 .. Len(x) : y[Len(v) + i] = x[i]
      BY <1>8, <3>1, Joined, Zenon
    <3> QED
      BY <3>1, <3>2
  <2>2. Len(y) = 3 /\ y[1] = v[1] /\ y[2] = v[2] /\ y[3] = x[1]
    BY <2>1
  <2> QED
    BY <1>5, <1>7, <2>1, <2>2
<1>10. PICK a, b : a = u \o y /\ b = u \o z
  OBVIOUS
<1>11. a \in Seq(Tokens) /\ Len(a) = 4 /\ a[1] = "SP" /\ a[2] = "BODY" /\ a[3] = "=" /\ a[4] = "8BITMIME"
  <2>1. /\ a \in Seq(Tokens) /\ Len(a) = 1 + 3
        /\ \A i \in 1 .. 1 : a[i] = u[i]
        /\ \A i \in 1 .. 3 : a[1 + i] = y[i]
    <3>1. u \in Seq(Tokens) /\ y \in Seq(Tokens) /\ Len(u) = 1 /\ Len(y) = 3
      BY <1>5, <1>9
    <3>2. /\ a \in Seq(Tokens) /\ Len(a) = Len(u) + Len(y)
          /\ \A i \in 1 .. Len(u) : a[i] = u[i]
          /\ \A i \in 1 .. Len(y) : a[Len(u) + i] = y[i]
      BY <1>10, <3>1, Joined, Zenon
    <3> QED
      BY <3>1, <3>2
  <2>2. Len(a) = 4 /\ a[1] = u[1] /\ a[2] = y[1] /\ a[3] = y[2] /\ a[4] = y[3]
    BY <2>1
  <2> QED
    BY <1>5, <1>9, <2>1, <2>2
<1>12. b \in Seq(Tokens) /\ Len(b) = 2 /\ b[1] = "SP" /\ b[2] = "SMTPUTF8"
  <2>1. /\ b \in Seq(Tokens) /\ Len(b) = 1 + 1
        /\ \A i \in 1 .. 1 : b[i] = u[i]
        /\ \A i \in 1 .. 1 : b[1 + i] = z[i]
    BY <1>5, <1>10, Joined
  <2>2. Len(b) = 2 /\ b[1] = u[1] /\ b[2] = z[1]
    BY <2>1
  <2> QED
    BY <1>5, <2>1, <2>2
<1>13. <<"SP">> \o Parameter(BodyOption) = a /\ <<"SP">> \o Parameter(Utf8Option) = b
  BY <1>2, <1>3, <1>4, <1>8, <1>10, Zenon
<1> QED
  BY <1>11, <1>12, <1>13, Zenon

\* The parameters of the commands of `send`, token by token.
OptionText(P, params) ==
    /\ P \in Seq(Tokens)
    /\ \/ params = <<>> /\ P = <<>>
       \/ /\ params = <<BodyOption>> /\ Len(P) = 4
          /\ P[1] = "SP" /\ P[2] = "BODY" /\ P[3] = "=" /\ P[4] = "8BITMIME"
       \/ /\ params = <<Utf8Option>> /\ Len(P) = 2
          /\ P[1] = "SP" /\ P[2] = "SMTPUTF8"
       \/ /\ params = <<BodyOption, Utf8Option>> /\ Len(P) = 6
          /\ P[1] = "SP" /\ P[2] = "BODY" /\ P[3] = "=" /\ P[4] = "8BITMIME"
          /\ P[5] = "SP" /\ P[6] = "SMTPUTF8"

\* What the options of `send` are as a text: nothing, one option, or two.
LEMMA OptionsText ==
    ASSUME NEW cmd, cmd.params \in MailOptions
    PROVE  OptionText(Parameters(cmd), cmd.params)
<1> PICK a : a = <<"SP">> \o Parameter(BodyOption)
  OBVIOUS
<1> PICK b : b = <<"SP">> \o Parameter(Utf8Option)
  OBVIOUS
<1>1. /\ a \in Seq(Tokens) /\ Len(a) = 4
      /\ a[1] = "SP" /\ a[2] = "BODY" /\ a[3] = "=" /\ a[4] = "8BITMIME"
      /\ b \in Seq(Tokens) /\ Len(b) = 2 /\ b[1] = "SP" /\ b[2] = "SMTPUTF8"
  BY OptionWords
<1> PICK f : f = [i \in DOMAIN cmd.params |-> <<"SP">> \o Parameter(cmd.params[i])]
  OBVIOUS
<1>2. Parameters(cmd) = FlattenSeq(f)
  BY DEF Parameters
<1>3. CASE cmd.params = <<>>
  <2>1. f = <<>>
    BY <1>3
  <2>2. FlattenSeq(f) = <<>>
    BY <2>1, EmptySeq DEF FlattenSeq
  <2>3. Parameters(cmd) = <<>>
    BY <1>2, <2>2
  <2> QED
    BY <1>3, <2>3 DEF OptionText
<1>4. CASE cmd.params = <<BodyOption>>
  <2>1. f = <<a>>
    BY <1>4
  <2>2. Parameters(cmd) = a
    BY <1>1, <1>2, <2>1, FlattenOne
  <2> QED
    BY <1>1, <1>4, <2>2 DEF OptionText
<1>5. CASE cmd.params = <<Utf8Option>>
  <2>1. f = <<b>>
    BY <1>5
  <2>2. Parameters(cmd) = b
    BY <1>1, <1>2, <2>1, FlattenOne
  <2> QED
    BY <1>1, <1>5, <2>2 DEF OptionText
<1>6. CASE cmd.params = <<BodyOption, Utf8Option>>
  <2>1. f = <<a, b>>
    BY <1>6
  <2>2. Parameters(cmd) = a \o b
    <3>1. a \in Seq(Tokens) /\ b \in Seq(Tokens)
      BY <1>1
    <3>2. FlattenSeq(<<a, b>>) = a \o b
      BY <3>1, FlattenTwo
    <3> QED
      BY <1>2, <2>1, <3>2, Zenon
  <2> PICK c : c = a \o b
    OBVIOUS
  <2>3. /\ c \in Seq(Tokens) /\ Len(c) = 6
        /\ \A i \in 1 .. 6 : c[i] = IF i <= 4 THEN a[i] ELSE b[i - 4]
    BY <1>1, ConcatProperties
  <2>4. /\ c[1] = "SP" /\ c[2] = "BODY" /\ c[3] = "=" /\ c[4] = "8BITMIME"
        /\ c[5] = "SP" /\ c[6] = "SMTPUTF8"
    BY <1>1, <2>3
  <2>5. OptionText(c, cmd.params)
    BY <1>6, <2>3, <2>4 DEF OptionText
  <2> QED
    BY <2>2, <2>5, Zenon
<1> QED
  BY <1>3, <1>4, <1>5, <1>6 DEF MailOptions

\* The options of a MAIL are written so that a keyword follows each blank.
LEMMA OptionsOptional ==
    ASSUME NEW P, NEW params, OptionText(P, params)
    PROVE  Optional(P, params)
<1>1. P \in Seq(Tokens)
  BY DEF OptionText
<1>2. CASE P = <<>>
  BY <1>1, <1>2 DEF Optional
<1>3. CASE /\ params = <<BodyOption>> /\ Len(P) = 4
           /\ P[1] = "SP" /\ P[2] = "BODY" /\ P[3] = "=" /\ P[4] = "8BITMIME"
  <2>1. BodyOption \in ToSet(params)
    BY <1>3 DEF ToSet
  <2>2. \A i \in 1 .. 4 : i = 1 \/ i = 2 \/ i = 3 \/ i = 4
    OBVIOUS
  <2> QED
    BY <1>1, <1>3, <2>1, <2>2 DEF Optional
<1>4. CASE /\ params = <<Utf8Option>> /\ Len(P) = 2
           /\ P[1] = "SP" /\ P[2] = "SMTPUTF8"
  <2>1. Utf8Option \in ToSet(params)
    BY <1>4 DEF ToSet
  <2>2. \A i \in 1 .. 2 : i = 1 \/ i = 2
    OBVIOUS
  <2> QED
    BY <1>1, <1>4, <2>1, <2>2 DEF Optional
<1>5. CASE /\ params = <<BodyOption, Utf8Option>> /\ Len(P) = 6
           /\ P[1] = "SP" /\ P[2] = "BODY" /\ P[3] = "=" /\ P[4] = "8BITMIME"
           /\ P[5] = "SP" /\ P[6] = "SMTPUTF8"
  <2>1. BodyOption \in ToSet(params) /\ Utf8Option \in ToSet(params)
    BY <1>5 DEF ToSet
  <2>2. \A i \in 1 .. 6 : i = 1 \/ i = 2 \/ i = 3 \/ i = 4 \/ i = 5 \/ i = 6
    OBVIOUS
  <2>3. ASSUME NEW i \in 1 .. 6, P[i] = "SP"
        PROVE  /\ i < 6
               /\ \/ P[i + 1] = "BODY" /\ BodyOption \in ToSet(params)
                  \/ P[i + 1] = "SMTPUTF8" /\ Utf8Option \in ToSet(params)
    <3>1. i = 1 \/ i = 5
      BY <1>5, <2>2, <2>3
    <3>2. CASE i = 1
      BY <1>5, <2>1, <3>2
    <3>3. CASE i = 5
      <4>1. i + 1 = 6 /\ i < 6
        BY <3>3
      <4> QED
        BY <1>5, <2>1, <4>1
    <3> QED
      BY <3>1, <3>2, <3>3
  <2> QED
    BY <1>1, <1>5, <2>3 DEF Optional
<1> QED
  BY <1>2, <1>3, <1>4, <1>5 DEF OptionText

Keyword(verb) == IF verb = "MAIL" THEN "FROM:" ELSE "TO:"

\* Where the parts of a MAIL or a RCPT are: n tokens of a path, then P.
PathLine(w, verb, text, n, P) ==
    /\ w \in Seq(Tokens) /\ n = Len(text)
    /\ Len(w) = 5 + n + Len(P)
    /\ w[1] = verb /\ w[2] = "SP" /\ w[3] = Keyword(verb) /\ w[4] = "<"
    /\ \A i \in 1 .. n : w[4 + i] = text[i]
    /\ w[5 + n] = ">"
    /\ \A i \in 1 .. Len(P) : w[5 + n + i] = P[i]

\* Four words of a line, written out.
LEMMA FourTokens ==
    ASSUME NEW a \in Tokens, NEW b \in Tokens, NEW c \in Tokens, NEW d \in Tokens,
           NEW h, h = <<a, b, c, d>>
    PROVE  /\ h \in Seq(Tokens) /\ Len(h) = 4
           /\ h[1] = a /\ h[2] = b /\ h[3] = c /\ h[4] = d
OBVIOUS

\* What stands where in the line of a MAIL or a RCPT.
LEMMA PathWords ==
    ASSUME NEW cmd, cmd.verb \in {"MAIL", "RCPT"}, cmd.text \in Seq(Tokens),
           Parameters(cmd) \in Seq(Tokens)
    PROVE  \E n \in Nat : PathLine(Words(cmd), cmd.verb, cmd.text, n, Parameters(cmd))
<1> PICK P \in Seq(Tokens) : P = Parameters(cmd)
  OBVIOUS
<1> PICK t \in Seq(Tokens) : t = cmd.text
  OBVIOUS
<1> PICK k : k = Keyword(cmd.verb)
  OBVIOUS
<1>1. {"SP", "FROM:", "TO:", "<", ">", "MAIL", "RCPT"} \subseteq Tokens
  BY DEF Tokens, Characters, Verbs
<1>2. cmd.verb \in Tokens /\ "SP" \in Tokens /\ k \in Tokens /\ "<" \in Tokens /\ ">" \in Tokens
  BY <1>1 DEF Keyword
<1>3. PICK h : h = <<cmd.verb, "SP", k, "<">>
  OBVIOUS
<1>4. /\ h \in Seq(Tokens) /\ Len(h) = 4
      /\ h[1] = cmd.verb /\ h[2] = "SP" /\ h[3] = k /\ h[4] = "<"
  BY ONLY <1>2, <1>3, FourTokens
<1>5. PICK g : g = <<">">>
  OBVIOUS
<1>6. g \in Seq(Tokens) /\ Len(g) = 1 /\ g[1] = ">"
  BY <1>2, <1>5, Single, Zenon
<1>7. Words(cmd) = h \o t \o g \o P
  <2>1. cmd.verb \notin BareVerbs /\ cmd.verb \notin TextVerbs /\ cmd.verb # "EHLO"
    BY DEF BareVerbs, TextVerbs
  <2>2. k = IF cmd.verb = "MAIL" THEN "FROM:" ELSE "TO:"
    BY DEF Keyword
  <2> QED
    BY <1>3, <1>5, <2>1, <2>2 DEF Words
<1>a. PICK a : a = h \o t
  OBVIOUS
<1>b. PICK b : b = a \o g
  OBVIOUS
<1>w. PICK w : w = b \o P
  OBVIOUS
<1>9. PICK n \in Nat, p \in Nat : n = Len(t) /\ p = Len(P)
  BY LenProperties
<1>10. /\ a \in Seq(Tokens) /\ Len(a) = 4 + n
       /\ \A i \in 1 .. 4 : a[i] = h[i]
       /\ \A i \in 1 .. n : a[4 + i] = t[i]
  <2>1. h \in Seq(Tokens) /\ t \in Seq(Tokens)
    BY <1>4
  <2>2. /\ a \in Seq(Tokens) /\ Len(a) = Len(h) + Len(t)
        /\ \A i \in 1 .. Len(h) : a[i] = h[i]
        /\ \A i \in 1 .. Len(t) : a[Len(h) + i] = t[i]
    BY <1>a, <2>1, Joined
  <2>3. Len(h) = 4
    BY <1>4
  <2> QED
    BY <1>9, <2>2, <2>3
<1>11. /\ b \in Seq(Tokens) /\ Len(b) = 5 + n
       /\ \A i \in 1 .. 4 + n : b[i] = a[i]
       /\ b[5 + n] = ">"
  <2>1. a \in Seq(Tokens) /\ g \in Seq(Tokens)
    BY <1>6, <1>10
  <2>2. /\ b \in Seq(Tokens) /\ Len(b) = Len(a) + Len(g)
        /\ \A i \in 1 .. Len(a) : b[i] = a[i]
        /\ \A i \in 1 .. Len(g) : b[Len(a) + i] = g[i]
    BY <1>b, <2>1, Joined
  <2>3. Len(a) = 4 + n /\ Len(g) = 1 /\ g[1] = ">"
    BY <1>6, <1>10
  <2>4. Len(b) = 4 + n + 1 /\ (\A i \in 1 .. 4 + n : b[i] = a[i]) /\ b[4 + n + 1] = ">"
    BY <2>2, <2>3
  <2>5. 4 + n + 1 = 5 + n
    OBVIOUS
  <2> QED
    BY <2>2, <2>4, <2>5
<1>12. /\ w \in Seq(Tokens) /\ Len(w) = 5 + n + p
       /\ \A i \in 1 .. 5 + n : w[i] = b[i]
       /\ \A i \in 1 .. p : w[5 + n + i] = P[i]
  <2>1. b \in Seq(Tokens) /\ P \in Seq(Tokens)
    BY <1>11
  <2>2. /\ w \in Seq(Tokens) /\ Len(w) = Len(b) + Len(P)
        /\ \A i \in 1 .. Len(b) : w[i] = b[i]
        /\ \A i \in 1 .. Len(P) : w[Len(b) + i] = P[i]
    BY <1>w, <2>1, Joined
  <2>3. Len(b) = 5 + n
    BY <1>11
  <2> QED
    BY <1>9, <2>2, <2>3
<1>13. \A i \in 1 .. 4 : w[i] = h[i]
  <2>1. \A i \in 1 .. 4 : i \in 1 .. 4 + n /\ i \in 1 .. 5 + n
    OBVIOUS
  <2> QED
    BY <1>10, <1>11, <1>12, <2>1
<1>14. w[1] = cmd.verb /\ w[2] = "SP" /\ w[3] = k /\ w[4] = "<"
  BY <1>4, <1>13
<1>15. \A i \in 1 .. n : w[4 + i] = t[i]
  <2>1. \A i \in 1 .. n : 4 + i \in 1 .. 4 + n /\ 4 + i \in 1 .. 5 + n
    OBVIOUS
  <2> QED
    BY <1>10, <1>11, <1>12, <2>1
<1>16. w[5 + n] = ">"
  <2>1. 5 + n \in 1 .. 5 + n
    OBVIOUS
  <2> QED
    BY <1>11, <1>12, <2>1
<1>17. PathLine(w, cmd.verb, t, n, P)
  BY <1>9, <1>12, <1>14, <1>15, <1>16 DEF PathLine
<1> QED
  BY <1>7, <1>a, <1>b, <1>w, <1>17, Zenon

\* How many pieces a text has.
Pieces(text, separator) == Cardinality(Ends(text, separator)) - 1

\* How many parameters a server looks for.
LEMMA SplitTail ==
    ASSUME NEW text \in Seq(Tokens), NEW separator, Pieces(text, separator) \in Nat \ {0}
    PROVE  DOMAIN Tail(Split(text, separator)) = 1 .. Pieces(text, separator) - 1
<1> PICK n \in Nat \ {0} : n = Pieces(text, separator)
  OBVIOUS
<1> PICK s : s = Split(text, separator)
  OBVIOUS
<1>1. DOMAIN s = 1 .. n
  BY SplitIs DEF Pieces
<1>2. \A r \in 1 .. n : s[r] \in Seq(Tokens)
  <2> TAKE r \in 1 .. n
  <2>1. PICK lo, hi \in Ends(text, separator) : s[r] = SubSeq(text, lo + 1, hi - 1) /\ lo < hi
    BY SplitSource DEF Pieces
  <2>2. lo \in 0 .. Len(text) + 1 /\ hi \in 0 .. Len(text) + 1 /\ Len(text) \in Nat
    BY EndsType DEF Ends
  <2>3. PICK l \in Nat, a \in Nat, b \in Nat : l = Len(text) /\ a = lo /\ b = hi
    BY <2>2
  <2>4. a + 1 \in 1 .. l + 1 /\ b - 1 \in 0 .. l
    BY <2>1, <2>2, <2>3
  <2>5. SubSeq(text, a + 1, b - 1) \in Seq(Tokens)
    BY <2>3, <2>4
  <2> QED
    BY <2>1, <2>3, <2>5
<1>3. s = [r \in 1 .. n |-> s[r]]
  BY <1>1, SplitIs DEF Pieces
<1>4. s \in Seq(Seq(Tokens)) /\ Len(s) = n
  BY <1>2, <1>3
<1> QED
  BY <1>4

-----------------------------------------------------------------------------
(* ReadPath, part by part *)

Path(line) == SubSeq(line, 5, Close(line) - 1)
Rest(line) == SubSeq(line, Close(line) + 1, Len(line))
ReadParams(line) ==
    IF Rest(line) = <<>> THEN <<>>
    ELSE [i \in DOMAIN Tail(Split(Rest(line), "SP")) |-> ReadParameter(Split(Rest(line), "SP")[i + 1])]

PathOk(line) ==
    /\ Len(line) > 4
    /\ line[2] = "SP" /\ line[3] = Keyword(line[1])
    /\ line[4] = "<" /\ Close(line) > 4
    /\ ToSet(Path(line)) \cap {"SP", "TAB", "CR", "LF", "<", "DEL", "oslash"} = {}
    /\ Rest(line) # <<>> => Rest(line)[1] = "SP"
    /\ \A i \in DOMAIN ReadParams(line) : ReadParams(line)[i].ok

\* ReadPath, in terms of its parts.
LEMMA ReadPathIs ==
    ASSUME NEW line
    PROVE  ReadPath(line) =
             IF PathOk(line)
               THEN Command(line[1], "none", Path(line),
                            [i \in DOMAIN ReadParams(line) |-> ReadParams(line)[i].param])
               ELSE Unknown
BY Zenon DEF ReadPath, PathOk, Path, Rest, ReadParams, Close, Keyword

\* T is the first k tokens of the line w of a MAIL or a RCPT, or all of it and the CR,
\* then a verb and more, where no ">" comes without a blank before it.
PathCut(T, k, w, verb, text, n, P, params) ==
    /\ T \in Seq(Tokens) /\ k \in Nat \ {0} /\ n \in Nat /\ k < Len(T)
    /\ verb \in {"MAIL", "RCPT"} /\ text \in Seq(Plain \ {">"})
    /\ PathLine(w, verb, text, n, P) /\ Optional(P, params)
    /\ k <= Len(w) + 1
    /\ \A j \in 1 .. k : j <= Len(w) => T[j] = w[j]
    /\ k = Len(w) + 1 => T[k] = "CR"
    /\ T[k + 1] \in Verbs
    /\ \A j \in k + 2 .. Len(T) : T[j] = ">" => \E i \in k + 2 .. j - 1 : T[i] = "SP"

\* Cut before the path.
LEMMA CutBeforePath ==
    ASSUME NEW T, NEW k, NEW w, NEW verb, NEW text, NEW n, NEW P, NEW params,
           PathCut(T, k, w, verb, text, n, P, params), k < 4
    PROVE  ~PathOk(T)
<1>1. k \in Nat \ {0} /\ T[k + 1] \in Verbs
  BY DEF PathCut
<1>2. T[k + 1] \notin {"SP", "FROM:", "TO:", "<"}
  BY <1>1 DEF Verbs, BareVerbs, TextVerbs
<1>3. k = 1 \/ k = 2 \/ k = 3
  BY <1>1
<1>4. Keyword(T[1]) \in {"FROM:", "TO:"}
  BY DEF Keyword
<1>5. CASE k = 1
  BY <1>2, <1>5 DEF PathOk
<1>6. CASE k = 2
  BY <1>2, <1>4, <1>6 DEF PathOk
<1>7. CASE k = 3
  BY <1>2, <1>7 DEF PathOk
<1> QED
  BY <1>3, <1>5, <1>6, <1>7

\* Cut in the path: it holds a blank, or never ends.
LEMMA CutInPath ==
    ASSUME NEW T, NEW k, NEW w, NEW verb, NEW text, NEW n, NEW P, NEW params,
           PathCut(T, k, w, verb, text, n, P, params), 4 <= k, k < 5 + n
    PROVE  ~PathOk(T)
<1>1. /\ T \in Seq(Tokens) /\ k \in Nat /\ n \in Nat /\ k < Len(T) /\ Len(T) \in Nat
  BY LenProperties DEF PathCut
<1>2. \A j \in 1 .. k : T[j] # ">"
  <2> TAKE j \in 1 .. k
  <2>1. Len(w) = 5 + n + Len(P) /\ Len(P) \in Nat
    BY LenProperties DEF PathCut, PathLine, Optional
  <2>2. j <= Len(w) /\ j <= 4 + n
    BY <1>1, <2>1
  <2>3. T[j] = w[j]
    BY <2>2 DEF PathCut
  <2>4. CASE j <= 4
    <3>1. j = 1 \/ j = 2 \/ j = 3 \/ j = 4
      BY <1>1, <2>4
    <3>2. w[1] # ">" /\ w[2] # ">" /\ w[3] # ">" /\ w[4] # ">"
      BY DEF PathCut, PathLine, Keyword
    <3> QED
      BY <2>3, <3>1, <3>2
  <2>5. CASE j > 4
    <3>1. PICK i \in Int : i = j - 4
      BY <1>1
    <3>2. i \in 1 .. n /\ 4 + i = j
      BY <1>1, <2>2, <2>5, <3>1
    <3>3. w[j] = text[i]
      BY <3>2 DEF PathCut, PathLine
    <3>4. text[i] # ">"
      <4>1. i \in 1 .. Len(text) /\ text \in Seq(Plain \ {">"})
        BY <3>2 DEF PathCut, PathLine
      <4>2. text[i] \in Plain \ {">"}
        BY <4>1, ElementOfSeq
      <4> QED
        BY <4>2
    <3> QED
      BY <2>3, <3>3, <3>4
  <2> QED
    BY <1>1, <2>4, <2>5
<1>3. T[k + 1] # ">"
  <2>1. T[k + 1] \in Verbs
    BY DEF PathCut
  <2> QED
    BY <2>1 DEF Verbs, BareVerbs, TextVerbs
<1>4. SUFFICES ASSUME PathOk(T) PROVE FALSE
  OBVIOUS
<1>5. PICK c : c = Close(T)
  OBVIOUS
<1>6. c \in 1 .. Len(T) /\ T[c] = ">"
  <2>1. c > 4
    BY <1>4, <1>5 DEF PathOk
  <2> QED
    BY <1>1, <1>5, <2>1, CloseIs
<1>7. c \in k + 2 .. Len(T)
  <2>1. c \notin 1 .. k /\ c # k + 1
    BY <1>2, <1>3, <1>6
  <2> QED
    BY <1>1, <1>6, <2>1
<1>8. PICK i \in k + 2 .. c - 1 : T[i] = "SP"
  BY <1>6, <1>7 DEF PathCut
<1>9. "SP" \in ToSet(Path(T))
  <2>1. PICK l \in Nat : l = Len(T)
    BY <1>1
  <2>2. c \in Nat /\ c <= l /\ i \in 6 .. c - 1
    BY <1>1, <1>6, <1>8, <2>1
  <2>3. PICK p : p = SubSeq(T, 5, c - 1)
    OBVIOUS
  <2>4. DOMAIN p = 1 .. c - 5 /\ \A x \in 1 .. c - 5 : p[x] = T[5 + x - 1]
    BY <1>1, <2>1, <2>2, <2>3
  <2>5. i - 4 \in 1 .. c - 5 /\ 5 + (i - 4) - 1 = i
    BY <2>2
  <2>6. p[i - 4] = "SP"
    BY <1>8, <2>4, <2>5
  <2> QED
    BY <1>5, <2>3, <2>4, <2>5, <2>6 DEF ToSet, Path
<1> QED
  BY <1>4, <1>9 DEF PathOk

\* A line up to the end of a path: the first ">" is where it ends.
LEMMA PathCloses ==
    ASSUME NEW T \in Seq(Tokens), NEW w, NEW verb, NEW text \in Seq(Plain \ {">"}), NEW n \in Nat, NEW P,
           PathLine(w, verb, text, n, P), verb \in {"MAIL", "RCPT"},
           5 + n <= Len(T), \A j \in 1 .. 5 + n : T[j] = w[j]
    PROVE  Close(T) = 5 + n
<1>1. Len(T) \in Nat
  BY LenProperties
<1>2. ASSUME NEW j \in 1 .. 4 + n PROVE T[j] # ">"
  <2>1. j \in 1 .. 5 + n /\ T[j] = w[j]
    OBVIOUS
  <2>2. CASE j <= 4
    <3>1. j = 1 \/ j = 2 \/ j = 3 \/ j = 4
      BY <2>2
    <3>2. w[1] # ">" /\ w[2] # ">" /\ w[3] # ">" /\ w[4] # ">"
      BY DEF PathLine, Keyword
    <3> QED
      BY <2>1, <3>1, <3>2
  <2>3. CASE j > 4
    <3>1. PICK i \in Int : i = j - 4
      OBVIOUS
    <3>2. i \in 1 .. n /\ 4 + i = j
      BY <2>3, <3>1
    <3>3. w[j] = text[i]
      BY <3>2 DEF PathLine
    <3>4. i \in 1 .. Len(text)
      BY <3>2 DEF PathLine
    <3>5. text[i] \in Plain \ {">"}
      BY <3>4, ElementOfSeq
    <3>6. text[i] # ">"
      BY <3>5
    <3> QED
      BY <2>1, <3>3, <3>6
  <2> QED
    BY <2>2, <2>3
<1>3. T[5 + n] = ">" /\ 5 + n \in 1 .. Len(T)
  <2>1. 5 + n \in 1 .. 5 + n /\ 5 + n \in 1 .. Len(T)
    BY <1>1
  <2>2. w[5 + n] = ">"
    BY DEF PathLine
  <2> QED
    BY <2>1, <2>2
<1>4. PICK c : c = Close(T)
  OBVIOUS
<1>5. c \in 1 .. Len(T) /\ T[c] = ">" /\ c <= 5 + n
  BY <1>3, <1>4, CloseIs
<1>6. c \notin 1 .. 4 + n
  BY <1>2, <1>5
<1>7. c = 5 + n
  BY <1>1, <1>5, <1>6
<1> QED
  BY <1>4, <1>7

\* What of a text follows its c-th token.
LEMMA After ==
    ASSUME NEW T \in Seq(Tokens), NEW c \in Nat, c <= Len(T)
    PROVE  /\ Len(T) \in Nat
           /\ SubSeq(T, c + 1, Len(T)) \in Seq(Tokens)
           /\ Len(SubSeq(T, c + 1, Len(T))) = Len(T) - c
           /\ \A x \in 1 .. Len(T) - c : SubSeq(T, c + 1, Len(T))[x] = T[c + x]
<1>1. Len(T) \in Nat
  BY LenProperties
<1>2. PICK l \in Nat : l = Len(T)
  BY <1>1
<1>3. SubSeq(T, c + 1, l) \in Seq(Tokens) /\ Len(SubSeq(T, c + 1, l)) = l - c
  BY <1>2
<1>4. \A x \in 1 .. l - c : SubSeq(T, c + 1, l)[x] = T[c + x]
  BY <1>2
<1> QED
  BY <1>1, <1>2, <1>3, <1>4

\* The tokens from one place to another.
LEMMA Between ==
    ASSUME NEW T \in Seq(Tokens), NEW a \in Nat, NEW b \in Nat, a < b, b <= Len(T) + 1
    PROVE  /\ SubSeq(T, a + 1, b - 1) \in Seq(Tokens)
           /\ Len(SubSeq(T, a + 1, b - 1)) = b - 1 - a
           /\ \A x \in 1 .. b - 1 - a : SubSeq(T, a + 1, b - 1)[x] = T[a + x]
<1>1. PICK l \in Nat : l = Len(T)
  BY LenProperties
<1>2. a + 1 \in 1 .. l + 1 /\ b - 1 \in 0 .. l
  BY <1>1
<1>3. SubSeq(T, a + 1, b - 1) \in Seq(Tokens) /\ Len(SubSeq(T, a + 1, b - 1)) = b - 1 - a
  BY <1>1, <1>2
<1>4. \A x \in 1 .. b - 1 - a : SubSeq(T, a + 1, b - 1)[x] = T[a + x]
  BY <1>1, <1>2
<1> QED
  BY <1>3, <1>4

\* Cut after the path: one of the parameters is none.
LEMMA CutInOptions ==
    ASSUME NEW T, NEW k, NEW w, NEW verb, NEW text, NEW n, NEW P, NEW params,
           PathCut(T, k, w, verb, text, n, P, params), 5 + n <= k
    PROVE  ~PathOk(T)
<1>1. PICK l \in Nat, p \in Nat, W \in Nat :
        l = Len(T) /\ p = Len(P) /\ W = Len(w) /\ W = 5 + n + p
  <2>1. T \in Seq(Tokens) /\ P \in Seq(Tokens) /\ w \in Seq(Tokens) /\ Len(w) = 5 + n + Len(P)
    BY DEF PathCut, PathLine, Optional
  <2> QED
    BY <2>1, LenProperties
<1>2. T \in Seq(Tokens) /\ k \in Nat /\ n \in Nat /\ k < l /\ k <= W + 1 /\ verb \in {"MAIL", "RCPT"}
      /\ text \in Seq(Plain \ {">"}) /\ PathLine(w, verb, text, n, P)
  BY <1>1 DEF PathCut
<1>3. PICK c \in Nat : c = 5 + n
  BY <1>2
<1>4. \A j \in 1 .. k : j <= W => T[j] = w[j]
  BY <1>1 DEF PathCut
<1>5. Close(T) = c
  <2>1. \A j \in 1 .. 5 + n : j \in 1 .. k /\ j <= W
    BY <1>1, <1>2
  <2>2. \A j \in 1 .. 5 + n : T[j] = w[j]
    BY <1>4, <2>1
  <2>3. 5 + n <= Len(T)
    BY <1>1, <1>2
  <2> QED
    BY <1>2, <1>3, <2>2, <2>3, PathCloses
<1>6. PICK R : R = Rest(T)
  OBVIOUS
<1>7. /\ R \in Seq(Tokens) /\ Len(R) = l - c /\ \A x \in 1 .. l - c : R[x] = T[c + x]
      /\ c < l
  <2>1. c <= Len(T) /\ c < l
    BY <1>1, <1>2, <1>3
  <2>2. R = SubSeq(T, c + 1, Len(T))
    BY <1>5, <1>6 DEF Rest
  <2> QED
    BY <1>1, <1>2, <2>1, <2>2, After
<1>8. PICK x \in Nat : x = k + 1 - c /\ x >= 1 /\ x <= l - c /\ c + x = k + 1
  BY <1>1, <1>2, <1>3
<1>9. R[x] \in Verbs
  <2>1. R[x] = T[k + 1]
    BY <1>7, <1>8
  <2> QED
    BY <2>1 DEF PathCut
<1>10. R[x] # "SP" /\ R # <<>>
  <2>1. "SP" \notin Verbs
    BY DEF Verbs, BareVerbs, TextVerbs
  <2>2. Len(R) # 0
    BY <1>1, <1>7
  <2> QED
    BY <1>9, <2>1, <2>2, EmptySeq
<1>11. SUFFICES ASSUME PathOk(T) PROVE FALSE
  OBVIOUS
<1>12. R[1] = "SP" /\ \A i \in DOMAIN ReadParams(T) : ReadParams(T)[i].ok
  BY <1>6, <1>10, <1>11 DEF PathOk
<1>13. PICK E : E = Ends(R, "SP")
  OBVIOUS
<1>14. PICK lo \in E, hi \in E : lo < x /\ x < hi /\ \A y \in E : ~(lo < y /\ y < hi)
  <2>1. x \in 1 .. Len(R)
    BY <1>7, <1>8
  <2> QED
    BY <1>7, <1>10, <1>13, <2>1, Around
<1>15. E \in SUBSET Nat /\ 1 \in E
  <2>1. 1 \in 1 .. Len(R)
    BY <1>1, <1>7
  <2> QED
    BY <1>7, <1>12, <1>13, <2>1, EndsType DEF Ends
<1>16. lo \in Nat /\ hi \in Nat /\ 1 <= lo /\ hi <= l - c + 1 /\ R[lo] = "SP"
  <2>1. lo \in Nat /\ hi \in Nat
    BY <1>14, <1>15
  <2>2. x # 1
    BY <1>10, <1>12
  <2>3. lo # 0
    <3>1. ~(lo < 1 /\ 1 < hi)
      BY <1>14, <1>15
    <3> QED
      BY <1>8, <1>14, <2>1, <2>2, <3>1
  <2>4. E = {0, l - c + 1} \cup {i \in 1 .. l - c : R[i] = "SP"}
    BY <1>7, <1>13, EndsType DEF Ends
  <2>5. hi \in 0 .. l - c + 1
    BY <1>14, <2>4
  <2>6. lo # l - c + 1
    BY <1>8, <1>14, <2>1
  <2>7. R[lo] = "SP"
    BY <1>14, <2>3, <2>4, <2>6
  <2> QED
    BY <2>1, <2>3, <2>5, <2>7
<1>17. PICK r \in 1 .. Pieces(R, "SP") : Split(R, "SP")[r] = SubSeq(R, lo + 1, hi - 1) /\ r >= 2
  <2>1. lo < hi /\ lo > 0 /\ R \in Seq(Tokens) /\ lo \in Ends(R, "SP") /\ hi \in Ends(R, "SP")
        /\ \A y \in Ends(R, "SP") : ~(lo < y /\ y < hi)
    BY <1>7, <1>8, <1>13, <1>14, <1>16
  <2> QED
    BY <2>1, SplitPiece DEF Pieces
<1>18. PICK q : q = SubSeq(R, lo + 1, hi - 1)
  OBVIOUS
<1>19. /\ q \in Seq(Tokens) /\ Len(q) = hi - 1 - lo
       /\ \A y \in 1 .. hi - 1 - lo : q[y] = R[lo + y]
  <2>1. lo < hi /\ hi <= Len(R) + 1 /\ lo \in Nat /\ hi \in Nat /\ R \in Seq(Tokens)
    BY <1>7, <1>8, <1>14, <1>16
  <2> QED
    BY ONLY <1>18, <2>1, Between
<1>20. ReadParameter(q).ok
  <2>1. PICK s \in Nat : s = Pieces(R, "SP")
    <3>1. Cardinality(Ends(R, "SP")) \in Nat
      BY <1>7, EndsType
    <3>2. Pieces(R, "SP") \in Int
      BY <3>1 DEF Pieces
    <3> QED
      BY <1>17, <3>2
  <2>2. r - 1 \in 1 .. s - 1 /\ r - 1 + 1 = r /\ s # 0
    BY <1>17, <2>1
  <2>3. DOMAIN Tail(Split(R, "SP")) = 1 .. s - 1
    BY <1>7, <2>1, <2>2, SplitTail
  <2>4. ReadParams(T) = [i \in 1 .. s - 1 |-> ReadParameter(Split(R, "SP")[i + 1])]
    BY <1>6, <1>10, <2>3 DEF ReadParams
  <2>5. ReadParams(T)[r - 1] = ReadParameter(Split(R, "SP")[r])
    BY <2>2, <2>4
  <2>6. r - 1 \in DOMAIN ReadParams(T)
    BY <2>2, <2>4
  <2> QED
    BY <1>12, <1>17, <1>18, <2>5, <2>6
<1>21. PICK z \in Nat : z = x - lo
  BY <1>8, <1>14, <1>16
<1>22. z \in 1 .. Len(q) /\ q[z] \in Verbs
  <2>1. z \in 1 .. hi - 1 - lo /\ lo + z = x
    BY <1>8, <1>14, <1>16, <1>21
  <2> QED
    BY <1>9, <1>19, <2>1
<1>23. z = 1 \/ q[1] \in {"BODY", "SMTPUTF8"}
  <2>1. SUFFICES ASSUME z # 1 PROVE q[1] \in {"BODY", "SMTPUTF8"}
    OBVIOUS
  <2>2. lo + 1 < x /\ c + (lo + 1) <= k /\ c + lo <= k /\ c + lo <= W /\ lo <= p
        /\ c + lo \in 1 .. k /\ lo \in 1 .. l - c /\ lo \in 1 .. p
    BY <1>1, <1>2, <1>3, <1>8, <1>14, <1>16, <1>21, <2>1
  <2>3. P[lo] = "SP"
    <3>1. R[lo] = T[c + lo]
      BY <1>7, <2>2
    <3>2. T[c + lo] = w[c + lo]
      BY <1>4, <2>2
    <3>3. w[5 + n + lo] = P[lo]
      BY <1>1, <1>2, <2>2 DEF PathLine
    <3> QED
      BY <1>3, <1>16, <3>1, <3>2, <3>3
  <2>4. lo < p /\ P[lo + 1] \in {"BODY", "SMTPUTF8"}
    <3>1. Optional(P, params)
      BY DEF PathCut
    <3> QED
      BY <1>1, <2>2, <2>3, <3>1 DEF Optional
  <2>5. lo + 1 \in 1 .. p /\ c + (lo + 1) \in 1 .. k /\ c + (lo + 1) <= W /\ lo + 1 \in 1 .. l - c
        /\ 1 \in 1 .. hi - 1 - lo
    BY <1>1, <1>2, <1>3, <1>8, <1>14, <1>16, <2>2, <2>4
  <2>6. q[1] = R[lo + 1]
    BY <1>19, <2>5
  <2>7. R[lo + 1] = T[c + (lo + 1)]
    BY <1>7, <2>5
  <2>8. T[c + (lo + 1)] = w[c + (lo + 1)]
    BY <1>4, <2>5
  <2>9. w[5 + n + (lo + 1)] = P[lo + 1]
    BY <1>1, <1>2, <2>5 DEF PathLine
  <2> QED
    BY <1>3, <2>4, <2>6, <2>7, <2>8, <2>9
<1> QED
  BY <1>19, <1>20, <1>22, <1>23, VerbNoParameter

\* The lines of a MAIL and a RCPT of `send`.
LEMMA SendablePath ==
    ASSUME NEW c \in Sendable, c.verb # "DATA"
    PROVE  /\ c.verb \in {"MAIL", "RCPT"} /\ c.text \in Seq(Plain \ {">"})
           /\ Optional(Parameters(c), c.params)
           /\ \E n \in Nat : PathLine(Words(c), c.verb, c.text, n, Parameters(c))
<1>1. Bare("DATA").verb = "DATA"
  BY DEF Bare, Command
<1>2. c \in [verb : {"MAIL", "RCPT"}, kind : {"none"}, text : Seq(Plain \ {">"}), params : MailOptions]
  <2>1. c # Bare("DATA")
    BY <1>1
  <2> QED
    BY <2>1 DEF Sendable
<1>3. c.verb \in {"MAIL", "RCPT"} /\ c.text \in Seq(Plain \ {">"}) /\ c.params \in MailOptions
  BY <1>2
<1>4. Optional(Parameters(c), c.params)
  BY <1>3, OptionsText, OptionsOptional
<1>5. c.text \in Seq(Tokens)
  <2>1. Plain \ {">"} \subseteq Tokens
    BY DEF Plain
  <2> QED
    BY <1>3, <2>1, SeqMonotonic
<1>6. Parameters(c) \in Seq(Tokens)
  BY <1>4 DEF Optional
<1>7. \E n \in Nat : PathLine(Words(c), c.verb, c.text, n, Parameters(c))
  BY <1>3, <1>5, <1>6, PathWords
<1> QED
  BY <1>3, <1>4, <1>7

\* T is the first k tokens of a command of `send`, and others after them.
Glued(c, k, T) ==
    /\ c \in Sendable \cap Written
    /\ T \in Seq(Tokens) /\ k \in Nat \ {0} /\ k < Len(T) /\ k < Len(Display(c))
    /\ \A j \in 1 .. k : T[j] = Display(c)[j]
    /\ T[k + 1] \in Verbs
    /\ \A j \in k + 2 .. Len(T) : T[j] = ">" => \E i \in k + 2 .. j - 1 : T[i] = "SP"

\* A command cut short and what follows it are no command.
LEMMA CutUnknown ==
    ASSUME NEW c, NEW k, NEW T, Glued(c, k, T)
    PROVE  ReadCommand(T) = Unknown
<1>1. PICK l \in Nat : l = Len(T)
  BY LenProperties DEF Glued
<1>2. /\ c \in Sendable /\ c \in Written /\ T \in Seq(Tokens) /\ k \in Nat \ {0} /\ k < l
      /\ k < Len(Display(c)) /\ \A j \in 1 .. k : T[j] = Display(c)[j]
  BY <1>1 DEF Glued
<1>3. PICK W \in Nat \ {0} : W = Len(Words(c))
  BY <1>2, DisplayEnds
<1>4. PICK d : d = Display(c)
  OBVIOUS
<1>5. Len(d) = W + 2 /\ d[1] = c.verb /\ (\A i \in 1 .. W : d[i] = Words(c)[i]) /\ d[W + 1] = "CR"
  BY <1>2, <1>3, <1>4, DisplayEnds
<1>6. T[1] = c.verb
  BY <1>2, <1>4, <1>5
<1>7. k <= W + 1
  BY <1>2, <1>4, <1>5
<1>8. CASE c.verb = "DATA"
  <2>1. Len(T) # 1
    BY <1>1, <1>2
  <2>2. T # <<"HELP">>
    <3>1. Len(<<"HELP">>) = 1
      OBVIOUS
    <3> QED
      BY <2>1, <3>1
  <2>3. T[1] \notin TextVerbs /\ T[1] \notin {"MAIL", "RCPT"} /\ T[1] # "EHLO"
    BY <1>6, <1>8 DEF TextVerbs
  <2> QED
    BY <2>1, <2>2, <2>3 DEF ReadCommand
<1>9. CASE c.verb # "DATA"
  <2>1. PICK n \in Nat : PathLine(Words(c), c.verb, c.text, n, Parameters(c))
    BY <1>2, <1>9, SendablePath
  <2>2. /\ c.verb \in {"MAIL", "RCPT"} /\ c.text \in Seq(Plain \ {">"})
        /\ Optional(Parameters(c), c.params)
    BY <1>2, <1>9, SendablePath
  <2>3. PathCut(T, k, Words(c), c.verb, c.text, n, Parameters(c), c.params)
    <3>1. \A j \in 1 .. k : j <= W => T[j] = Words(c)[j]
      <4> TAKE j \in 1 .. k
      <4>1. j <= W => j \in 1 .. W
        BY <1>2
      <4> QED
        BY <1>2, <1>4, <1>5, <4>1
    <3>2. k = W + 1 => T[k] = "CR"
      <4>1. k \in 1 .. k
        BY <1>2
      <4> QED
        BY <1>2, <1>4, <1>5, <4>1
    <3>3. /\ T[k + 1] \in Verbs
          /\ \A j \in k + 2 .. Len(T) : T[j] = ">" => \E i \in k + 2 .. j - 1 : T[i] = "SP"
      BY DEF Glued
    <3> QED
      BY <1>1, <1>2, <1>3, <1>7, <2>1, <2>2, <3>1, <3>2, <3>3 DEF PathCut
  <2>4. ~PathOk(T)
    <3>1. CASE k < 4
      BY <2>3, <3>1, CutBeforePath
    <3>2. CASE 4 <= k /\ k < 5 + n
      BY <2>3, <3>2, CutInPath
    <3>3. CASE 5 + n <= k
      BY <2>3, <3>3, CutInOptions
    <3> QED
      BY <1>2, <3>1, <3>2, <3>3
  <2>5. ReadPath(T) = Unknown
    BY <2>4, ReadPathIs
  <2>6. T[1] \notin BareVerbs /\ T[1] \notin TextVerbs /\ T[1] \in {"MAIL", "RCPT"} /\ T # <<"HELP">>
        /\ T[1] # "EHLO"
    <3>1. <<"HELP">>[1] = "HELP"
      OBVIOUS
    <3>2. T[1] # "HELP"
      BY <1>6, <2>2
    <3>3. T # <<"HELP">>
      BY <3>1, <3>2
    <3> QED
      BY <1>6, <2>2, <3>3 DEF BareVerbs, TextVerbs
  <2> QED
    BY <2>5, <2>6 DEF ReadCommand
<1> QED
  BY <1>8, <1>9

\* What follows a verb begins with a blank.
LEMMA SecondBlank ==
    ASSUME NEW cmd \in Written
    PROVE  Len(Words(cmd)) = 1 \/ Words(cmd)[2] = "SP"
<1>0. cmd.verb \in Verbs /\ cmd.text \in Seq(Plain) /\ Parameters(cmd) \in Seq(Plain)
  BY ParametersPlain DEF Written
<1>1. {"SP", "FROM:", "TO:", "<", ">", "[", "]", "IPv6:", "EHLO"} \cup Verbs \subseteq Plain
  BY DEF Plain, Tokens, Characters, Verbs, BareVerbs, TextVerbs
<1>2. ASSUME NEW head \in Seq(Plain), NEW rest \in Seq(Plain), Len(head) >= 2, head[2] = "SP"
      PROVE  (head \o rest)[2] = "SP" /\ head \o rest \in Seq(Plain) /\ Len(head \o rest) >= 2
  <2>1. /\ Len(head) \in Nat /\ Len(rest) \in Nat
        /\ head \o rest \in Seq(Plain) /\ Len(head \o rest) = Len(head) + Len(rest)
        /\ \A i \in 1 .. Len(head) + Len(rest) :
              (head \o rest)[i] = IF i <= Len(head) THEN head[i] ELSE rest[i - Len(head)]
    BY LenProperties, ConcatProperties
  <2>2. 2 \in 1 .. Len(head) + Len(rest) /\ Len(head) + Len(rest) >= 2
    BY <1>2, <2>1
  <2> QED
    BY <1>2, <2>1, <2>2
<1>3. CASE cmd.verb \in BareVerbs
  <2>1. Words(cmd) = <<cmd.verb>>
    BY <1>3 DEF Words, BareVerbs, TextVerbs
  <2> QED
    BY <2>1
<1>4. CASE cmd.verb \in TextVerbs
  <2>1. Words(cmd) = <<cmd.verb>> \o Argument(cmd)
    BY <1>4 DEF Words, BareVerbs, TextVerbs
  <2>2. <<cmd.verb>> \in Seq(Plain) /\ Len(<<cmd.verb>>) = 1
    BY <1>0, <1>1
  <2>3. CASE Argument(cmd) = <<>>
    <3>1. Words(cmd) = <<cmd.verb>>
      BY <2>1, <2>2, <2>3
    <3> QED
      BY <3>1
  <2>4. CASE Argument(cmd) = <<"SP">> \o cmd.text
    <3>1. <<"SP">> \in Seq(Plain) /\ Len(<<"SP">>) = 1 /\ <<"SP">>[1] = "SP"
      BY <1>1
    <3> PICK h \in Seq(Plain), v \in Seq(Plain), t \in Seq(Plain) :
          h = <<cmd.verb>> /\ v = <<"SP">> /\ t = cmd.text
      BY <1>0, <2>2, <3>1
    <3> PICK a : a = v \o t
      OBVIOUS
    <3>2. Len(h) = 1 /\ Len(v) = 1 /\ v[1] = "SP" /\ Len(t) \in Nat
      BY <2>2, <3>1, LenProperties
    <3>3. a \in Seq(Plain) /\ Len(a) = 1 + Len(t) /\ a[1] = "SP"
      BY <3>2, ConcatProperties
    <3>4. (h \o a)[2] = "SP"
      <4>1. \A i \in 1 .. Len(h) + Len(a) : (h \o a)[i] = IF i <= Len(h) THEN h[i] ELSE a[i - Len(h)]
        BY <3>3, ConcatProperties
      <4>2. 2 \in 1 .. Len(h) + Len(a) /\ ~(2 <= Len(h)) /\ 2 - Len(h) = 1
        BY <3>2, <3>3
      <4> QED
        BY <3>3, <4>1, <4>2
    <3>5. Words(cmd) = h \o a
      BY <2>1, <2>4
    <3> QED
      BY <3>4, <3>5
  <2> QED
    BY <2>3, <2>4 DEF Argument
<1>5. CASE cmd.verb = "EHLO"
  <2>1. Words(cmd) = <<"EHLO", "SP">> \o ClientId(cmd.kind, cmd.text)
    BY <1>5 DEF Words, BareVerbs, TextVerbs
  <2>2. ClientId(cmd.kind, cmd.text) \in Seq(Plain)
    <3>1. <<"[">> \in Seq(Plain) /\ <<"]">> \in Seq(Plain) /\ <<"[", "IPv6:">> \in Seq(Plain)
      BY <1>1
    <3>2. \A x, y, z \in Seq(Plain) : x \o y \o z \in Seq(Plain)
      BY ConcatProperties
    <3> QED
      BY <1>0, <3>1, <3>2 DEF ClientId
  <2>3. <<"EHLO", "SP">> \in Seq(Plain) /\ Len(<<"EHLO", "SP">>) >= 2 /\ <<"EHLO", "SP">>[2] = "SP"
    BY <1>1
  <2> QED
    BY <1>2, <2>1, <2>2, <2>3, Zenon
<1>6. CASE cmd.verb \in {"MAIL", "RCPT"}
  <2>1. cmd.text \in Seq(Tokens) /\ Parameters(cmd) \in Seq(Tokens)
    <3>1. Plain \subseteq Tokens
      BY DEF Plain
    <3> QED
      BY <1>0, <3>1, SeqMonotonic
  <2>2. PICK n \in Nat : PathLine(Words(cmd), cmd.verb, cmd.text, n, Parameters(cmd))
    BY <1>6, <2>1, PathWords
  <2> QED
    BY <2>2 DEF PathLine
<1> QED
  BY <1>0, <1>3, <1>4, <1>5, <1>6 DEF Verbs

\* A ">" in a command comes after a blank.
LEMMA AngleLater ==
    ASSUME NEW cmd \in Written, NEW o \in 1 .. Len(Display(cmd)), Display(cmd)[o] = ">"
    PROVE  o >= 3 /\ Display(cmd)[2] = "SP"
<1>1. PICK n \in Nat \ {0} : n = Len(Words(cmd))
  BY DisplayEnds
<1> PICK d : d = Display(cmd)
  OBVIOUS
<1>2. /\ Len(d) = n + 2 /\ d[1] = cmd.verb /\ d[n + 1] = "CR" /\ d[n + 2] = "LF"
      /\ \A i \in 1 .. n : d[i] = Words(cmd)[i]
  BY <1>1, DisplayEnds
<1>3. o \in 1 .. n
  <2>1. o # n + 1 /\ o # n + 2
    BY <1>2
  <2> QED
    BY <1>1, <1>2, <2>1
<1>4. o # 1
  <2>1. cmd.verb \in Verbs
    BY DEF Written
  <2>2. ">" \notin Verbs
    BY DEF Verbs, BareVerbs, TextVerbs
  <2> QED
    BY <1>2, <2>1, <2>2
<1>5. n # 1 /\ 2 \in 1 .. n
  BY <1>3, <1>4
<1>6. d[2] = "SP"
  BY <1>1, <1>2, <1>5, SecondBlank
<1>7. o # 2
  BY <1>6
<1> QED
  BY <1>3, <1>4, <1>6, <1>7

\* The commands b to e make one line, and the first is one of `send`.
Joint(M, all, cut, b, e) ==
    /\ M \in Seq(Commands) /\ Laid(M, all, cut)
    /\ b \in 1 .. Len(M) /\ e \in 1 .. Len(M) /\ b < e
    /\ ~M[e].cut /\ \A k \in b .. e - 1 : M[k].cut
    /\ M[b].cmd \in Sendable

\* Such a line is a command cut short and others after it.
LEMMA JointGlued ==
    ASSUME NEW M, NEW all, NEW cut, NEW b, NEW e, Joint(M, all, cut, b, e)
    PROVE  Glued(M[b].cmd, cut[b + 1] - cut[b], SubSeq(all, cut[b] + 1, cut[e + 1] - 2))
<1>1. /\ M \in Seq(Commands) /\ Laid(M, all, cut) /\ all \in Seq(Tokens)
      /\ b \in 1 .. Len(M) /\ e \in 1 .. Len(M) /\ b < e
      /\ ~M[e].cut /\ (\A k \in b .. e - 1 : M[k].cut) /\ M[b].cmd \in Sendable
  BY DEF Joint, Laid
<1>2. PICK L \in Nat, l \in Nat : L = Len(M) /\ l = Len(all)
  BY <1>1, CutType
<1>3. PICK x \in Nat, y \in Nat, u \in Nat, v \in Nat :
        /\ x = cut[b] /\ y = cut[b + 1] /\ u = cut[e] /\ v = cut[e + 1]
        /\ x < y /\ y <= u /\ u + 3 <= v /\ v <= l
  <2>1. b + 1 \in 1 .. Len(M) + 1 /\ e \in 1 .. Len(M) + 1 /\ e + 1 \in 1 .. Len(M) + 1 /\ b + 1 <= e
    BY <1>1, <1>2
  <2>2. cut[b] \in Nat /\ cut[b + 1] \in Nat /\ cut[b] < cut[b + 1] /\ cut[e] \in Nat /\ cut[e + 1] \in Nat
    BY <1>1, CutType
  <2>3. cut[b + 1] <= cut[e]
    BY <1>1, <2>1, CutOrder
  <2>4. cut[e] + 3 <= cut[e + 1]
    BY <1>1, WholeEnds
  <2>5. cut[e + 1] <= l
    BY <1>1, <1>2, <2>1, CutType
  <2> QED
    BY <2>2, <2>3, <2>4, <2>5
<1>n. x < y /\ y <= u /\ u + 3 <= v /\ v <= l
  BY <1>3
<1>4. PICK k \in Nat : k = y - x
  BY <1>3
<1>5. PICK c : c = M[b].cmd
  OBVIOUS
<1>6. c \in Sendable \cap Written
  BY <1>1, <1>5, CommandType
<1>7. PICK T : T = SubSeq(all, x + 1, v - 2)
  OBVIOUS
<1>8. /\ T \in Seq(Tokens) /\ Len(T) = v - 2 - x
      /\ \A j \in 1 .. v - 2 - x : T[j] = all[x + j]
  <2>1. PICK h \in Nat : h = v - 1 /\ x < h /\ h <= l + 1 /\ h - 1 = v - 2 /\ h - 1 - x = v - 2 - x
    BY <1>n
  <2>2. h <= Len(all) + 1 /\ T = SubSeq(all, x + 1, h - 1)
    BY <1>2, <1>7, <2>1
  <2>3. /\ T \in Seq(Tokens) /\ Len(T) = h - 1 - x
        /\ \A j \in 1 .. h - 1 - x : T[j] = all[x + j]
    BY <1>1, <2>1, <2>2, Between
  <2> QED
    BY <2>1, <2>3
<1>9. k \in Nat \ {0} /\ k < v - 2 - x
  BY <1>3, <1>4
<1>10. k < Len(Display(c)) /\ \A j \in 1 .. k : all[x + j] = Display(c)[j]
  <2>1. M[b].cut
    BY <1>1
  <2> QED
    BY <1>1, <1>3, <1>4, <1>5, <2>1 DEF Laid
<1>11. \A j \in 1 .. k : T[j] = Display(c)[j]
  <2>1. \A j \in 1 .. k : j \in 1 .. v - 2 - x
    BY <1>3, <1>4
  <2> QED
    BY <1>8, <1>10, <2>1
<1>12. T[k + 1] \in Verbs
  <2>1. b + 1 \in 1 .. Len(M)
    BY <1>1, <1>2
  <2>2. M[b + 1].cmd \in Written
    BY <1>1, <2>1, CommandType
  <2>3. Display(M[b + 1].cmd)[1] \in Verbs
    BY <2>2, DisplayEnds DEF Written
  <2>4. PICK z \in Nat : z = cut[b + 1 + 1] /\ y < z
    BY <1>1, <1>3, <2>1, CutType
  <2>5. 1 \in 1 .. z - y
    BY <2>4
  <2>6. all[y + 1] = Display(M[b + 1].cmd)[1]
    BY <1>1, <1>3, <2>1, <2>4, <2>5 DEF Laid
  <2>7. k + 1 \in 1 .. v - 2 - x /\ x + (k + 1) = y + 1
    BY <1>3, <1>4
  <2> QED
    BY <1>8, <2>3, <2>6, <2>7
<1>13. ASSUME NEW j \in k + 2 .. v - 2 - x, T[j] = ">"
       PROVE  \E i \in k + 2 .. j - 1 : T[i] = "SP"
  <2>1. PICK q \in Nat : q = x + j /\ q \in 1 .. l /\ y + 2 <= q /\ q <= v - 2
    BY <1>3, <1>4
  <2>2. all[q] = ">"
    <3>1. j \in 1 .. v - 2 - x
      BY <1>9
    <3> QED
      BY <1>8, <1>13, <2>1, <3>1
  <2>3. PICK i \in 1 .. Len(M) : cut[i] < q /\ q <= cut[i + 1]
    BY <1>1, <1>2, <2>1, Within
  <2>4. PICK s \in Nat, t \in Nat : s = cut[i] /\ t = cut[i + 1] /\ s < t /\ s < q /\ q <= t
    BY <1>1, <2>3, CutType
  <2>5. y <= s
    <3>1. SUFFICES ASSUME i <= b PROVE FALSE
      <4>1. i \in 1 .. Len(M) + 1 /\ b + 1 \in 1 .. Len(M) + 1 /\ (~(i <= b) => b + 1 <= i)
        BY <1>1, <1>2
      <4> QED
        BY <1>1, <1>3, <2>4, <4>1, CutOrder
    <3>2. i + 1 \in 1 .. Len(M) + 1 /\ b + 1 \in 1 .. Len(M) + 1 /\ i + 1 <= b + 1
      BY <1>1, <1>2, <3>1
    <3>3. t <= y
      BY <1>1, <1>3, <2>4, <3>2, CutOrder
    <3> QED
      BY <2>1, <2>4, <3>3
  <2>6. PICK o \in Nat : o = q - s
    BY <2>4
  <2>7. PICK w \in Written : w = M[i].cmd
    BY <1>1, CommandType
  <2>8. t - s <= Len(Display(w)) /\ \A p \in 1 .. t - s : all[s + p] = Display(w)[p]
    <3>1. /\ M[i].cut => cut[i + 1] - cut[i] < Len(Display(M[i].cmd))
          /\ ~M[i].cut => cut[i + 1] - cut[i] = Len(Display(M[i].cmd))
          /\ \A p \in 1 .. cut[i + 1] - cut[i] : all[cut[i] + p] = Display(M[i].cmd)[p]
      BY <1>1 DEF Laid
    <3>2. PICK n \in Nat : n = Len(Display(w))
      <4>1. Len(Display(w)) = Len(Words(w)) + 2 /\ Len(Words(w)) \in Nat
        BY DisplayEnds
      <4> QED
        BY <4>1
    <3>3. t - s < n \/ t - s = n
      BY <2>4, <2>7, <3>1, <3>2
    <3>4. t - s <= n
      BY <2>4, <3>2, <3>3
    <3> QED
      BY <2>4, <2>7, <3>1, <3>2, <3>4
  <2>9. o \in 1 .. t - s /\ s + o = q
    BY <2>4, <2>6
  <2>10. Display(w)[o] = ">" /\ o \in 1 .. Len(Display(w))
    <3>1. PICK n \in Nat : n = Len(Display(w))
      <4>1. Len(Display(w)) = Len(Words(w)) + 2 /\ Len(Words(w)) \in Nat
        BY DisplayEnds
      <4> QED
        BY <4>1
    <3>2. o \in 1 .. n
      BY <2>4, <2>8, <2>9, <3>1
    <3> QED
      BY <2>2, <2>8, <2>9, <3>1, <3>2
  <2>11. o >= 3 /\ Display(w)[2] = "SP"
    BY <2>10, AngleLater
  <2>12. 2 \in 1 .. t - s
    BY ONLY s \in Nat, t \in Nat, o \in Nat, <2>9, <2>11
  <2>13. all[s + 2] = "SP"
    BY <2>8, <2>11, <2>12
  <2>14. PICK f \in Nat : f = s + 2 - x
    <3>1. x <= s
      BY ONLY x \in Nat, y \in Nat, s \in Nat, <1>n, <2>5
    <3>2. s + 2 - x \in Nat
      BY ONLY <3>1, x \in Nat, s \in Nat
    <3> QED
      BY ONLY <3>2
  <2>15. f \in k + 2 .. j - 1 /\ f \in 1 .. v - 2 - x /\ x + f = s + 2
    <3>1. s + 3 <= q /\ q = x + j /\ q <= v - 2
      BY ONLY s \in Nat, o \in Nat, <2>1, <2>9, <2>11
    <3>2. x + f = s + 2 /\ k + 2 <= f
      BY <1>n, <1>4, <2>5, <2>14
    <3>3. f <= j - 1 /\ f <= v - 2 - x /\ 1 <= f
      BY <3>1, <3>2
    <3> QED
      BY <3>2, <3>3
  <2>16. T[f] = "SP"
    BY <1>8, <2>13, <2>15
  <2> QED
    BY <2>15, <2>16
<1>14. Glued(c, k, T)
  BY <1>6, <1>8, <1>9, <1>10, <1>11, <1>12, <1>13 DEF Glued
<1> QED
  BY <1>3, <1>4, <1>5, <1>7, <1>14

\* An EHLO is read as one, or as no command.
LEMMA ReadEhloVerb ==
    ASSUME NEW line
    PROVE  ReadEhlo(line).verb # "MAIL"
<1>1. \A k, t, p : Command("EHLO", k, t, p).verb # "MAIL"
  BY DEF Command
<1>2. Unknown.verb # "MAIL"
  BY DEF Unknown, Command
<1> QED
  BY <1>1, <1>2 DEF ReadEhlo

\* What is read as a MAIL begins like one, and is one by its path and parameters.
LEMMA MailRead ==
    ASSUME NEW line, ReadCommand(line).verb = "MAIL"
    PROVE  /\ line[1] = "MAIL" /\ PathOk(line)
           /\ ReadCommand(line).params = [i \in DOMAIN ReadParams(line) |-> ReadParams(line)[i].param]
<1>1. \A v, k, t, p : Command(v, k, t, p).verb = v /\ Command(v, k, t, p).params = p
  BY DEF Command
<1>2. Unknown.verb = "unknown" /\ \A v : Bare(v).verb = v
  BY <1>1 DEF Unknown, Bare
<1>3. <<"HELP">>[1] = "HELP"
  OBVIOUS
<1>4. line[1] = "MAIL"
  <2>1. SUFFICES ASSUME line[1] # "MAIL" PROVE FALSE
    OBVIOUS
  <2>2. CASE line[1] \in BareVerbs /\ Len(line) = 1
    <3>1. line[1] \notin TextVerbs \cup {"MAIL", "RCPT", "EHLO", "HELP"}
      BY <2>2 DEF BareVerbs, TextVerbs
    <3>2. ReadCommand(line) = Bare(line[1])
      BY <1>3, <2>2, <3>1 DEF ReadCommand
    <3> QED
      BY <1>2, <2>1, <3>2
  <2>3. CASE line[1] \in TextVerbs /\ Len(line) > 2 /\ line[2] = "SP"
    <3>1. line[1] \notin BareVerbs \cup {"MAIL", "RCPT", "EHLO"}
      BY <2>3 DEF BareVerbs, TextVerbs
    <3>2. line # <<"HELP">>
      <4>1. Len(<<"HELP">>) = 1
        OBVIOUS
      <4> QED
        BY <2>3, <4>1
    <3>3. ReadCommand(line) = Command(line[1], "none", SubSeq(line, 3, Len(line)), <<>>)
      BY <2>3, <3>1, <3>2 DEF ReadCommand
    <3> QED
      BY <1>1, <2>1, <3>3
  <2>4. CASE line = <<"HELP">>
    <3>1. Len(line) = 1 /\ line[1] = "HELP"
      BY <2>4
    <3>2. line[1] \notin BareVerbs \cup {"MAIL", "RCPT", "EHLO"}
      BY <3>1 DEF BareVerbs
    <3>3. ReadCommand(line) = Bare("HELP")
      BY <2>4, <3>1, <3>2 DEF ReadCommand
    <3> QED
      BY <1>2, <3>3
  <2>5. CASE line[1] \in {"MAIL", "RCPT"}
    <3>1. line[1] = "RCPT"
      BY <2>1, <2>5
    <3>2. line[1] \notin BareVerbs \cup TextVerbs \cup {"EHLO", "HELP"}
      BY <3>1 DEF BareVerbs, TextVerbs
    <3>3. ReadCommand(line) = ReadPath(line)
      BY <1>3, <2>5, <3>2 DEF ReadCommand
    <3>4. ReadPath(line).verb \in {"RCPT", "unknown"}
      <4>1. CASE PathOk(line)
        <5>1. PICK q : ReadPath(line) = Command(line[1], "none", Path(line), q)
          BY <4>1, ReadPathIs
        <5> QED
          BY <1>1, <3>1, <5>1
      <4>2. CASE ~PathOk(line)
        BY <1>2, <4>2, ReadPathIs
      <4> QED
        BY <4>1, <4>2
    <3> QED
      BY <3>3, <3>4
  <2>6. CASE line[1] = "EHLO" /\ Len(line) > 2
    <3>1. line[1] \notin BareVerbs \cup TextVerbs \cup {"MAIL", "RCPT", "HELP"}
      BY <2>6 DEF BareVerbs, TextVerbs
    <3>2. ReadCommand(line) = ReadEhlo(line)
      BY <1>3, <2>6, <3>1 DEF ReadCommand
    <3>3. ReadEhlo(line).verb # "MAIL"
      BY ReadEhloVerb
    <3> QED
      BY <3>2, <3>3
  <2>7. CASE /\ ~(line[1] \in BareVerbs /\ Len(line) = 1)
             /\ ~(line[1] \in TextVerbs /\ Len(line) > 2 /\ line[2] = "SP")
             /\ line # <<"HELP">> /\ line[1] \notin {"MAIL", "RCPT"}
             /\ ~(line[1] = "EHLO" /\ Len(line) > 2)
    <3>1. ReadCommand(line) = Unknown
      BY <2>7 DEF ReadCommand
    <3> QED
      BY <1>2, <3>1
  <2> QED
    BY <2>2, <2>3, <2>4, <2>5, <2>6, <2>7
<1>5. ReadCommand(line) = ReadPath(line)
  <2>1. line[1] \notin BareVerbs \cup TextVerbs \cup {"EHLO", "HELP"}
    BY <1>4 DEF BareVerbs, TextVerbs
  <2> QED
    BY <1>3, <1>4, <2>1 DEF ReadCommand
<1>6. PathOk(line)
  BY <1>2, <1>5, ReadPathIs
<1>7. ReadCommand(line).params = [i \in DOMAIN ReadParams(line) |-> ReadParams(line)[i].param]
  BY <1>1, <1>5, <1>6, ReadPathIs
<1> QED
  BY <1>4, <1>6, <1>7

\* The parameters a server reads in a command of `send` are of its options.
LEMMA OptionsRead ==
    ASSUME NEW c \in Sendable, c \in Written, ReadCommand(Words(c)).verb = "MAIL",
           NEW i \in DOMAIN ReadCommand(Words(c)).params
    PROVE  LET p == ReadCommand(Words(c)).params[i]
           IN  \/ p.keyword = "BODY" /\ BodyOption \in ToSet(c.params)
               \/ p.keyword = "SMTPUTF8" /\ Utf8Option \in ToSet(c.params)
<1> PICK T : T = Words(c)
  OBVIOUS
<1>1. /\ T[1] = "MAIL" /\ PathOk(T) /\ ReadCommand(T).verb = "MAIL"
      /\ ReadCommand(T).params = [j \in DOMAIN ReadParams(T) |-> ReadParams(T)[j].param]
  BY MailRead
<1>2. c.verb = "MAIL"
  <2>1. /\ Len(Words(c)) \in Nat \ {0} /\ Display(c)[1] = c.verb
        /\ \A k \in 1 .. Len(Words(c)) : Display(c)[k] = Words(c)[k]
    BY DisplayEnds
  <2>2. 1 \in 1 .. Len(Words(c))
    BY <2>1
  <2> QED
    BY <1>1, <2>1, <2>2
<1>3. PICK n \in Nat : PathLine(T, c.verb, c.text, n, Parameters(c))
  BY <1>2, SendablePath
<1>4. c.text \in Seq(Plain \ {">"}) /\ Optional(Parameters(c), c.params)
  BY <1>2, SendablePath
<1> PICK P : P = Parameters(c)
  OBVIOUS
<1>5. PICK l \in Nat, p \in Nat : l = Len(T) /\ p = Len(P) /\ l = 5 + n + p
  <2>1. T \in Seq(Tokens) /\ P \in Seq(Tokens) /\ Len(T) = 5 + n + Len(P)
    BY <1>3, <1>4 DEF PathLine, Optional
  <2> QED
    BY <2>1, LenProperties
<1>6. T \in Seq(Tokens) /\ \A k \in 1 .. p : T[5 + n + k] = P[k]
  BY <1>3, <1>5 DEF PathLine
<1>7. PICK d \in Nat : d = 5 + n /\ d <= l /\ l - d = p
  BY <1>5
<1>8. Close(T) = d
  <2>1. 5 + n <= Len(T)
    BY <1>5
  <2>2. c.verb \in {"MAIL", "RCPT"}
    BY <1>2
  <2> QED
    BY <1>3, <1>4, <1>6, <1>7, <2>1, <2>2, PathCloses
<1> PICK R : R = Rest(T)
  OBVIOUS
<1>9. R \in Seq(Tokens) /\ Len(R) = p /\ \A x \in 1 .. p : R[x] = P[x]
  <2>1. R = SubSeq(T, d + 1, Len(T)) /\ d <= Len(T) /\ Len(T) - d = p
    BY <1>5, <1>7, <1>8 DEF Rest
  <2>2. R \in Seq(Tokens) /\ Len(R) = Len(T) - d /\ \A x \in 1 .. Len(T) - d : R[x] = T[d + x]
    BY <1>6, <1>7, <2>1, After
  <2> QED
    BY <1>6, <1>7, <2>1, <2>2
<1>10. i \in DOMAIN ReadParams(T) /\ ReadCommand(T).params[i] = ReadParams(T)[i].param
  BY <1>1
<1>11. R # <<>>
  <2>1. SUFFICES ASSUME R = <<>> PROVE FALSE
    OBVIOUS
  <2>2. ReadParams(T) = <<>>
    BY <2>1 DEF ReadParams
  <2> QED
    BY <1>10, <2>2
<1>12. PICK s \in Nat : s = Pieces(R, "SP") /\ s # 0
  <2>1. PICK m \in Nat : m = Cardinality(Ends(R, "SP"))
    BY <1>9, EndsType
  <2>2. 0 \in Ends(R, "SP") /\ p + 1 \in Ends(R, "SP") /\ IsFiniteSet(Ends(R, "SP"))
    BY <1>9, EndsType DEF Ends
  <2>3. m # 0
    BY <2>1, <2>2, FS_EmptySet
  <2>4. m # 1
    <3>1. 0 # p + 1
      OBVIOUS
    <3>2. \A x : Ends(R, "SP") # {x}
      BY <2>2, <3>1
    <3> QED
      BY <2>1, <2>2, <3>2, FS_Singleton
  <2> QED
    BY <2>1, <2>3, <2>4 DEF Pieces
<1>13. ReadParams(T) = [j \in 1 .. s - 1 |-> ReadParameter(Split(R, "SP")[j + 1])]
  <2>1. DOMAIN Tail(Split(R, "SP")) = 1 .. s - 1
    BY <1>9, <1>12, SplitTail
  <2> QED
    BY <1>11, <2>1 DEF ReadParams
<1>14. PICK r \in 1 .. s : r = i + 1 /\ r >= 2
  <2>1. i \in 1 .. s - 1
    BY <1>10, <1>13
  <2> QED
    BY <2>1
<1>15. ReadCommand(T).params[i] = ReadParameter(Split(R, "SP")[r]).param
  BY <1>10, <1>13, <1>14
<1> PICK E : E = Ends(R, "SP")
  OBVIOUS
<1>16. PICK lo \in E, hi \in E : Split(R, "SP")[r] = SubSeq(R, lo + 1, hi - 1) /\ lo < hi /\ lo > 0
  <2>1. r \in 1 .. Cardinality(Ends(R, "SP")) - 1
    BY <1>12 DEF Pieces
  <2> QED
    BY <1>9, <1>14, <2>1, SplitSource
<1>17. E = {0, p + 1} \cup {x \in 1 .. p : R[x] = "SP"}
  BY <1>9, EndsType DEF Ends
<1>18. lo \in 1 .. p /\ R[lo] = "SP" /\ hi \in 2 .. p + 1 /\ (hi = p + 1 \/ R[hi] = "SP")
  <2>1. lo \in 0 .. p + 1 /\ hi \in 0 .. p + 1
    BY <1>17
  <2>2. lo # 0 /\ lo # p + 1 /\ hi # 0 /\ lo \in 1 .. p /\ hi \in 2 .. p + 1
    BY <1>16, <2>1
  <2> QED
    BY <1>17, <2>2
<1>19. /\ lo < p
       /\ \/ P[lo + 1] = "BODY" /\ BodyOption \in ToSet(c.params)
          \/ P[lo + 1] = "SMTPUTF8" /\ Utf8Option \in ToSet(c.params)
  <2>1. P[lo] = "SP"
    BY <1>9, <1>18
  <2> QED
    BY <1>4, <1>5, <1>18, <2>1 DEF Optional
<1>20. lo + 1 \in 1 .. p /\ R[lo + 1] = P[lo + 1]
  <2>1. lo + 1 \in 1 .. p
    BY <1>18, <1>19
  <2> QED
    BY <1>9, <2>1
<1>21. lo + 1 < hi
  <2>1. R[lo + 1] # "SP"
    BY <1>19, <1>20
  <2>2. lo + 1 # p + 1
    BY <1>18, <1>19
  <2>3. hi # lo + 1
    BY <1>18, <2>1, <2>2
  <2> QED
    BY <1>16, <1>18, <2>3
<1> PICK q : q = SubSeq(R, lo + 1, hi - 1)
  OBVIOUS
<1>22. q # <<>> /\ q[1] = P[lo + 1]
  <2>1. lo \in Nat /\ hi \in Nat /\ lo < hi /\ hi <= Len(R) + 1
    BY <1>9, <1>16, <1>18
  <2>2. q \in Seq(Tokens) /\ Len(q) = hi - 1 - lo /\ \A x \in 1 .. hi - 1 - lo : q[x] = R[lo + x]
    BY <1>9, <2>1, Between
  <2>3. 1 \in 1 .. hi - 1 - lo /\ hi - 1 - lo # 0
    BY <1>21, <2>1
  <2> QED
    BY <1>20, <2>2, <2>3, EmptySeq
<1>23. ReadParameter(q).param.keyword = P[lo + 1]
  BY <1>22, KeywordRead
<1> QED
  BY <1>15, <1>16, <1>19, <1>23

-----------------------------------------------------------------------------
(* Pieces, and parts of a text *)

\* SMTPUTF8, which has no value.
LEMMA Utf8Read ==
    ASSUME NEW w \in Seq(Tokens), Len(w) = 1, w[1] = "SMTPUTF8"
    PROVE  ReadParameter(w).ok /\ ReadParameter(w).param = Utf8Option
<1>1. w # <<>>
  <2>1. Len(w) # 0
    OBVIOUS
  <2> QED
    BY <2>1, EmptySeq
<1>2. ReadParameter(w) = [ok |-> TRUE, param |-> [keyword |-> w[1], value |-> <<>>]]
  BY <1>1 DEF ReadParameter, Encoded
<1> QED
  BY <1>2 DEF Utf8Option

\* How it gets there: the pieces behind the first.
LEMMA PiecesRead ==
    ASSUME NEW T, NEW P \in Seq(Tokens), Rest(T) = P, P # <<>>,
           NEW s \in Nat \ {0}, Pieces(P, "SP") = s
    PROVE  ReadParams(T) = [i \in 1 .. s - 1 |-> ReadParameter(Split(P, "SP")[i + 1])]
<1>1. DOMAIN Tail(Split(P, "SP")) = 1 .. s - 1
  BY SplitTail
<1> QED
  BY <1>1 DEF ReadParams

\* The characters that may not stand in a path.
NotInPath == {"SP", "TAB", "CR", "LF", "<", "DEL", "oslash"}

-----------------------------------------------------------------------------
(* What is read of an EHLO *)

\* Joined, for a sequence and lengths that have names.
LEMMA JoinedIs ==
    ASSUME NEW s \in Seq(Tokens), NEW t \in Seq(Tokens), NEW m \in Nat, NEW n \in Nat,
           m = Len(s), n = Len(t), NEW v, v = s \o t
    PROVE  /\ v \in Seq(Tokens) /\ Len(v) = m + n
           /\ \A i \in 1 .. m : v[i] = s[i]
           /\ \A i \in 1 .. n : v[m + i] = t[i]
BY Joined

\* v is a, t and z, of the lengths m, n and k, one after the other.
Enclosing(a, t, z, v, m, n, k) ==
    /\ v \in Seq(Tokens) /\ Len(v) = m + n + k
    /\ \A i \in 1 .. m : v[i] = a[i]
    /\ \A i \in 1 .. n : v[m + i] = t[i]
    /\ \A i \in 1 .. k : v[m + n + i] = z[i]

\* What stands where in a text that is enclosed by two others.
LEMMA Enclosed ==
    ASSUME NEW a \in Seq(Tokens), NEW t \in Seq(Tokens), NEW z \in Seq(Tokens),
           NEW m \in Nat, NEW n \in Nat, NEW k \in Nat, m = Len(a), n = Len(t), k = Len(z),
           NEW u, u = a \o t, NEW v, v = u \o z
    PROVE  Enclosing(a, t, z, v, m, n, k)
<1>1. /\ u \in Seq(Tokens) /\ Len(u) = m + n
      /\ (\A i \in 1 .. m : u[i] = a[i]) /\ \A i \in 1 .. n : u[m + i] = t[i]
  BY JoinedIs
<1>2. PICK d \in Nat : d = m + n
  OBVIOUS
<1>3. /\ v \in Seq(Tokens) /\ Len(v) = d + k
      /\ (\A i \in 1 .. d : v[i] = u[i]) /\ \A i \in 1 .. k : v[d + i] = z[i]
  <2>1. d = Len(u)
    BY <1>1, <1>2
  <2> QED
    BY <1>1, <1>2, <2>1, JoinedIs
<1>4. (\A i \in 1 .. m : i \in 1 .. d) /\ \A i \in 1 .. n : m + i \in 1 .. d
  BY <1>2
<1>5. (\A i \in 1 .. m : v[i] = a[i]) /\ \A i \in 1 .. n : v[m + i] = t[i]
  BY <1>1, <1>3, <1>4
<1> QED
  BY <1>2, <1>3, <1>5 DEF Enclosing

\* A part of a text is the text it was made of.
LEMMA PartIs ==
    ASSUME NEW T \in Seq(Tokens), NEW t \in Seq(Tokens), NEW a \in Nat, NEW n \in Nat, NEW l \in Nat,
           l = Len(T), n = Len(t), a + n <= l, \A i \in 1 .. n : T[a + i] = t[i]
    PROVE  SubSeq(T, a + 1, a + n) = t
<1>1. PICK b \in Nat : b = a + n + 1 /\ a < b /\ b <= l + 1 /\ b - 1 - a = n /\ b - 1 = a + n
  <2>1. a + n + 1 \in Nat
    OBVIOUS
  <2> QED
    BY <2>1
<1>2. /\ SubSeq(T, a + 1, b - 1) \in Seq(Tokens) /\ Len(SubSeq(T, a + 1, b - 1)) = b - 1 - a
      /\ \A x \in 1 .. b - 1 - a : SubSeq(T, a + 1, b - 1)[x] = T[a + x]
  BY <1>1, Between
<1>3. PICK s : s = SubSeq(T, a + 1, a + n)
  OBVIOUS
<1>4. s \in Seq(Tokens) /\ Len(s) = n /\ \A x \in 1 .. n : s[x] = T[a + x]
  BY <1>1, <1>2, <1>3
<1>5. \A x \in 1 .. n : s[x] = t[x]
  BY <1>4
<1>6. s = t
  BY <1>4, <1>5, SeqEqual
<1> QED
  BY <1>3, <1>6

\* Two tokens and then a text.
LEMMA HeadWords ==
    ASSUME NEW w \in Seq(Tokens), NEW n \in Nat, n = Len(w), NEW c \in Tokens, NEW d \in Tokens,
           NEW T, T = <<c, d>> \o w
    PROVE  /\ T \in Seq(Tokens) /\ Len(T) = n + 2 /\ T[1] = c /\ T[2] = d
           /\ SubSeq(T, 3, Len(T)) = w
           /\ \A i \in 1 .. n : T[2 + i] = w[i]
<1>1. PICK a : a = <<c, d>>
  OBVIOUS
<1>2. a \in Seq(Tokens) /\ Len(a) = 2 /\ a[1] = c /\ a[2] = d
  BY <1>1, Pair
<1>3. /\ T \in Seq(Tokens) /\ Len(T) = 2 + n
      /\ (\A i \in 1 .. 2 : T[i] = a[i]) /\ \A i \in 1 .. n : T[2 + i] = w[i]
  BY <1>1, <1>2, Joined
<1>4. 1 \in 1 .. 2 /\ 2 \in 1 .. 2
  OBVIOUS
<1>5. T[1] = c /\ T[2] = d
  BY <1>2, <1>3, <1>4
<1>6. PICK l \in Nat : l = n + 2 /\ l = 2 + n
  OBVIOUS
<1>7. PICK b \in Nat : b = 2 /\ b + n = l /\ b + 1 = 3
  BY <1>6
<1>8. SubSeq(T, b + 1, b + n) = w
  BY <1>3, <1>6, <1>7, PartIs
<1> QED
  BY <1>3, <1>5, <1>6, <1>7, <1>8

\* What is read of an EHLO, by the text of its client id.
LEMMA ReadEhloIs ==
    ASSUME NEW T, NEW w, w = SubSeq(T, 3, Len(T)), Len(w) > 0, T[2] = "SP"
    PROVE  /\ w[1] # "[" => ReadEhlo(T) = Command("EHLO", "Domain", w, <<>>)
           /\ w[1] = "[" /\ Len(w) > 1 /\ w[Len(w)] = "]" =>
                /\ Len(w) > 2 /\ w[2] = "IPv6:" =>
                      ReadEhlo(T) = Command("EHLO", "Ipv6", SubSeq(w, 3, Len(w) - 1), <<>>)
                /\ w[2] # "IPv6:" =>
                      ReadEhlo(T) = Command("EHLO", "Ipv4", SubSeq(w, 2, Len(w) - 1), <<>>)
BY DEF ReadEhlo

\* How a client id of each kind is written.
LEMMA IdWords ==
    ASSUME NEW kind \in {"Domain", "Ipv4", "Ipv6"}, NEW t \in Seq(Tokens), NEW n \in Nat, n = Len(t),
           NEW w, w = ClientId(kind, t)
    PROVE  /\ w \in Seq(Tokens)
           /\ kind = "Domain" => w = t
           /\ kind = "Ipv4" => /\ Len(w) = n + 2 /\ w[1] = "[" /\ w[n + 2] = "]"
                               /\ \A i \in 1 .. n : w[1 + i] = t[i]
           /\ kind = "Ipv6" => /\ Len(w) = n + 3 /\ w[1] = "[" /\ w[2] = "IPv6:" /\ w[n + 3] = "]"
                               /\ \A i \in 1 .. n : w[2 + i] = t[i]
<1>t. "[" \in Tokens /\ "]" \in Tokens /\ "IPv6:" \in Tokens
  BY DEF Tokens
<1>1. CASE kind = "Domain"
  <2>1. w = t
    BY <1>1 DEF ClientId
  <2> QED
    BY <1>1, <2>1
<1>2. CASE kind = "Ipv4"
  <2>1. PICK a : a = <<"[">>
    OBVIOUS
  <2>2. PICK z : z = <<"]">>
    OBVIOUS
  <2>3. a \in Seq(Tokens) /\ Len(a) = 1 /\ a[1] = "[" /\ z \in Seq(Tokens) /\ Len(z) = 1 /\ z[1] = "]"
    BY <1>t, <2>1, <2>2, Single
  <2>4. PICK u : u = a \o t
    OBVIOUS
  <2>5. w = u \o z
    BY <1>2, <2>1, <2>2, <2>4 DEF ClientId
  <2>6. PICK m \in Nat : m = 1
    OBVIOUS
  <2>7. /\ w \in Seq(Tokens) /\ Len(w) = m + n + m
        /\ \A i \in 1 .. m : w[i] = a[i]
        /\ \A i \in 1 .. n : w[m + i] = t[i]
        /\ \A i \in 1 .. m : w[m + n + i] = z[i]
    <3>1. Enclosing(a, t, z, w, m, n, m)
      BY <2>3, <2>4, <2>5, <2>6, Enclosed
    <3> QED
      BY <3>1 DEF Enclosing
  <2>8. 1 \in 1 .. m /\ m + n + m = n + 2 /\ m + n + 1 = n + 2
    BY <2>6
  <2> QED
    BY <1>2, <2>3, <2>6, <2>7, <2>8
<1>3. CASE kind = "Ipv6"
  <2>1. PICK a : a = <<"[", "IPv6:">>
    OBVIOUS
  <2>2. PICK z : z = <<"]">>
    OBVIOUS
  <2>3. /\ a \in Seq(Tokens) /\ Len(a) = 2 /\ a[1] = "[" /\ a[2] = "IPv6:"
        /\ z \in Seq(Tokens) /\ Len(z) = 1 /\ z[1] = "]"
    BY <1>t, <2>1, <2>2, Single, Pair
  <2>4. PICK u : u = a \o t
    OBVIOUS
  <2>5. w = u \o z
    BY <1>3, <2>1, <2>2, <2>4 DEF ClientId
  <2>6. PICK m \in Nat, k \in Nat : m = 2 /\ k = 1
    OBVIOUS
  <2>7. /\ w \in Seq(Tokens) /\ Len(w) = m + n + k
        /\ \A i \in 1 .. m : w[i] = a[i]
        /\ \A i \in 1 .. n : w[m + i] = t[i]
        /\ \A i \in 1 .. k : w[m + n + i] = z[i]
    <3>1. Enclosing(a, t, z, w, m, n, k)
      BY <2>3, <2>4, <2>5, <2>6, Enclosed
    <3> QED
      BY <3>1 DEF Enclosing
  <2>8. 1 \in 1 .. m /\ 2 \in 1 .. m /\ 1 \in 1 .. k /\ m + n + k = n + 3 /\ m + n + 1 = n + 3
    BY <2>6
  <2> QED
    BY <1>3, <2>3, <2>6, <2>7, <2>8
<1> QED
  BY <1>1, <1>2, <1>3

\* An EHLO is read with the client id it was written with.
LEMMA EhloRead ==
    ASSUME NEW kind \in {"Domain", "Ipv4", "Ipv6"}, NEW t \in Seq(Tokens), IdRead(kind, t)
    PROVE  ReadCommand(Words(Command("EHLO", kind, t, <<>>))) = Command("EHLO", kind, t, <<>>)
<1>1. PICK n \in Nat : n = Len(t)
  BY LenProperties
<1>2. PICK w : w = ClientId(kind, t)
  OBVIOUS
<1>3. w \in Seq(Tokens)
  BY <1>1, <1>2, IdWords
<1>4. PICK k \in Nat \ {0} : k = Len(w)
  <2>1. CASE kind = "Domain"
    <3>1. w = t /\ t # <<>>
      BY <1>1, <1>2, <2>1, IdWords DEF IdRead
    <3> QED
      BY <1>1, <3>1, EmptySeq
  <2>2. CASE kind = "Ipv4"
    BY <1>1, <1>2, <2>2, IdWords
  <2>3. CASE kind = "Ipv6"
    BY <1>1, <1>2, <2>3, IdWords
  <2> QED
    BY <2>1, <2>2, <2>3
<1>5. PICK T : T = Words(Command("EHLO", kind, t, <<>>))
  OBVIOUS
<1>6. T = <<"EHLO", "SP">> \o w
  <2>1. PICK c : c = Command("EHLO", kind, t, <<>>)
    OBVIOUS
  <2>2. c.verb = "EHLO" /\ c.kind = kind /\ c.text = t
    BY <2>1 DEF Command
  <2>3. c.verb \notin BareVerbs /\ c.verb \notin TextVerbs
    BY <2>2 DEF BareVerbs, TextVerbs
  <2> QED
    BY <1>2, <1>5, <2>1, <2>2, <2>3 DEF Words
<1>7. T \in Seq(Tokens) /\ Len(T) = k + 2 /\ T[1] = "EHLO" /\ T[2] = "SP" /\ SubSeq(T, 3, Len(T)) = w
  <2>1. "EHLO" \in Tokens /\ "SP" \in Tokens
    BY DEF Tokens, Verbs, Characters
  <2> QED
    BY <1>3, <1>4, <1>6, <2>1, HeadWords
<1>8. ReadCommand(T) = ReadEhlo(T)
  <2>1. T[1] \notin BareVerbs \cup TextVerbs \cup {"MAIL", "RCPT"} /\ Len(T) > 2
    BY <1>4, <1>7 DEF BareVerbs, TextVerbs
  <2>2. T # <<"HELP">>
    <3>1. <<"HELP">>[1] = "HELP"
      OBVIOUS
    <3> QED
      BY <1>7, <3>1
  <2> QED
    BY <1>7, <2>1, <2>2 DEF ReadCommand
<1>9. ReadEhlo(T) = Command("EHLO", kind, t, <<>>)
  <2>1. Len(w) > 0 /\ T[2] = "SP" /\ w = SubSeq(T, 3, Len(T))
    BY <1>4, <1>7
  <2>2. CASE kind = "Domain"
    <3>1. w = t /\ w[1] # "["
      <4>1. w = t
        BY <1>1, <1>2, <2>2, IdWords
      <4>2. t[1] # "["
        BY <2>2 DEF IdRead
      <4> QED
        BY <4>1, <4>2
    <3> QED
      BY <2>1, <2>2, <3>1, ReadEhloIs
  <2>3. CASE kind = "Ipv4"
    <3>1. Len(w) = n + 2 /\ w[1] = "[" /\ w[n + 2] = "]" /\ \A i \in 1 .. n : w[1 + i] = t[i]
      BY <1>1, <1>2, <2>3, IdWords
    <3>2. w[2] # "IPv6:"
      <4>1. CASE n = 0
        BY <3>1, <4>1
      <4>2. CASE n # 0
        <5>1. 1 \in 1 .. n /\ 1 + 1 = 2
          BY <1>1, <4>2
        <5>2. w[2] = t[1]
          BY <3>1, <5>1
        <5>3. t # <<>>
          BY <1>1, <4>2, EmptySeq
        <5> QED
          BY <2>3, <5>2, <5>3 DEF IdRead
      <4> QED
        BY <4>1, <4>2
    <3>3. SubSeq(w, 2, Len(w) - 1) = t
      <4>1. PICK a \in Nat, l \in Nat : a = 1 /\ l = n + 2 /\ a + n <= l /\ a + 1 = 2 /\ a + n = l - 1
        BY <1>1
      <4>2. SubSeq(w, a + 1, a + n) = t
        BY <1>1, <1>3, <3>1, <4>1, PartIs
      <4> QED
        BY <3>1, <4>1, <4>2
    <3>4. Len(w) > 1 /\ w[Len(w)] = "]" /\ w[1] = "["
      BY <1>1, <3>1
    <3>5. ReadEhlo(T) = Command("EHLO", "Ipv4", SubSeq(w, 2, Len(w) - 1), <<>>)
      BY <2>1, <3>2, <3>4, ReadEhloIs
    <3> QED
      BY <2>3, <3>3, <3>5
  <2>4. CASE kind = "Ipv6"
    <3>1. /\ Len(w) = n + 3 /\ w[1] = "[" /\ w[2] = "IPv6:" /\ w[n + 3] = "]"
          /\ \A i \in 1 .. n : w[2 + i] = t[i]
      BY <1>1, <1>2, <2>4, IdWords
    <3>3. SubSeq(w, 3, Len(w) - 1) = t
      <4>1. PICK a \in Nat, l \in Nat : a = 2 /\ l = n + 3 /\ a + n <= l /\ a + 1 = 3 /\ a + n = l - 1
        BY <1>1
      <4>2. SubSeq(w, a + 1, a + n) = t
        BY <1>1, <1>3, <3>1, <4>1, PartIs
      <4> QED
        BY <3>1, <4>1, <4>2
    <3>4. Len(w) > 2 /\ Len(w) > 1 /\ w[Len(w)] = "]" /\ w[1] = "[" /\ w[2] = "IPv6:"
      BY <1>1, <3>1
    <3>5. ReadEhlo(T) = Command("EHLO", "Ipv6", SubSeq(w, 3, Len(w) - 1), <<>>)
      BY <2>1, <3>4, ReadEhloIs
    <3> QED
      BY <2>4, <3>3, <3>5
  <2> QED
    BY <2>2, <2>3, <2>4
<1> QED
  BY <1>5, <1>8, <1>9

-----------------------------------------------------------------------------
(* Where the parts of a flattened text are *)

\* Where the sequences of s lie in the text they make: L[k] tokens are those of the first k.
Places(s, text, L) ==
    /\ L[0] = 0
    /\ \A k \in 1 .. Len(s) : L[k - 1] \in Nat /\ Len(s[k]) \in Nat /\ L[k] \in Nat /\ L[k] = L[k - 1] + Len(s[k])
    /\ Len(text) = L[Len(s)]
    /\ \A k \in 1 .. Len(s) : \A j \in 1 .. Len(s[k]) : text[L[k - 1] + j] = s[k][j]

\* What stands where when two sequences of any kind are joined.
LEMMA JoinedAny ==
    ASSUME NEW S, NEW s \in Seq(S), NEW t \in Seq(S), NEW m \in Nat, NEW n \in Nat,
           m = Len(s), n = Len(t), NEW v, v = s \o t
    PROVE  /\ Len(v) = m + n
           /\ \A i \in 1 .. m : v[i] = s[i]
           /\ \A i \in 1 .. n : v[m + i] = t[i]
<1>1. /\ v \in Seq(S) /\ Len(v) = m + n
      /\ \A i \in 1 .. m + n : v[i] = IF i <= m THEN s[i] ELSE t[i - m]
  BY ConcatProperties
<1>2. \A i \in 1 .. m : i \in 1 .. m + n /\ i <= m
  OBVIOUS
<1>3. \A i \in 1 .. n : m + i \in 1 .. m + n /\ ~(m + i <= m) /\ m + i - m = i
  OBVIOUS
<1> QED
  BY <1>1, <1>2, <1>3

\* Each sequence has its place.
LEMMA FlattenPlaces ==
    ASSUME NEW S, NEW s \in Seq(Seq(S)), s # <<>>
    PROVE  \E L : Places(s, FlattenSeq(s), L)
<1> PICK n \in Nat \ {0} : n = Len(s)
  BY LenProperties, EmptySeq
<1>0. \A i \in 1 .. n : s[i] \in Seq(S)
  BY ElementOfSeq
<1>1. PICK g : Flat(s, S, n, g) /\ FlattenSeq(s) = g[n]
  BY FlattenIs
<1>2. \A i \in 1 .. n : g[i] \in Seq(S) /\ Len(g[i]) \in Nat /\ Len(s[i]) \in Nat
  <2>1. \A i \in 1 .. n : g[i] \in Seq(S)
    BY <1>1 DEF Flat
  <2> QED
    BY <1>0, <2>1, LenProperties
<1>3. PICK L : L[0] = 0 /\ \A i \in 1 .. n : L[i] = Len(g[i]) /\ L[i] \in Nat
  <2>1. PICK L : L = [i \in 0 .. n |-> IF i = 0 THEN 0 ELSE Len(g[i])]
    OBVIOUS
  <2>2. 0 \in 0 .. n /\ \A i \in 1 .. n : i \in 0 .. n /\ i # 0
    OBVIOUS
  <2>3. L[0] = 0
    BY <2>1, <2>2
  <2>4. \A i \in 1 .. n : L[i] = Len(g[i]) /\ L[i] \in Nat
    BY <1>2, <2>1, <2>2
  <2> QED
    BY <2>3, <2>4
<1>4. \A i \in 1 .. n : L[i - 1] \in Nat
  <2> TAKE i \in 1 .. n
  <2>1. i - 1 = 0 \/ i - 1 \in 1 .. n
    OBVIOUS
  <2> QED
    BY <1>3, <2>1
\* What is in the first k of them.
<1> DEFINE In(k) == \A i \in 1 .. k : \A j \in 1 .. Len(s[i]) : g[k][L[i - 1] + j] = s[i][j]
<1>5. ASSUME NEW k \in 1 .. n
      PROVE  /\ L[k] = L[k - 1] + Len(s[k])
             /\ \A j \in 1 .. Len(s[k]) : g[k][L[k - 1] + j] = s[k][j]
             /\ k > 1 => \A x \in 1 .. L[k - 1] : g[k][x] = g[k - 1][x]
  <2>1. CASE k = 1
    <3>0. 1 \in 1 .. n
      OBVIOUS
    <3>1. g[1] = s[1]
      BY <1>1, <3>0 DEF Flat
    <3>2. k - 1 = 0 /\ L[k - 1] = 0 /\ L[k] = Len(s[k]) /\ g[k] = s[k] /\ Len(s[k]) \in Nat
      BY <1>2, <1>3, <2>1, <3>1
    <3> QED
      BY <2>1, <3>2
  <2>2. CASE k # 1
    <3>1. k - 1 \in 1 .. n
      BY <2>2
    <3>2. g[k] = g[k - 1] \o s[k]
      BY <1>1, <2>2 DEF Flat
    <3>3. PICK a \in Seq(S), b \in Seq(S), x \in Nat, y \in Nat :
            a = g[k - 1] /\ b = s[k] /\ x = Len(a) /\ y = Len(b)
      BY <1>0, <1>2, <3>1
    <3>4. PICK v : v = a \o b
      OBVIOUS
    <3>5. /\ Len(v) = x + y
          /\ \A i \in 1 .. x : v[i] = a[i]
          /\ \A i \in 1 .. y : v[x + i] = b[i]
      <4>1. x = Len(a) /\ y = Len(b)
        BY <3>3
      <4> HIDE DEF In
      <4> QED
        BY ONLY <3>4, <4>1, JoinedAny
    <3>6. L[k - 1] = x /\ L[k] = Len(g[k]) /\ g[k] = v
      BY <1>3, <3>1, <3>2, <3>3, <3>4
    <3> QED
      BY <3>3, <3>5, <3>6
  <2> QED
    BY <2>1, <2>2
<1>6. \A k \in Nat : k \in 1 .. n => In(k)
  <2> DEFINE D == {k \in Nat : k \in 1 .. n => In(k)}
  <2>1. 0 \in D
    OBVIOUS
  <2>2. ASSUME NEW k \in Nat, k \in D PROVE k + 1 \in D
    <3> SUFFICES ASSUME k + 1 \in 1 .. n, NEW i \in 1 .. k + 1, NEW j \in 1 .. Len(s[i])
                 PROVE  g[k + 1][L[i - 1] + j] = s[i][j]
      OBVIOUS
    <3>1. CASE i = k + 1
      BY <1>5, <3>1
    <3>2. CASE i # k + 1
      <4>1. i \in 1 .. k /\ k \in 1 .. n /\ k + 1 > 1 /\ (k + 1) - 1 = k /\ i \in 1 .. n
        BY <3>2
      <4>2. g[k][L[i - 1] + j] = s[i][j]
        BY <2>2, <4>1
      <4>3. L[i] <= L[k]
        <5> DEFINE R == {m \in Nat : m \in i .. n => L[i] <= L[m]}
        <5>1. 0 \in R
          BY <4>1
        <5>2. ASSUME NEW m \in Nat, m \in R PROVE m + 1 \in R
          <6>1. CASE m + 1 \in i .. n /\ m + 1 # i
            <7>1. m \in i .. n /\ m + 1 \in 1 .. n /\ m \in 1 .. n /\ (m + 1) - 1 = m
              BY <4>1, <6>1
            <7>2. L[m + 1] = L[m] + Len(s[m + 1]) /\ Len(s[m + 1]) \in Nat /\ L[m] \in Nat /\ L[i] \in Nat
              BY <1>2, <1>3, <1>5, <4>1, <7>1
            <7>3. L[i] <= L[m]
              BY <5>2, <7>1
            <7> QED
              BY <7>2, <7>3
          <6>2. CASE m + 1 = i
            BY <1>3, <4>1, <6>2
          <6> QED
            BY <6>1, <6>2
        <5>3. Nat \subseteq R
          <6> HIDE DEF R
          <6> QED
            BY <5>1, <5>2, Induct
        <5> QED
          BY <4>1, <5>3
      <4>4. L[i] = L[i - 1] + Len(s[i]) /\ L[i - 1] \in Nat /\ Len(s[i]) \in Nat /\ L[k] \in Nat
        BY <1>2, <1>3, <1>4, <1>5, <4>1
      <4>5. L[i - 1] + j \in 1 .. L[k]
        BY <4>3, <4>4
      <4>6. \A x \in 1 .. L[k] : g[k + 1][x] = g[k][x]
        BY <1>5, <4>1
      <4> QED
        BY <4>2, <4>5, <4>6
    <3> QED
      BY <3>1, <3>2
  <2>3. Nat \subseteq D
    <3> HIDE DEF D
    <3> QED
      BY <2>1, <2>2, Induct
  <2> QED
    BY <2>3
<1>7. n \in 1 .. n /\ In(n)
  BY <1>6
<1>8. Len(FlattenSeq(s)) = L[n]
  BY <1>1, <1>3, <1>7
<1>9. Places(s, FlattenSeq(s), L)
  BY <1>1, <1>3, <1>4, <1>5, <1>7, <1>8 DEF Places
<1> QED
  BY <1>9

\* Later places are behind earlier ones.
LEMMA PlacesOrder ==
    ASSUME NEW s, NEW text, NEW L, Places(s, text, L), NEW n \in Nat, n = Len(s),
           NEW i \in 0 .. n, NEW k \in i .. n
    PROVE  L[i] \in Nat /\ L[k] \in Nat /\ L[i] <= L[k]
<1>1. \A m \in 0 .. n : L[m] \in Nat
  <2> TAKE m \in 0 .. n
  <2>1. m = 0 \/ m \in 1 .. n
    OBVIOUS
  <2> QED
    BY <2>1 DEF Places
<1>2. \A m \in 1 .. n : L[m - 1] <= L[m]
  <2> TAKE m \in 1 .. n
  <2>1. m - 1 \in 0 .. n /\ m \in 0 .. n
    OBVIOUS
  <2>2. L[m] = L[m - 1] + Len(s[m]) /\ L[m] \in Nat /\ L[m - 1] \in Nat
    BY DEF Places
  <2>3. Len(s[m]) \in Int => L[m - 1] <= L[m]
    BY <2>2
  <2> QED
    BY <2>2
<1> DEFINE R == {m \in Nat : m \in i .. n => L[i] <= L[m]}
<1>3. 0 \in R
  BY <1>1
<1>4. ASSUME NEW m \in Nat, m \in R PROVE m + 1 \in R
  <2>1. CASE m + 1 \in i .. n /\ m + 1 # i
    <3>1. m \in i .. n /\ m + 1 \in 1 .. n /\ m \in 0 .. n /\ (m + 1) - 1 = m /\ m + 1 \in 0 .. n
      BY <2>1
    <3>2. L[m] <= L[m + 1] /\ L[m] \in Nat /\ L[m + 1] \in Nat /\ L[i] \in Nat
      BY <1>1, <1>2, <3>1
    <3> QED
      BY <1>4, <3>1, <3>2
  <2>2. CASE m + 1 = i
    BY <1>1, <2>2
  <2> QED
    BY <2>1, <2>2
<1>5. Nat \subseteq R
  <2> HIDE DEF R
  <2> QED
    BY <1>3, <1>4, Induct
<1>6. k \in Nat /\ k \in 0 .. n
  OBVIOUS
<1> QED
  BY <1>1, <1>5, <1>6

-----------------------------------------------------------------------------
(* What XText writes *)

-----------------------------------------------------------------------------
(* xtext *)

\* The digits, one by one.
LEMMA HexIs ==
    /\ Len(HexDigits) = 16 /\ DOMAIN HexDigits = 1 .. 16
    /\ \A i, j \in 1 .. 16 : HexDigits[i] = HexDigits[j] => i = j
    /\ HexDigits[1] = "0" /\ HexDigits[3] = "2" /\ HexDigits[4] = "3" /\ HexDigits[10] = "9"
    /\ HexDigits[11] = "A" /\ HexDigits[12] = "B" /\ HexDigits[14] = "D"
<1> DEFINE h == HexDigits
<1>1. /\ h[1] = "0" /\ h[2] = "1" /\ h[3] = "2" /\ h[4] = "3" /\ h[5] = "4" /\ h[6] = "5"
      /\ h[7] = "6" /\ h[8] = "7" /\ h[9] = "8" /\ h[10] = "9" /\ h[11] = "A" /\ h[12] = "B"
      /\ h[13] = "C" /\ h[14] = "D" /\ h[15] = "E" /\ h[16] = "F"
  BY DEF HexDigits
<1>2. Len(h) = 16 /\ DOMAIN h = 1 .. 16
  BY DEF HexDigits
<1> HIDE DEF h
<1>3. \A i, j \in 1 .. 16 : h[i] = h[j] => i = j
  <2> TAKE i, j \in 1 .. 16
  <2>1. \/ i = 1 \/ i = 2 \/ i = 3 \/ i = 4 \/ i = 5 \/ i = 6 \/ i = 7 \/ i = 8
        \/ i = 9 \/ i = 10 \/ i = 11 \/ i = 12 \/ i = 13 \/ i = 14 \/ i = 15 \/ i = 16
    OBVIOUS
  <2>2. \/ j = 1 \/ j = 2 \/ j = 3 \/ j = 4 \/ j = 5 \/ j = 6 \/ j = 7 \/ j = 8
        \/ j = 9 \/ j = 10 \/ j = 11 \/ j = 12 \/ j = 13 \/ j = 14 \/ j = 15 \/ j = 16
    OBVIOUS
  <2> QED
    BY <1>1, <2>1, <2>2
<1> QED
  BY <1>1, <1>2, <1>3 DEF h

\* The value of each.
LEMMA HexValueIs ==
    ASSUME NEW k \in 1 .. 16
    PROVE  HexValue(HexDigits[k]) = k - 1 /\ IsHex(HexDigits[k])
<1> DEFINE I == {i \in 1 .. Len(HexDigits) : HexDigits[i] = HexDigits[k]}
<1>1. I = {k}
  BY HexIs
<1>2. SelectInSeq(HexDigits, LAMBDA d : d = HexDigits[k]) = IF I # {} THEN Min(I) ELSE 0
  BY DEF SelectInSeq
<1>3. Min({k}) = k
  <2>1. {k} \subseteq Nat /\ {k} # {}
    OBVIOUS
  <2>2. Min({k}) \in {k}
    BY <2>1, Least
  <2> QED
    BY <2>2
<1>4. SelectInSeq(HexDigits, LAMBDA d : d = HexDigits[k]) = k
  BY <1>1, <1>2, <1>3
<1>5. HexDigits[k] \in ToSet(HexDigits)
  BY HexIs DEF ToSet
<1> QED
  BY <1>4, <1>5 DEF HexValue, IsHex

\* The value of any other.
LEMMA HexRange ==
    ASSUME NEW c, IsHex(c)
    PROVE  HexValue(c) \in 0 .. 15 /\ c # "+"
<1>1. PICK k \in 1 .. 16 : c = HexDigits[k]
  BY HexIs DEF IsHex, ToSet
<1>2. HexValue(c) = k - 1
  BY <1>1, HexValueIs
<1>3. c # "+"
  <2>1. \A i \in 1 .. 16 : HexDigits[i] # "+"
    BY DEF HexDigits
  <2> QED
    BY <1>1, <2>1
<1> QED
  BY <1>2, <1>3

\* The characters XText escapes, with two digits and with one.
Escaped == {"SP", "+", "="}
Short == {"TAB", "LF", "CR"}

Wire(c) ==
    IF CodePoint[c] < 33 \/ c \in {"+", "="} THEN <<"+">> \o Hex(CodePoint[c]) ELSE <<c>>

\* No two are the same, and none is what a server makes of a single digit and another one.
LEMMA CodePointOne ==
    /\ \A c, d \in Characters : CodePoint[c] = CodePoint[d] => c = d
    /\ \A c \in Characters : CodePoint[c] \notin 144 .. 223
    /\ \A c \in Characters : CodePoint[c] < 16 <=> c \in Short
<1>1. ASSUME NEW c \in Characters
      PROVE  \/ c = "TAB" \/ c = "LF" \/ c = "CR" \/ c = "SP" \/ c = "+" \/ c = "2" \/ c = "<"
             \/ c = "=" \/ c = ">" \/ c = "@" \/ c = "A" \/ c = "a" \/ c = "DEL" \/ c = "oslash"
  BY DEF Characters
<1>2. \A c, d \in Characters : CodePoint[c] = CodePoint[d] => c = d
  <2> TAKE c, d \in Characters
  <2>1. \/ c = "TAB" \/ c = "LF" \/ c = "CR" \/ c = "SP" \/ c = "+" \/ c = "2" \/ c = "<"
        \/ c = "=" \/ c = ">" \/ c = "@" \/ c = "A" \/ c = "a" \/ c = "DEL" \/ c = "oslash"
    BY <1>1
  <2>2. \/ d = "TAB" \/ d = "LF" \/ d = "CR" \/ d = "SP" \/ d = "+" \/ d = "2" \/ d = "<"
        \/ d = "=" \/ d = ">" \/ d = "@" \/ d = "A" \/ d = "a" \/ d = "DEL" \/ d = "oslash"
    BY <1>1
  <2> QED
    BY <2>1, <2>2, CodePointIs
<1>3. \A c \in Characters : CodePoint[c] \notin 144 .. 223
  <2> TAKE c \in Characters
  <2> QED
    BY <1>1, CodePointIs
<1>4. \A c \in Characters : CodePoint[c] < 16 <=> c \in Short
  <2> TAKE c \in Characters
  <2> QED
    BY <1>1, CodePointIs DEF Short
<1> QED
  BY <1>2, <1>3, <1>4

\* What is written for each character: an escape of two digits, one of a single digit, or
\* the character.
LEMMA WireIs ==
    ASSUME NEW c \in Characters
    PROVE  LET w == Wire(c)
           IN  /\ w \in Seq(Tokens)
               /\ c \in Escaped => /\ Len(w) = 3 /\ w[1] = "+" /\ IsHex(w[2]) /\ IsHex(w[3])
                                   /\ 16 * HexValue(w[2]) + HexValue(w[3]) = CodePoint[c]
               /\ c \in Short => /\ Len(w) = 2 /\ w[1] = "+" /\ IsHex(w[2])
                                 /\ HexValue(w[2]) \in {9, 10, 13}
               /\ c \notin Escaped \cup Short => Len(w) = 1 /\ w[1] = c
<1>1. CASE c \in Escaped
  <2> PICK h \in 1 .. 16, k \in 1 .. 16 : /\ Hex(CodePoint[c]) = <<HexDigits[h], HexDigits[k]>>
                                          /\ 16 * (h - 1) + (k - 1) = CodePoint[c]
    <3>1. CASE c = "SP"
      <4>1. Hex(32) = <<HexDigits[3], HexDigits[1]>>
        BY DEF Hex
      <4> QED
        BY <3>1, <4>1, CodePointIs
    <3>2. CASE c = "+"
      <4>1. Hex(43) = <<HexDigits[3], HexDigits[12]>>
        BY DEF Hex
      <4> QED
        BY <3>2, <4>1, CodePointIs
    <3>3. CASE c = "="
      <4>1. Hex(61) = <<HexDigits[4], HexDigits[14]>>
        BY DEF Hex
      <4> QED
        BY <3>3, <4>1, CodePointIs
    <3> QED
      BY <1>1, <3>1, <3>2, <3>3 DEF Escaped
  <2>1. Wire(c) = <<"+">> \o <<HexDigits[h], HexDigits[k]>>
    BY <1>1, CodePointIs DEF Wire, Escaped
  <2>2. HexDigits[h] \in Tokens /\ HexDigits[k] \in Tokens /\ "+" \in Tokens
    <3>1. HexDigits[h] \in ToSet(HexDigits) /\ HexDigits[k] \in ToSet(HexDigits)
      BY HexValueIs DEF IsHex
    <3>2. "+" \in Characters
      BY DEF Characters
    <3> QED
      BY <3>1, <3>2 DEF Tokens
  <2>3. PICK a \in Seq(Tokens), b \in Seq(Tokens) :
          /\ a = <<"+">> /\ Len(a) = 1 /\ a[1] = "+"
          /\ b = <<HexDigits[h], HexDigits[k]>> /\ Len(b) = 2 /\ b[1] = HexDigits[h] /\ b[2] = HexDigits[k]
    <3>1. <<"+">> \in Seq(Tokens) /\ Len(<<"+">>) = 1 /\ <<"+">>[1] = "+"
      BY <2>2, Single
    <3>2. LET b == <<HexDigits[h], HexDigits[k]>>
          IN  b \in Seq(Tokens) /\ Len(b) = 2 /\ b[1] = HexDigits[h] /\ b[2] = HexDigits[k]
      BY <2>2, Pair
    <3> QED
      BY <3>1, <3>2
  <2>4. PICK w : w = Wire(c) /\ w = a \o b
    BY <2>1, <2>3
  <2>5. PICK m \in Nat, n \in Nat : m = 1 /\ n = 2
    OBVIOUS
  <2>6. w \in Seq(Tokens) /\ Len(w) = m + n /\ (\A i \in 1 .. m : w[i] = a[i]) /\ (\A i \in 1 .. n : w[m + i] = b[i])
    <3>1. m = Len(a) /\ n = Len(b) /\ w = a \o b
      BY <2>3, <2>4, <2>5
    <3> QED
      BY ONLY <3>1, JoinedIs
  <2>7. Len(w) = 3 /\ w[1] = "+" /\ w[2] = HexDigits[h] /\ w[3] = HexDigits[k]
    BY <2>3, <2>5, <2>6
  <2>8. /\ HexValue(HexDigits[h]) = h - 1 /\ IsHex(HexDigits[h])
        /\ HexValue(HexDigits[k]) = k - 1 /\ IsHex(HexDigits[k])
    BY HexValueIs
  <2>9. c \notin Short
    BY <1>1 DEF Short, Escaped
  <2> QED
    BY <1>1, <2>4, <2>6, <2>7, <2>8, <2>9
<1>2. CASE c \in Short
  <2> PICK h \in {10, 11, 14} : Hex(CodePoint[c]) = <<HexDigits[h]>>
    <3>1. CASE c = "TAB"
      BY <3>1, CodePointIs DEF Hex
    <3>2. CASE c = "LF"
      BY <3>2, CodePointIs DEF Hex
    <3>3. CASE c = "CR"
      BY <3>3, CodePointIs DEF Hex
    <3> QED
      BY <1>2, <3>1, <3>2, <3>3 DEF Short
  <2>1. Wire(c) = <<"+">> \o <<HexDigits[h]>>
    BY <1>2, CodePointIs DEF Wire, Short
  <2>2. HexDigits[h] \in Tokens /\ "+" \in Tokens
    <3>1. HexDigits[h] \in ToSet(HexDigits)
      BY HexValueIs DEF IsHex
    <3>2. "+" \in Characters
      BY DEF Characters
    <3> QED
      BY <3>1, <3>2 DEF Tokens
  <2>3. PICK a \in Seq(Tokens), b \in Seq(Tokens) :
          /\ a = <<"+">> /\ Len(a) = 1 /\ a[1] = "+"
          /\ b = <<HexDigits[h]>> /\ Len(b) = 1 /\ b[1] = HexDigits[h]
    <3>1. <<"+">> \in Seq(Tokens) /\ Len(<<"+">>) = 1 /\ <<"+">>[1] = "+"
      BY <2>2, Single
    <3>2. LET b == <<HexDigits[h]>>
          IN  b \in Seq(Tokens) /\ Len(b) = 1 /\ b[1] = HexDigits[h]
      BY <2>2, Single
    <3> QED
      BY <3>1, <3>2
  <2>4. PICK w : w = Wire(c) /\ w = a \o b
    BY <2>1, <2>3
  <2>5. PICK m \in Nat, n \in Nat : m = 1 /\ n = 1
    OBVIOUS
  <2>6. w \in Seq(Tokens) /\ Len(w) = m + n /\ (\A i \in 1 .. m : w[i] = a[i]) /\ (\A i \in 1 .. n : w[m + i] = b[i])
    <3>1. m = Len(a) /\ n = Len(b) /\ w = a \o b
      BY <2>3, <2>4, <2>5
    <3> QED
      BY ONLY <3>1, JoinedIs
  <2>7. Len(w) = 2 /\ w[1] = "+" /\ w[2] = HexDigits[h]
    BY <2>3, <2>5, <2>6
  <2>8. HexValue(HexDigits[h]) = h - 1 /\ IsHex(HexDigits[h])
    BY HexValueIs
  <2>9. c \notin Escaped
    BY <1>2 DEF Short, Escaped
  <2> QED
    BY <1>2, <2>4, <2>6, <2>7, <2>8, <2>9
<1>3. CASE c \notin Escaped \cup Short
  <2>1. ~(CodePoint[c] < 33) /\ c \notin {"+", "="}
    BY <1>3, CodePointIs DEF Characters, Escaped, Short
  <2>2. Wire(c) = <<c>>
    BY <2>1 DEF Wire
  <2>3. c \in Tokens
    BY DEF Tokens
  <2>4. <<c>> \in Seq(Tokens) /\ Len(<<c>>) = 1 /\ <<c>>[1] = c
    BY <2>3, Single
  <2> QED
    BY <1>3, <2>2, <2>4
<1> QED
  BY <1>1, <1>2, <1>3

\* T is the text of the n characters of v: L[k] tokens are those of the first k.
XLaid(v, n, T, L) ==
    /\ v \in Seq(Characters) /\ n \in Nat \ {0} /\ n = Len(v) /\ T \in Seq(Tokens)
    /\ L[0] = 0 /\ Len(T) = L[n]
    /\ \A k \in 0 .. n : L[k] \in Nat
    /\ \A i \in 0 .. n : \A k \in i .. n : L[i] <= L[k]
    /\ \A k \in 1 .. n :
        LET a == L[k - 1]
        IN  /\ v[k] \in Characters /\ a \in Nat
            /\ v[k] \in Escaped => /\ L[k] = a + 3 /\ T[a + 1] = "+" /\ IsHex(T[a + 2]) /\ IsHex(T[a + 3])
                                   /\ 16 * HexValue(T[a + 2]) + HexValue(T[a + 3]) = CodePoint[v[k]]
            /\ v[k] \in Short => /\ L[k] = a + 2 /\ T[a + 1] = "+" /\ IsHex(T[a + 2])
                                 /\ HexValue(T[a + 2]) \in {9, 10, 13}
            /\ v[k] \notin Escaped \cup Short => L[k] = a + 1 /\ T[a + 1] = v[k]

\* Where the characters of a value are in its text.
LEMMA XTextLaid ==
    ASSUME NEW v \in Seq(Characters), v # <<>>
    PROVE  \E n, L : XLaid(v, n, XText(v), L)
<1> PICK n \in Nat \ {0} : n = Len(v)
  BY LenProperties, EmptySeq
<1>1. DOMAIN v = 1 .. n /\ \A k \in 1 .. n : v[k] \in Characters
  BY LenProperties, ElementOfSeq
<1> PICK s : s = [i \in 1 .. n |-> Wire(v[i])]
  OBVIOUS
<1>2. FlattenSeq(s) = XText(v)
  BY <1>1 DEF XText, Wire
<1>3. \A k \in 1 .. n : s[k] = Wire(v[k]) /\ s[k] \in Seq(Tokens)
  BY <1>1, WireIs
<1>4. s \in Seq(Seq(Tokens)) /\ Len(s) = n /\ s # <<>>
  <2>1. s \in [1 .. n -> Seq(Tokens)]
    BY <1>3
  <2>2. s \in Seq(Seq(Tokens)) /\ Len(s) = n
    BY <2>1
  <2> QED
    BY <2>2
<1>5. PICK T : T = XText(v) /\ T \in Seq(Tokens)
  <2>1. FlattenSeq(s) \in Seq(Tokens)
    BY <1>4, FlattenType
  <2> QED
    BY <1>2, <2>1
<1>6. PICK L : Places(s, T, L)
  BY <1>2, <1>4, <1>5, FlattenPlaces
<1>7. \A i \in 0 .. n : \A k \in i .. n : L[i] \in Nat /\ L[k] \in Nat /\ L[i] <= L[k]
  BY <1>4, <1>6, PlacesOrder
<1>8. \A k \in 0 .. n : L[k] \in Nat
  <2> TAKE k \in 0 .. n
  <2>1. k \in k .. n
    OBVIOUS
  <2> QED
    BY <1>7, <2>1
<1>9. ASSUME NEW k \in 1 .. n, NEW a \in Nat, a = L[k - 1]
      PROVE  /\ v[k] \in Characters
             /\ v[k] \in Escaped => /\ L[k] = a + 3 /\ T[a + 1] = "+" /\ IsHex(T[a + 2]) /\ IsHex(T[a + 3])
                                    /\ 16 * HexValue(T[a + 2]) + HexValue(T[a + 3]) = CodePoint[v[k]]
             /\ v[k] \in Short => /\ L[k] = a + 2 /\ T[a + 1] = "+" /\ IsHex(T[a + 2])
                                  /\ HexValue(T[a + 2]) \in {9, 10, 13}
             /\ v[k] \notin Escaped \cup Short => L[k] = a + 1 /\ T[a + 1] = v[k]
  <2> PICK w : w = s[k]
    OBVIOUS
  <2>1. /\ v[k] \in Characters /\ w = Wire(v[k])
    BY <1>1, <1>3
  <2>2. L[k] = a + Len(w) /\ \A j \in 1 .. Len(w) : T[a + j] = w[j]
    <3>1. k \in 1 .. Len(s)
      BY <1>4
    <3>2. /\ L[k] = L[k - 1] + Len(s[k])
          /\ \A j \in 1 .. Len(s[k]) : T[L[k - 1] + j] = s[k][j]
      BY ONLY <1>6, <3>1 DEF Places
    <3>3. w = s[k] /\ a = L[k - 1]
      BY <1>9
    <3> QED
      BY ONLY <3>2, <3>3
  <2>3. /\ v[k] \in Escaped => /\ Len(w) = 3 /\ w[1] = "+" /\ IsHex(w[2]) /\ IsHex(w[3])
                               /\ 16 * HexValue(w[2]) + HexValue(w[3]) = CodePoint[v[k]]
        /\ v[k] \in Short => /\ Len(w) = 2 /\ w[1] = "+" /\ IsHex(w[2])
                             /\ HexValue(w[2]) \in {9, 10, 13}
        /\ v[k] \notin Escaped \cup Short => Len(w) = 1 /\ w[1] = v[k]
    BY <2>1, WireIs
  <2>4. CASE v[k] \in Escaped
    <3>1. v[k] \notin Short
      BY <2>4 DEF Escaped, Short
    <3>2. 1 \in 1 .. 3 /\ 2 \in 1 .. 3 /\ 3 \in 1 .. 3
      OBVIOUS
    <3>3. T[a + 1] = w[1] /\ T[a + 2] = w[2] /\ T[a + 3] = w[3] /\ L[k] = a + 3
      BY <2>2, <2>3, <2>4, <3>2
    <3> QED
      BY <2>1, <2>3, <2>4, <3>1, <3>3
  <2>5. CASE v[k] \in Short
    <3>1. v[k] \notin Escaped
      BY <2>5 DEF Escaped, Short
    <3>2. 1 \in 1 .. 2 /\ 2 \in 1 .. 2
      OBVIOUS
    <3>3. T[a + 1] = w[1] /\ T[a + 2] = w[2] /\ L[k] = a + 2
      BY <2>2, <2>3, <2>5, <3>2
    <3> QED
      BY <2>1, <2>3, <2>5, <3>1, <3>3
  <2>6. CASE v[k] \notin Escaped \cup Short
    <3>1. 1 \in 1 .. 1
      OBVIOUS
    <3>2. T[a + 1] = w[1] /\ L[k] = a + 1
      BY <2>2, <2>3, <2>6, <3>1
    <3> QED
      BY <2>1, <2>3, <2>6, <3>2
  <2> QED
    BY <2>4, <2>5, <2>6
<1>10. L[0] = 0 /\ Len(T) = L[n] /\ \A k \in 1 .. n : L[k - 1] \in Nat
  BY <1>4, <1>6 DEF Places
<1>11. n = Len(v) /\ T \in Seq(Tokens) /\ \A i \in 0 .. n : \A k \in i .. n : L[i] <= L[k]
  BY <1>5, <1>7
<1>12. \A k \in 1 .. n :
        LET a == L[k - 1]
        IN  /\ v[k] \in Characters /\ a \in Nat
            /\ v[k] \in Escaped => /\ L[k] = a + 3 /\ T[a + 1] = "+" /\ IsHex(T[a + 2]) /\ IsHex(T[a + 3])
                                   /\ 16 * HexValue(T[a + 2]) + HexValue(T[a + 3]) = CodePoint[v[k]]
            /\ v[k] \in Short => /\ L[k] = a + 2 /\ T[a + 1] = "+" /\ IsHex(T[a + 2])
                                 /\ HexValue(T[a + 2]) \in {9, 10, 13}
            /\ v[k] \notin Escaped \cup Short => L[k] = a + 1 /\ T[a + 1] = v[k]
  <2> TAKE k \in 1 .. n
  <2> PICK a \in Nat : a = L[k - 1]
    BY <1>10
  <2> QED
    BY <1>9
<1>13. XLaid(v, n, T, L)
  BY <1>8, <1>10, <1>11, <1>12 DEF XLaid
<1> QED
  BY <1>5, <1>13

\* Each token has its place among those that L counts.
LEMMA Owner ==
    ASSUME NEW n \in Nat, NEW L, L[0] = 0, \A k \in 0 .. n : L[k] \in Nat, NEW t \in 1 .. L[n]
    PROVE  \E k \in 1 .. n : L[k - 1] \in Nat /\ L[k] \in Nat /\ L[k - 1] < t /\ t <= L[k]
<1> DEFINE E == {m \in 0 .. n : t <= L[m]}
<1>1. n \in 0 .. n /\ L[n] \in Nat /\ t \in Nat /\ t > 0 /\ t <= L[n]
  OBVIOUS
<1>2. E \subseteq Nat /\ E # {}
  BY <1>1
<1>3. PICK k \in Nat : k \in E /\ \A m \in E : k <= m
  <2> HIDE DEF E
  <2> QED
    BY <1>2, Least
<1>4. k # 0
  BY <1>1, <1>3
<1>5. k - 1 \in 0 .. n /\ k - 1 \notin E /\ k \in 1 .. n
  BY <1>3, <1>4
<1>6. L[k - 1] \in Nat /\ L[k] \in Nat /\ L[k - 1] < t /\ t <= L[k]
  BY <1>1, <1>3, <1>5
<1> QED
  BY <1>5, <1>6

\* Each token is of one character.
LEMMA XOwner ==
    ASSUME NEW v, NEW n, NEW T, NEW L, XLaid(v, n, T, L), NEW t \in 1 .. Len(T)
    PROVE  \E k \in 1 .. n : L[k - 1] \in Nat /\ L[k] \in Nat /\ L[k - 1] < t /\ t <= L[k]
<1>1. n \in Nat /\ L[0] = 0 /\ (\A k \in 0 .. n : L[k] \in Nat) /\ Len(T) = L[n]
  BY DEF XLaid
<1> QED
  BY <1>1, Owner

\* What Decoded looks at.
Escapes(text) == {i \in DOMAIN text : text[i] = "+"}
Digits(text) == UNION {{i + 1, i + 2} : i \in Escapes(text)}
Char(text, i) ==
    LET n == 16 * HexValue(text[i + 1]) + HexValue(text[i + 2])
    IN  IF \E c \in Characters : CodePoint[c] = n
          THEN CHOOSE c \in Characters : CodePoint[c] = n
          ELSE "other"
Output(text) ==
    [i \in DOMAIN text |->
        IF i \in Digits(text) THEN <<>>
        ELSE IF i \in Escapes(text) THEN <<Char(text, i)>> ELSE <<text[i]>>]
DigitsOk(text) == \A i \in Digits(text) : i \in DOMAIN text /\ IsHex(text[i])

\* Decoded, in terms of its parts.
LEMMA DecodedIs ==
    ASSUME NEW text
    PROVE  /\ Decoded(text).ok <=> DigitsOk(text)
           /\ DigitsOk(text) => Decoded(text).value = FlattenSeq(Output(text))
BY DEF Decoded, Escapes, Digits, Char, Output, DigitsOk

\* The signs in a text: one for each character that is escaped, at its place.
LEMMA EscapesAre ==
    ASSUME NEW v, NEW n, NEW T, NEW L, XLaid(v, n, T, L)
    PROVE  /\ \A k \in 1 .. n : v[k] \in Escaped \cup Short => L[k - 1] + 1 \in Escapes(T)
           /\ \A e \in Escapes(T) : \E k \in 1 .. n : v[k] \in Escaped \cup Short /\ e = L[k - 1] + 1
<1>0. DOMAIN T = 1 .. Len(T) /\ n \in Nat \ {0} /\ Len(T) = L[n]
  <2>1. T \in Seq(Tokens)
    BY DEF XLaid
  <2>2. DOMAIN T = 1 .. Len(T)
    BY <2>1, LenProperties
  <2> QED
    BY <2>2 DEF XLaid
<1>1. ASSUME NEW k \in 1 .. n, v[k] \in Escaped \cup Short
      PROVE  L[k - 1] + 1 \in Escapes(T)
  <2>1. k \in 0 .. n /\ n \in k .. n /\ n \in 0 .. n
    BY <1>0
  <2>2. L[k] \in Nat /\ L[n] \in Nat /\ L[k] <= L[n] /\ L[k - 1] \in Nat
    BY <2>1 DEF XLaid
  <2>3. L[k - 1] + 1 <= L[k] /\ T[L[k - 1] + 1] = "+"
    BY <1>1, <2>2 DEF XLaid
  <2> QED
    BY <1>0, <2>2, <2>3 DEF Escapes
<1>2. ASSUME NEW e \in Escapes(T)
      PROVE  \E k \in 1 .. n : v[k] \in Escaped \cup Short /\ e = L[k - 1] + 1
  <2>1. e \in 1 .. Len(T) /\ T[e] = "+"
    BY <1>0 DEF Escapes
  <2>2. PICK k \in 1 .. n : L[k - 1] \in Nat /\ L[k] \in Nat /\ L[k - 1] < e /\ e <= L[k]
    BY <2>1, XOwner
  <2>3. PICK a \in Nat : a = L[k - 1] /\ a < e /\ e <= L[k] /\ e \in Nat
    BY <2>1, <2>2
  <2>4. CASE v[k] \in Escaped
    <3>1. L[k] = a + 3 /\ IsHex(T[a + 2]) /\ IsHex(T[a + 3])
      BY <2>3, <2>4 DEF XLaid
    <3>2. e = a + 1 \/ e = a + 2 \/ e = a + 3
      BY <2>3, <3>1
    <3>3. T[a + 2] # "+" /\ T[a + 3] # "+"
      BY <3>1, HexRange
    <3> QED
      BY <2>1, <2>3, <2>4, <3>2, <3>3
  <2>5. CASE v[k] \in Short
    <3>1. L[k] = a + 2 /\ IsHex(T[a + 2])
      BY <2>3, <2>5 DEF XLaid
    <3>2. e = a + 1 \/ e = a + 2
      BY <2>3, <3>1
    <3>3. T[a + 2] # "+"
      BY <3>1, HexRange
    <3> QED
      BY <2>1, <2>3, <2>5, <3>2, <3>3
  <2>6. CASE v[k] \notin Escaped \cup Short
    <3>1. L[k] = a + 1 /\ T[a + 1] = v[k]
      BY <2>3, <2>6 DEF XLaid
    <3>2. e = a + 1
      BY <2>3, <3>1
    <3> QED
      BY <2>1, <2>6, <3>1, <3>2 DEF Escaped
  <2> QED
    BY <2>4, <2>5, <2>6
<1> QED
  BY <1>1, <1>2

-----------------------------------------------------------------------------
(* XText and Decoded *)

\* What a server makes of the sign of an escape.
LEMMA CharIs ==
    ASSUME NEW text, NEW i, NEW m, m = 16 * HexValue(text[i + 1]) + HexValue(text[i + 2])
    PROVE  /\ Char(text, i) \in Characters \cup {"other"}
           /\ \A c \in Characters : CodePoint[c] = m => Char(text, i) = c
           /\ m \in 144 .. 223 => Char(text, i) = "other"
<1>1. Char(text, i) = IF \E c \in Characters : CodePoint[c] = m
                        THEN CHOOSE c \in Characters : CodePoint[c] = m ELSE "other"
  BY DEF Char
<1>2. CASE \E c \in Characters : CodePoint[c] = m
  <2>1. Char(text, i) \in Characters /\ CodePoint[Char(text, i)] = m
    BY <1>1, <1>2
  <2> QED
    BY <2>1, CodePointOne
<1>3. CASE ~\E c \in Characters : CodePoint[c] = m
  BY <1>1, <1>3
<1> QED
  BY <1>2, <1>3

\* A digit of a character below 16 with any other digit behind it.
LEMMA TwoDigits ==
    ASSUME NEW h \in {9, 10, 13}, NEW u \in 0 .. 15
    PROVE  16 * h + u \in 144 .. 223
OBVIOUS

\* It stands for no character.
LEMMA CharOther ==
    ASSUME NEW text, NEW i, NEW h \in {9, 10, 13}, NEW u \in 0 .. 15,
           h = HexValue(text[i + 1]), u = HexValue(text[i + 2])
    PROVE  Char(text, i) = "other"
<1>1. PICK m : m = 16 * h + u
  OBVIOUS
<1>2. m \in 144 .. 223
  BY <1>1, TwoDigits
<1>3. m = 16 * HexValue(text[i + 1]) + HexValue(text[i + 2])
  BY <1>1
<1> QED
  BY <1>2, <1>3, CharIs

\* What is put out for a text is a sequence of texts.
LEMMA OutputType ==
    ASSUME NEW T \in Seq(Tokens)
    PROVE  Output(T) \in Seq(Seq(Tokens \cup {"other"})) /\ Len(Output(T)) = Len(T)
<1> PICK l \in Nat : l = Len(T) /\ DOMAIN T = 1 .. l
  BY LenProperties
<1>1. \A i \in 1 .. l : T[i] \in Tokens
  BY ElementOfSeq
<1>2. \A i \in 1 .. l : Char(T, i) \in Tokens \cup {"other"}
  <2>1. \A i \in 1 .. l : Char(T, i) \in Characters \cup {"other"}
    <3> TAKE i \in 1 .. l
    <3> PICK m : m = 16 * HexValue(T[i + 1]) + HexValue(T[i + 2])
      OBVIOUS
    <3> QED
      BY CharIs
  <2> QED
    BY <2>1 DEF Tokens
<1>3. ASSUME NEW i \in 1 .. l PROVE Output(T)[i] \in Seq(Tokens \cup {"other"})
  <2>1. Output(T)[i] = <<>> \/ Output(T)[i] = <<Char(T, i)>> \/ Output(T)[i] = <<T[i]>>
    BY DEF Output
  <2>2. <<Char(T, i)>> \in Seq(Tokens \cup {"other"})
    BY <1>2, Single
  <2>3. <<T[i]>> \in Seq(Tokens \cup {"other"})
    BY <1>1, Single
  <2>4. <<>> \in Seq(Tokens \cup {"other"})
    OBVIOUS
  <2> QED
    BY <2>1, <2>2, <2>3, <2>4
<1>4. Output(T) = [i \in 1 .. l |-> Output(T)[i]]
  BY DEF Output
<1> PICK g : g = Output(T)
  OBVIOUS
<1>5. g \in [1 .. l -> Seq(Tokens \cup {"other"})]
  BY <1>3, <1>4
<1>6. g \in Seq(Seq(Tokens \cup {"other"})) /\ Len(g) = l
  BY <1>5
<1> QED
  BY <1>6

\* What is put out for the text of v, character by character: v.
PutOut(v, n, g, L) ==
    \A k \in 1 .. n :
        /\ g[L[k - 1] + 1] = <<v[k]>>
        /\ v[k] \in Escaped => /\ L[k] = L[k - 1] + 3
                               /\ g[L[k - 1] + 2] = <<>> /\ g[L[k - 1] + 3] = <<>>
        /\ v[k] \notin Escaped => L[k] = L[k - 1] + 1

\* A value without a character below 16: a server takes each escape for what it stands for.
LEMMA OutputRight ==
    ASSUME NEW v, NEW n, NEW T, NEW L, XLaid(v, n, T, L), \A k \in 1 .. n : v[k] \notin Short
    PROVE  DigitsOk(T) /\ PutOut(v, n, Output(T), L)
<1>0. DOMAIN T = 1 .. Len(T) /\ n \in Nat \ {0} /\ Len(T) = L[n]
  <2>1. T \in Seq(Tokens)
    BY DEF XLaid
  <2>2. DOMAIN T = 1 .. Len(T)
    BY <2>1, LenProperties
  <2> QED
    BY <2>2 DEF XLaid
<1>1. ASSUME NEW k \in 1 .. n
      PROVE  /\ L[k - 1] \in Nat /\ L[k] \in Nat /\ L[n] \in Nat /\ L[k] <= L[n]
             /\ \A j \in 1 .. n : /\ L[j - 1] \in Nat /\ L[j] \in Nat
                                  /\ j < k => L[j] <= L[k - 1]
                                  /\ k <= j => L[k - 1] <= L[j - 1]
  <2>1. k \in 0 .. n /\ n \in k .. n /\ n \in 0 .. n /\ k - 1 \in 0 .. n
    BY <1>0
  <2>2. L[k] <= L[n]
    BY <2>1 DEF XLaid
  <2>3. L[k - 1] \in Nat /\ L[k] \in Nat /\ L[n] \in Nat
    BY <2>1 DEF XLaid
  <2>4. ASSUME NEW j \in 1 .. n
        PROVE  /\ L[j - 1] \in Nat /\ L[j] \in Nat
               /\ j < k => L[j] <= L[k - 1]
               /\ k <= j => L[k - 1] <= L[j - 1]
    <3>1. j \in 0 .. n /\ j - 1 \in 0 .. n
      BY <1>0
    <3>2. j < k => k - 1 \in j .. n
      BY <1>0
    <3>3. k <= j => j - 1 \in k - 1 .. n
      BY <1>0
    <3> QED
      BY <2>1, <3>1, <3>2, <3>3 DEF XLaid
  <2> QED
    BY <2>2, <2>3, <2>4
<1>2. ASSUME NEW e \in Escapes(T)
      PROVE  \E k \in 1 .. n : v[k] \in Escaped /\ e = L[k - 1] + 1
  BY EscapesAre
<1>3. ASSUME NEW k \in 1 .. n, v[k] \in Escaped
      PROVE  /\ L[k] = L[k - 1] + 3 /\ IsHex(T[L[k - 1] + 2]) /\ IsHex(T[L[k - 1] + 3])
             /\ 16 * HexValue(T[L[k - 1] + 2]) + HexValue(T[L[k - 1] + 3]) = CodePoint[v[k]]
             /\ L[k - 1] + 1 \in Escapes(T)
  <2>1. L[k - 1] + 1 \in Escapes(T)
    BY <1>3, EscapesAre
  <2> QED
    BY <1>3, <2>1 DEF XLaid
<1>4. ASSUME NEW d \in Digits(T)
      PROVE  /\ d \in DOMAIN T /\ IsHex(T[d])
             /\ \A k \in 1 .. n : d # L[k - 1] + 1
  <2>1. PICK e \in Escapes(T) : d = e + 1 \/ d = e + 2
    BY DEF Digits
  <2>2. PICK j \in 1 .. n : v[j] \in Escaped /\ e = L[j - 1] + 1
    BY <1>2
  <2>3. PICK a \in Nat : a = L[j - 1]
    BY <1>1
  <2>4. L[j] = a + 3 /\ IsHex(T[a + 2]) /\ IsHex(T[a + 3]) /\ a + 3 <= L[n] /\ L[n] \in Nat
    BY <1>1, <1>3, <2>2, <2>3
  <2>5. d = a + 2 \/ d = a + 3
    BY <2>1, <2>2, <2>3
  <2>6. d \in DOMAIN T /\ IsHex(T[d])
    BY <1>0, <2>3, <2>4, <2>5
  <2>7. ASSUME NEW k \in 1 .. n
        PROVE  d # L[k - 1] + 1
    <3>1. CASE j < k
      <4>1. a + 3 <= L[k - 1] /\ L[k - 1] \in Nat
        BY <1>1, <2>4, <3>1
      <4> QED
        BY <2>3, <2>5, <4>1
    <3>2. CASE k <= j
      <4>1. L[k - 1] <= a /\ L[k - 1] \in Nat
        BY <1>1, <2>3, <3>2
      <4> QED
        BY <2>3, <2>5, <4>1
    <3> QED
      BY <3>1, <3>2
  <2> QED
    BY <2>6, <2>7
<1>5. DigitsOk(T)
  BY <1>4 DEF DigitsOk
<1>6. ASSUME NEW k \in 1 .. n
      PROVE  /\ Output(T)[L[k - 1] + 1] = <<v[k]>>
             /\ v[k] \in Escaped => /\ L[k] = L[k - 1] + 3
                                    /\ Output(T)[L[k - 1] + 2] = <<>> /\ Output(T)[L[k - 1] + 3] = <<>>
             /\ v[k] \notin Escaped => L[k] = L[k - 1] + 1
  <2> PICK a \in Nat : a = L[k - 1]
    BY <1>1
  <2>1. a + 1 \notin Digits(T)
    BY <1>4
  <2>2. CASE v[k] \in Escaped
    <3>1. L[k] = a + 3 /\ a + 1 \in Escapes(T)
      BY <1>3, <2>2
    <3>2. a + 1 \in DOMAIN T /\ a + 2 \in DOMAIN T /\ a + 3 \in DOMAIN T
      <4>1. L[n] \in Nat /\ L[k] <= L[n] /\ DOMAIN T = 1 .. L[n]
        BY <1>0, <1>1
      <4> QED
        BY ONLY a \in Nat, <3>1, <4>1
    <3>3. a + 2 \in Digits(T) /\ a + 3 \in Digits(T)
      <4>1. a + 2 = (a + 1) + 1 /\ a + 3 = (a + 1) + 2
        OBVIOUS
      <4> QED
        BY <3>1, <4>1 DEF Digits
    <3>4. Char(T, a + 1) = v[k]
      <4>1. (a + 1) + 1 = a + 2 /\ (a + 1) + 2 = a + 3
        OBVIOUS
      <4>2. PICK m : m = 16 * HexValue(T[(a + 1) + 1]) + HexValue(T[(a + 1) + 2])
        OBVIOUS
      <4>3. m = CodePoint[v[k]] /\ v[k] \in Characters
        BY <1>3, <2>2, <4>1, <4>2 DEF XLaid
      <4> QED
        BY <4>2, <4>3, CharIs
    <3>5. Output(T)[a + 1] = <<Char(T, a + 1)>> /\ Output(T)[a + 2] = <<>> /\ Output(T)[a + 3] = <<>>
      BY <2>1, <3>1, <3>2, <3>3 DEF Output
    <3> QED
      BY <2>2, <3>1, <3>4, <3>5
  <2>3. CASE v[k] \notin Escaped
    <3>1. L[k] = a + 1 /\ T[a + 1] = v[k]
      BY <2>3 DEF XLaid
    <3>2. a + 1 \in DOMAIN T
      BY <1>0, <1>1, <3>1
    <3>3. a + 1 \notin Escapes(T)
      BY <2>3, <3>1 DEF Escapes, Escaped
    <3>4. Output(T)[a + 1] = <<T[a + 1]>>
      BY <2>1, <3>2, <3>3 DEF Output
    <3> QED
      BY <2>3, <3>1, <3>4
  <2> QED
    BY <2>2, <2>3
<1> QED
  BY <1>5, <1>6 DEF PutOut

\* XText and its decoding are inverse for such values.
LEMMA DecodedRight ==
    ASSUME NEW v \in Seq(Characters), \A i \in 1 .. Len(v) : v[i] \notin Short
    PROVE  Decoded(XText(v)).ok /\ Decoded(XText(v)).value = v
<1>0. CASE v = <<>>
  <2>1. XText(v) = <<>>
    BY <1>0 DEF XText, FlattenSeq
  <2>2. Escapes(<<>>) = {} /\ Digits(<<>>) = {} /\ Output(<<>>) = <<>>
    BY DEF Escapes, Digits, Output
  <2>3. DigitsOk(<<>>) /\ FlattenSeq(<<>>) = <<>>
    BY <2>2 DEF DigitsOk, FlattenSeq
  <2> QED
    BY <1>0, <2>1, <2>2, <2>3, DecodedIs
<1>1. CASE v # <<>>
  <2>1. PICK n, L : XLaid(v, n, XText(v), L)
    BY <1>1, XTextLaid
  <2> PICK T : T = XText(v)
    OBVIOUS
  <2>2. n \in Nat \ {0} /\ n = Len(v) /\ T \in Seq(Tokens) /\ L[0] = 0 /\ Len(T) = L[n]
    BY <2>1 DEF XLaid
  <2> PICK g : g = Output(T)
    OBVIOUS
  <2>3. DigitsOk(T) /\ PutOut(v, n, g, L)
    <3>1. \A k \in 1 .. n : v[k] \notin Short
      BY <2>2
    <3> QED
      BY <2>1, <3>1, OutputRight
  <2> PICK S : S = Tokens \cup {"other"}
    OBVIOUS
  <2>4. g \in Seq(Seq(S)) /\ Len(g) = L[n]
    BY <2>2, OutputType
  <2>5. /\ \A k \in 0 .. n : L[k] \in Nat
        /\ \A k \in 1 .. n : L[k - 1] \in Nat /\ L[k] \in Nat /\ L[k] <= L[n]
    <3>1. \A k \in 1 .. n : k - 1 \in 0 .. n /\ k \in 0 .. n /\ n \in k .. n
      BY <2>2
    <3>2. \A k \in 0 .. n : L[k] \in Nat
      BY <2>1 DEF XLaid
    <3>3. \A k \in 1 .. n : L[k] <= L[n]
      BY <2>1, <3>1 DEF XLaid
    <3> QED
      BY <3>1, <3>2, <3>3
  <2>6. L[n] > 0 /\ L[n] \in Nat
    <3>1. n \in 1 .. n
      BY <2>2
    <3>2. L[n] = L[n - 1] + 3 \/ L[n] = L[n - 1] + 1
      BY <2>3, <3>1 DEF PutOut
    <3> QED
      BY <2>5, <3>1, <3>2
  <2>7. g # <<>>
    BY <2>4, <2>6
  <2> PICK w : w = FlattenSeq(g)
    OBVIOUS
  <2>8. PICK M : Places(g, w, M)
    BY <2>4, <2>7, FlattenPlaces
  <2>9. ASSUME NEW i \in 1 .. L[n]
        PROVE  /\ M[i - 1] \in Nat /\ M[i] \in Nat /\ M[i] = M[i - 1] + Len(g[i])
               /\ \A j \in 1 .. Len(g[i]) : w[M[i - 1] + j] = g[i][j]
    BY <2>4, <2>8 DEF Places
  <2>10. ASSUME NEW k \in 1 .. n
         PROVE  /\ M[L[k - 1]] \in Nat /\ M[L[k]] = M[L[k - 1]] + 1
                /\ w[M[L[k - 1]] + 1] = v[k]
    <3>1. PICK a \in Nat : a = L[k - 1] /\ L[k] \in Nat /\ L[k] <= L[n]
      BY <2>5
    <3>2. Len(<<v[k]>>) = 1 /\ <<v[k]>>[1] = v[k] /\ Len(<<>>) = 0
      OBVIOUS
    <3>3. L[k] = a + 3 \/ L[k] = a + 1
      BY <2>3, <3>1 DEF PutOut
    <3>4. a + 1 \in 1 .. L[n] /\ (a + 1) - 1 = a /\ 1 \in 1 .. 1
      BY <2>6, <3>1, <3>3
    <3>5. Len(g[a + 1]) = 1 /\ g[a + 1][1] = v[k]
      <4>1. g[a + 1] = <<v[k]>>
        BY <2>3, <3>1 DEF PutOut
      <4> QED
        BY <3>2, <4>1
    <3>6. M[a] \in Nat /\ M[a + 1] = M[a] + 1 /\ w[M[a] + 1] = v[k]
      <4>1. /\ M[(a + 1) - 1] \in Nat /\ M[a + 1] = M[(a + 1) - 1] + Len(g[a + 1])
            /\ \A j \in 1 .. Len(g[a + 1]) : w[M[(a + 1) - 1] + j] = g[a + 1][j]
        BY <2>9, <3>4
      <4> QED
        BY <3>4, <3>5, <4>1
    <3>7. CASE v[k] \in Escaped
      <4>1. L[k] = a + 3 /\ g[a + 2] = <<>> /\ g[a + 3] = <<>>
        BY <2>3, <3>1, <3>7 DEF PutOut
      <4>2. a + 2 \in 1 .. L[n] /\ a + 3 \in 1 .. L[n] /\ (a + 2) - 1 = a + 1 /\ (a + 3) - 1 = a + 2
        BY <2>6, <3>1, <4>1
      <4>3. M[a + 2] = M[a + 1] + 0 /\ M[a + 1] \in Nat
        BY <2>9, <3>2, <4>1, <4>2
      <4>4. M[a + 3] = M[a + 2] + 0 /\ M[a + 2] \in Nat
        BY <2>9, <3>2, <4>1, <4>2
      <4> QED
        BY <3>1, <3>6, <4>1, <4>3, <4>4
    <3>8. CASE v[k] \notin Escaped
      <4>1. L[k] = a + 1
        BY <2>3, <3>1, <3>8 DEF PutOut
      <4> QED
        BY <3>1, <3>6, <4>1
    <3> QED
      BY <3>7, <3>8
  <2>11. \A k \in Nat : k \in 0 .. n => M[L[k]] = k
    <3> DEFINE D == {k \in Nat : k \in 0 .. n => M[L[k]] = k}
    <3>1. 0 \in D
      BY <2>2, <2>8 DEF Places
    <3>2. ASSUME NEW k \in Nat, k \in D PROVE k + 1 \in D
      <4>1. CASE k + 1 \in 0 .. n
        <5>1. k + 1 \in 1 .. n /\ (k + 1) - 1 = k /\ k \in 0 .. n
          BY <4>1, <2>2
        <5>2. M[L[k + 1]] = M[L[k]] + 1
          BY <2>10, <5>1
        <5> QED
          BY <3>2, <5>1, <5>2
      <4> QED
        BY <4>1
    <3>3. Nat \subseteq D
      <4> HIDE DEF D
      <4> QED
        BY <3>1, <3>2, Induct
    <3> QED
      BY <3>3
  <2>12. ASSUME NEW k \in 1 .. n
         PROVE  w[k] = v[k]
    <3>1. k - 1 \in Nat /\ k - 1 \in 0 .. n /\ (k - 1) + 1 = k
      BY <2>2
    <3>2. M[L[k - 1]] = k - 1
      BY <2>11, <3>1
    <3> QED
      BY <2>10, <3>1, <3>2
  <2>13. Len(w) = n
    <3>1. n \in Nat /\ n \in 0 .. n
      BY <2>2
    <3>2. M[L[n]] = n
      BY <2>11, <3>1
    <3> QED
      BY <2>4, <2>8, <3>2 DEF Places
  <2>14. w = v
    <3>1. w \in Seq(S)
      BY <2>4, FlattenType
    <3> QED
      BY <2>2, <2>12, <2>13, <3>1, SeqEqual
  <2> QED
    BY <2>3, <2>14, DecodedIs
<1> QED
  BY <1>0, <1>1

\* A value with a character below 16: its escape is none, or stands for no character.
LEMMA DecodedWrong ==
    ASSUME NEW v \in Seq(Characters), NEW k \in 1 .. Len(v), v[k] \in Short
    PROVE  ~(Decoded(XText(v)).ok /\ Decoded(XText(v)).value = v)
<1> SUFFICES ASSUME Decoded(XText(v)).ok, Decoded(XText(v)).value = v PROVE FALSE
  OBVIOUS
<1>1. v # <<>>
  OBVIOUS
<1>2. PICK n, L : XLaid(v, n, XText(v), L)
  BY <1>1, XTextLaid
<1> PICK T : T = XText(v)
  OBVIOUS
<1>3. T \in Seq(Tokens) /\ n = Len(v) /\ k \in 1 .. n
  BY <1>2 DEF XLaid
<1>4. PICK a \in Nat : a = L[k - 1] /\ L[k] = a + 2 /\ T[a + 1] = "+" /\ HexValue(T[a + 2]) \in {9, 10, 13}
  BY <1>2, <1>3 DEF XLaid
<1>5. a + 1 \in Escapes(T)
  BY <1>2, <1>3, <1>4, EscapesAre
<1>6. DigitsOk(T) /\ v = FlattenSeq(Output(T))
  BY DecodedIs
<1>7. a + 1 \notin Digits(T)
  BY <1>4, <1>6, HexRange DEF DigitsOk
<1>8. IsHex(T[a + 3])
  <2>1. a + 3 = (a + 1) + 2
    BY <1>4
  <2>2. a + 3 \in Digits(T)
    BY <1>5, <2>1 DEF Digits
  <2> QED
    BY <1>6, <2>2 DEF DigitsOk
<1>9. Char(T, a + 1) = "other"
  <2>1. PICK h \in {9, 10, 13} : h = HexValue(T[a + 2])
    BY <1>4
  <2>2. PICK u \in 0 .. 15 : u = HexValue(T[a + 3])
    BY <1>8, HexRange
  <2>3. PICK i \in Nat : i = a + 1 /\ i + 1 = a + 2 /\ i + 2 = a + 3
    BY <1>4
  <2>4. h = HexValue(T[i + 1]) /\ u = HexValue(T[i + 2])
    BY <2>1, <2>2, <2>3
  <2>5. Char(T, i) = "other"
    BY <2>4, CharOther
  <2> QED
    BY <2>3, <2>5
<1> PICK g : g = Output(T)
  OBVIOUS
<1>10. a + 1 \in DOMAIN T /\ g[a + 1] = <<"other">>
  BY <1>5, <1>7, <1>9 DEF Output, Escapes
<1> PICK S : S = Tokens \cup {"other"}
  OBVIOUS
<1> PICK l \in Nat : l = Len(T) /\ DOMAIN T = 1 .. l
  BY <1>3, LenProperties
<1>11. g \in Seq(Seq(S)) /\ Len(g) = l /\ a + 1 \in 1 .. l
  BY <1>3, <1>10, OutputType
<1>12. g # <<>>
  BY <1>11
<1>13. PICK M : Places(g, v, M)
  BY <1>6, <1>11, <1>12, FlattenPlaces
<1>14. Len(g[a + 1]) = 1 /\ g[a + 1][1] = "other" /\ 1 \in 1 .. 1 /\ (a + 1) - 1 = a
  BY <1>4, <1>10
<1>15. v[M[a] + 1] = "other" /\ M[a] \in Nat /\ M[a + 1] = M[a] + 1
  <2>1. /\ M[(a + 1) - 1] \in Nat /\ M[a + 1] = M[(a + 1) - 1] + Len(g[a + 1])
        /\ \A j \in 1 .. Len(g[a + 1]) : v[M[(a + 1) - 1] + j] = g[a + 1][j]
    BY <1>11, <1>13 DEF Places
  <2> QED
    BY <1>14, <2>1
<1>16. M[a + 1] <= Len(v) /\ Len(v) \in Nat
  <2>1. a + 1 \in 0 .. l /\ l \in a + 1 .. l
    BY <1>11
  <2>2. M[a + 1] <= M[l]
    BY <1>11, <1>13, <2>1, PlacesOrder
  <2>3. M[l] = Len(v)
    BY <1>11, <1>13 DEF Places
  <2> QED
    BY <2>2, <2>3, LenProperties
<1>17. v[M[a] + 1] \in Characters
  <2>1. M[a] + 1 \in 1 .. Len(v)
    BY <1>15, <1>16
  <2> QED
    BY <2>1, ElementOfSeq
<1> QED
  BY <1>15, <1>17 DEF Characters

\* util.rs:14 and its reading by RFC 3461: what a server decodes from the text XText makes
\* of a value is that value, if the value has no character below 16, and only then: such
\* a character is written with one digit, and no text around it mends that.
THEOREM XTextRoundTrip ==
    ASSUME NEW v \in Seq(Characters)
    PROVE  (Decoded(XText(v)).ok /\ Decoded(XText(v)).value = v)
               <=> \A i \in 1 .. Len(v) : ~(CodePoint[v[i]] < 16)
<1>1. \A i \in 1 .. Len(v) : CodePoint[v[i]] < 16 <=> v[i] \in Short
  <2>1. \A i \in 1 .. Len(v) : v[i] \in Characters
    BY ElementOfSeq
  <2> QED
    BY <2>1, CodePointOne
<1>2. CASE \E i \in 1 .. Len(v) : v[i] \in Short
  BY <1>1, <1>2, DecodedWrong
<1>3. CASE \A i \in 1 .. Len(v) : v[i] \notin Short
  BY <1>1, <1>3, DecodedRight
<1> QED
  BY <1>2, <1>3

-----------------------------------------------------------------------------
(* What is read of a parameter *)

\* No blank is left in an xtext.
LEMMA XTextNoBlank ==
    ASSUME NEW v, NEW n, NEW T, NEW L, XLaid(v, n, T, L), NEW t \in 1 .. Len(T)
    PROVE  T[t] # "SP"
<1>1. PICK k \in 1 .. n : L[k - 1] \in Nat /\ L[k] \in Nat /\ L[k - 1] < t /\ t <= L[k]
  BY XOwner
<1>2. n \in Nat /\ Len(T) \in Nat
  <2>1. T \in Seq(Tokens)
    BY DEF XLaid
  <2> QED
    BY <2>1, LenProperties DEF XLaid
<1>3. PICK a \in Nat : a = L[k - 1] /\ a < t /\ t <= L[k] /\ t \in Nat
  BY <1>1, <1>2
<1>4. \A c : IsHex(c) => c # "SP"
  <2>1. \A i \in 1 .. 16 : HexDigits[i] # "SP"
    BY DEF HexDigits
  <2> QED
    BY <2>1, HexIs DEF IsHex, ToSet
<1>5. CASE v[k] \in Escaped
  <2>1. L[k] = a + 3 /\ T[a + 1] = "+" /\ IsHex(T[a + 2]) /\ IsHex(T[a + 3])
    BY <1>3, <1>5 DEF XLaid
  <2>2. t = a + 1 \/ t = a + 2 \/ t = a + 3
    <3>1. t <= a + 3 /\ a < t /\ t \in Nat
      BY ONLY <1>3, <2>1
    <3> QED
      BY ONLY a \in Nat, <3>1
  <2>3. T[a + 1] # "SP" /\ T[a + 2] # "SP" /\ T[a + 3] # "SP"
    BY ONLY <1>4, <2>1
  <2> QED
    BY ONLY <2>2, <2>3
<1>6. CASE v[k] \in Short
  <2>1. L[k] = a + 2 /\ T[a + 1] = "+" /\ IsHex(T[a + 2])
    BY <1>3, <1>6 DEF XLaid
  <2>2. t = a + 1 \/ t = a + 2
    BY <1>3, <2>1
  <2> QED
    BY <1>4, <2>1, <2>2
<1>7. CASE v[k] \notin Escaped \cup Short
  <2>1. L[k] = a + 1 /\ T[a + 1] = v[k]
    BY <1>3, <1>7 DEF XLaid
  <2>2. t = a + 1
    BY <1>3, <2>1
  <2> QED
    BY <1>7, <2>1, <2>2 DEF Escaped
<1> QED
  BY <1>5, <1>6, <1>7

\* The text of a value: some tokens, none of them a blank.
LEMMA XTextWords ==
    ASSUME NEW v \in Seq(Characters), v # <<>>
    PROVE  /\ XText(v) \in Seq(Tokens) /\ Len(XText(v)) > 0
           /\ \A i \in 1 .. Len(XText(v)) : XText(v)[i] # "SP"
<1>1. PICK n, L : XLaid(v, n, XText(v), L)
  BY XTextLaid
<1> PICK T : T = XText(v)
  OBVIOUS
<1>2. T \in Seq(Tokens) /\ \A i \in 1 .. Len(T) : T[i] # "SP"
  <2>1. T \in Seq(Tokens)
    BY <1>1 DEF XLaid
  <2> QED
    BY <1>1, <2>1, XTextNoBlank
<1>3. n \in Nat \ {0} /\ Len(T) = L[n]
  BY <1>1 DEF XLaid
<1>4. 1 \in 1 .. n /\ 1 - 1 = 0 /\ 1 \in 0 .. n /\ n \in 1 .. n
  BY <1>3
<1>5. L[0] = 0 /\ L[1] \in Nat /\ L[1] <= L[n]
  BY <1>1, <1>4 DEF XLaid
<1>6. L[1] = 0 + 1 \/ L[1] = 0 + 2 \/ L[1] = 0 + 3
  BY <1>1, <1>4, <1>5 DEF XLaid
<1>7. Len(T) > 0
  <2>1. Len(T) \in Nat
    BY <1>2, LenProperties
  <2> QED
    BY <1>3, <1>5, <1>6, <2>1
<1> QED
  BY <1>2, <1>7

HasShort(p) == \E c \in ToSet(p.value) : c \in Short

\* w is a text of which a server makes p, but for characters below 16.
ReadOf(w, p) ==
    /\ w \in Seq(Tokens) /\ Len(w) > 0 /\ \A i \in 1 .. Len(w) : w[i] # "SP"
    /\ (ReadParameter(w).ok /\ ReadParameter(w).param = p) <=> ~HasShort(p)

\* A parameter the crate writes as it is.
LEMMA FixedRead ==
    ASSUME NEW p \in FixedParameters
    PROVE  ReadOf(Parameter(p), p)
<1>1. PICK x \in {"8BITMIME", "7BIT", "2"} : p.value = <<x>>
  BY DEF FixedParameters
<1>2. p.keyword \in {"BODY", "SIZE"} /\ p = [keyword |-> p.keyword, value |-> p.value]
  BY DEF FixedParameters
<1>3. Parameter(p) = <<p.keyword, "=">> \o p.value
  <2>1. <<x>> # <<>>
    OBVIOUS
  <2> QED
    BY <1>1, <2>1 DEF Parameter
<1>4. x \in Tokens /\ p.keyword \in Tokens /\ "=" \in Tokens
  BY <1>2 DEF Tokens, Characters
<1> PICK v : v = p.value
  OBVIOUS
<1>5. v \in Seq(Tokens) /\ Len(v) = 1 /\ v[1] = x
  BY <1>1, <1>4, Single
<1> PICK w : w = Parameter(p)
  OBVIOUS
<1> PICK n \in Nat : n = 1
  OBVIOUS
<1>6. /\ w \in Seq(Tokens) /\ Len(w) = n + 2 /\ w[1] = p.keyword /\ w[2] = "="
      /\ SubSeq(w, 3, Len(w)) = v
      /\ \A i \in 1 .. n : w[2 + i] = v[i]
  BY <1>3, <1>4, <1>5, HeadWords
<1>7. \A i \in 1 .. Len(w) : w[i] # "SP"
  <2> TAKE i \in 1 .. Len(w)
  <2>1. i = 1 \/ i = 2 \/ i = 3
    BY <1>6
  <2>2. w[3] = x
    BY <1>5, <1>6
  <2> QED
    BY <1>2, <1>6, <2>1, <2>2
<1>8. ReadParameter(w) = [ok |-> p \in FixedParameters, param |-> p]
  <2>1. w # <<>> /\ Len(w) > 2 /\ Len(w) # 1
    <3>1. w # <<>>
      BY <1>6, EmptySeq
    <3> QED
      BY <1>6, <3>1
  <2>2. w[1] \notin Encoded /\ w[1] # "SMTPUTF8"
    BY <1>2, <1>6 DEF Encoded
  <2>3. p = [keyword |-> w[1], value |-> SubSeq(w, 3, Len(w))]
    BY <1>2, <1>6
  <2> QED
    BY <1>2, <1>6, <2>1, <2>2, <2>3 DEF ReadParameter
<1>9. ReadParameter(w).ok /\ ReadParameter(w).param = p
  <2>1. ReadParameter(w) = [ok |-> TRUE, param |-> p]
    BY <1>8
  <2>2. \A q : [ok |-> TRUE, param |-> q].ok /\ [ok |-> TRUE, param |-> q].param = q
    OBVIOUS
  <2> QED
    BY <2>1, <2>2
<1>10. ~HasShort(p)
  <2>1. ToSet(<<x>>) = {x}
    BY DEF ToSet
  <2> QED
    BY <1>1, <2>1 DEF HasShort, Short
<1> QED
  BY <1>6, <1>7, <1>9, <1>10 DEF ReadOf

\* SMTPUTF8, which has no value.
LEMMA BareRead ==
    ASSUME NEW p, p = [keyword |-> "SMTPUTF8", value |-> <<>>]
    PROVE  ReadOf(Parameter(p), p)
<1>1. Parameter(p) = <<"SMTPUTF8">>
  <2>1. p \notin FixedParameters
    <3>1. \A q \in FixedParameters : q.keyword \in {"BODY", "SIZE"}
      BY DEF FixedParameters
    <3> QED
      BY <3>1
  <2> QED
    BY <2>1 DEF Parameter
<1> PICK w : w = Parameter(p)
  OBVIOUS
<1>2. w \in Seq(Tokens) /\ Len(w) = 1 /\ w[1] = "SMTPUTF8"
  <2>1. "SMTPUTF8" \in Tokens
    BY DEF Tokens
  <2> QED
    BY <1>1, <2>1, Single
<1>3. ReadParameter(w).ok /\ ReadParameter(w).param = p
  BY <1>2, Utf8Read DEF Utf8Option
<1>4. \A i \in 1 .. Len(w) : w[i] # "SP"
  BY <1>2
<1>5. ~HasShort(p)
  <2>1. ToSet(<<>>) = {}
    BY DEF ToSet
  <2> QED
    BY <2>1 DEF HasShort
<1> QED
  BY <1>2, <1>3, <1>4, <1>5 DEF ReadOf

\* A parameter with an xtext value.
LEMMA EncodedRead ==
    ASSUME NEW p \in [keyword : Encoded, value : Seq(Characters) \ {<<>>}]
    PROVE  ReadOf(Parameter(p), p)
<1>0. p.keyword \in Tokens
  BY DEF Encoded, Tokens
<1>1. p.keyword \in Encoded /\ p.value \in Seq(Characters) /\ p.value # <<>>
      /\ p = [keyword |-> p.keyword, value |-> p.value]
  OBVIOUS
<1>2. Parameter(p) = <<p.keyword, "=">> \o XText(p.value)
  <2>1. p \notin FixedParameters
    <3>1. \A q \in FixedParameters : q.keyword \in {"BODY", "SIZE"}
      BY DEF FixedParameters
    <3> QED
      BY <1>1, <3>1 DEF Encoded
  <2> QED
    BY <1>1, <2>1 DEF Parameter
<1>3. PICK x : x = XText(p.value)
  OBVIOUS
<1>4. x \in Seq(Tokens) /\ Len(x) > 0 /\ \A i \in 1 .. Len(x) : x[i] # "SP"
  BY <1>1, <1>3, XTextWords
<1>5. PICK n \in Nat : n = Len(x) /\ n > 0
  BY <1>4, LenProperties
<1> PICK w : w = Parameter(p)
  OBVIOUS
<1>6. "=" \in Tokens
  BY DEF Tokens
<1>7. /\ w \in Seq(Tokens) /\ Len(w) = n + 2 /\ w[1] = p.keyword /\ w[2] = "="
      /\ SubSeq(w, 3, Len(w)) = x
      /\ \A i \in 1 .. n : w[2 + i] = x[i]
  BY <1>0, <1>2, <1>3, <1>4, <1>5, <1>6, HeadWords
<1>8. \A i \in 1 .. Len(w) : w[i] # "SP"
  <2> TAKE i \in 1 .. Len(w)
  <2>1. CASE i = 1
    BY <1>1, <1>7, <2>1 DEF Encoded
  <2>2. CASE i = 2
    BY <1>7, <2>2
  <2>3. CASE i # 1 /\ i # 2
    <3>1. PICK j \in 1 .. n : i = 2 + j
      <4>1. i \in 1 .. n + 2
        BY <1>7
      <4>2. i - 2 \in 1 .. n /\ i = 2 + (i - 2)
        BY <1>5, <2>3, <4>1
      <4> QED
        BY <4>2
    <3> QED
      BY <1>4, <1>5, <1>7, <3>1
  <2> QED
    BY <2>1, <2>2, <2>3
<1> PICK d : d = Decoded(x)
  OBVIOUS
<1>9. ReadParameter(w) = [ok |-> d.ok, param |-> [keyword |-> p.keyword, value |-> d.value]]
  <2>1. w # <<>> /\ Len(w) > 2 /\ Len(w) # 1
    <3>1. w # <<>>
      BY <1>5, <1>7, EmptySeq
    <3> QED
      BY <1>5, <1>7, <3>1
  <2>2. w[1] \in Encoded /\ w[1] \notin {"BODY", "SIZE", "SMTPUTF8"}
    BY <1>1, <1>7 DEF Encoded
  <2> QED
    BY <1>7, <2>1, <2>2 DEF ReadParameter
<1>10. ReadParameter(w).ok = d.ok /\ ReadParameter(w).param = [keyword |-> p.keyword, value |-> d.value]
  <2>1. PICK q, r : q = d.ok /\ r = [keyword |-> p.keyword, value |-> d.value]
    OBVIOUS
  <2>2. PICK z : z = ReadParameter(w)
    OBVIOUS
  <2>3. z = [ok |-> q, param |-> r]
    BY <1>9, <2>1, <2>2
  <2>4. z.ok = q /\ z.param = r
    BY ONLY <2>3
  <2> QED
    BY <2>1, <2>2, <2>4, Zenon
<1>11. ReadParameter(w).param = p <=> d.value = p.value
  BY <1>1, <1>10
<1>12. PICK v \in Seq(Characters) : v = p.value
  BY <1>1
<1>13. HasShort(p) <=> \E i \in 1 .. Len(v) : v[i] \in Short
  BY <1>12 DEF HasShort, ToSet
<1>14. (d.ok /\ d.value = v) <=> ~HasShort(p)
  <2>1. CASE HasShort(p)
    <3>1. PICK i \in 1 .. Len(v) : v[i] \in Short
      BY <1>13, <2>1
    <3>2. ~(Decoded(XText(v)).ok /\ Decoded(XText(v)).value = v)
      BY <3>1, DecodedWrong
    <3> QED
      BY <1>3, <1>12, <2>1, <3>2
  <2>2. CASE ~HasShort(p)
    <3>1. \A i \in 1 .. Len(v) : v[i] \notin Short
      BY <1>13, <2>2
    <3>2. Decoded(XText(v)).ok /\ Decoded(XText(v)).value = v
      BY <3>1, DecodedRight
    <3> QED
      BY <1>3, <1>12, <2>2, <3>2
  <2> QED
    BY <2>1, <2>2
<1>15. (ReadParameter(w).ok /\ ReadParameter(w).param = p) <=> ~HasShort(p)
  BY <1>10, <1>11, <1>12, <1>14, Zenon
<1>16. Len(w) > 0
  BY <1>5, <1>7
<1> QED
  BY <1>7, <1>8, <1>15, <1>16 DEF ReadOf

\* Every such parameter is read as it was meant, but for characters below 16.
LEMMA ParameterRead ==
    ASSUME NEW p \in KnownParameters
    PROVE  ReadOf(Parameter(p), p)
BY FixedRead, BareRead, EncodedRead DEF KnownParameters, Utf8Option

-----------------------------------------------------------------------------
(* What is read of the parameters of a command *)

\* R is the n texts of s, each behind a blank; L[k] tokens are those of the first k.
Blanked(s, n, R, L) ==
    /\ n \in Nat \ {0} /\ R \in Seq(Tokens)
    /\ L[0] = 0 /\ Len(R) = L[n]
    /\ \A k \in 0 .. n : L[k] \in Nat
    /\ \A i \in 0 .. n : \A k \in i .. n : L[i] <= L[k]
    /\ \A k \in 1 .. n :
        /\ s[k] \in Seq(Tokens) /\ Len(s[k]) \in Nat /\ L[k - 1] \in Nat
        /\ L[k] = L[k - 1] + 1 + Len(s[k])
        /\ R[L[k - 1] + 1] = "SP"
        /\ \A j \in 1 .. Len(s[k]) : R[L[k - 1] + 1 + j] = s[k][j] /\ s[k][j] # "SP"

\* The j-th place behind a + 1.
LEMMA StepIn ==
    ASSUME NEW m \in Nat, NEW a \in Nat, NEW j \in 1 .. m
    PROVE  1 + j \in 1 .. 1 + m /\ a + (1 + j) = a + 1 + j /\ 1 \in 1 .. 1 + m
OBVIOUS

\* A place behind a + 1 is one of the m that follow it.
LEMMA StepBetween ==
    ASSUME NEW m \in Nat, NEW a \in Nat, NEW x \in Nat, a < x, x # a + 1, x <= a + 1 + m
    PROVE  \E j \in 1 .. m : x = a + 1 + j
<1>1. PICK j \in Int : j = x - (a + 1)
  OBVIOUS
<1>2. j \in 1 .. m /\ x = a + 1 + j
  BY <1>1
<1> QED
  BY <1>2

\* Texts without blanks, put together behind a blank each.
LEMMA BlankedIs ==
    ASSUME NEW n \in Nat \ {0}, NEW s, NEW G, NEW R,
           G = [k \in 1 .. n |-> <<"SP">> \o s[k]], R = FlattenSeq(G),
           \A k \in 1 .. n : s[k] \in Seq(Tokens) /\ \A j \in 1 .. Len(s[k]) : s[k][j] # "SP"
    PROVE  \E L : Blanked(s, n, R, L)
<1>1. ASSUME NEW k \in 1 .. n
      PROVE  /\ G[k] \in Seq(Tokens) /\ Len(s[k]) \in Nat /\ Len(G[k]) = 1 + Len(s[k]) /\ G[k][1] = "SP"
             /\ \A j \in 1 .. Len(s[k]) : G[k][1 + j] = s[k][j]
  <2>1. PICK a \in Seq(Tokens) : a = <<"SP">> /\ Len(a) = 1 /\ a[1] = "SP"
    <3>1. "SP" \in Tokens
      BY DEF Tokens, Characters
    <3>2. <<"SP">> \in Seq(Tokens) /\ Len(<<"SP">>) = 1 /\ <<"SP">>[1] = "SP"
      BY <3>1, Single
    <3> QED
      BY <3>2
  <2>2. PICK b \in Seq(Tokens), m \in Nat : b = s[k] /\ m = Len(b)
    BY LenProperties
  <2>3. PICK w : w = G[k]
    OBVIOUS
  <2>4. w = a \o b
    BY <2>1, <2>2, <2>3
  <2>5. PICK o \in Nat : o = 1 /\ o = Len(a)
    BY <2>1
  <2>6. m = Len(b)
    BY <2>2
  <2>7. o = Len(a)
    BY <2>5
  <2>8. /\ w \in Seq(Tokens) /\ Len(w) = o + m
        /\ (\A i \in 1 .. o : w[i] = a[i]) /\ \A i \in 1 .. m : w[o + i] = b[i]
    BY ONLY <2>4, <2>6, <2>7, JoinedIs
  <2>9. w[1] = "SP"
    BY <2>1, <2>5, <2>8
  <2> QED
    BY <2>2, <2>3, <2>5, <2>8, <2>9
<1>2. G \in Seq(Seq(Tokens)) /\ Len(G) = n /\ G # <<>>
  <2>1. G = [k \in 1 .. n |-> G[k]]
    OBVIOUS
  <2>2. \A k \in 1 .. n : G[k] \in Seq(Tokens)
    BY <1>1
  <2>3. G \in [1 .. n -> Seq(Tokens)]
    BY ONLY <2>1, <2>2
  <2>4. G \in Seq(Seq(Tokens)) /\ Len(G) = n
    BY ONLY <2>3, n \in Nat \ {0}
  <2>5. G # <<>>
    BY ONLY <2>4, n \in Nat \ {0}
  <2> QED
    BY <2>4, <2>5
<1>3. R \in Seq(Tokens)
  BY <1>2, FlattenType
<1>4. PICK L : Places(G, R, L)
  BY <1>2, FlattenPlaces
<1>5. \A i \in 0 .. n : \A k \in i .. n : L[i] \in Nat /\ L[k] \in Nat /\ L[i] <= L[k]
  BY <1>2, <1>4, PlacesOrder
<1>6. \A k \in 0 .. n : L[k] \in Nat
  <2> TAKE k \in 0 .. n
  <2>1. k \in k .. n
    OBVIOUS
  <2> QED
    BY <1>5, <2>1
<1>7. L[0] = 0 /\ Len(R) = L[n]
  BY <1>2, <1>4 DEF Places
<1>8. ASSUME NEW k \in 1 .. n
      PROVE  /\ s[k] \in Seq(Tokens) /\ Len(s[k]) \in Nat /\ L[k - 1] \in Nat
             /\ L[k] = L[k - 1] + 1 + Len(s[k])
             /\ R[L[k - 1] + 1] = "SP"
             /\ \A j \in 1 .. Len(s[k]) : R[L[k - 1] + 1 + j] = s[k][j] /\ s[k][j] # "SP"
  <2>1. PICK a \in Nat, m \in Nat : a = L[k - 1] /\ m = Len(s[k]) /\ L[k] = a + (1 + m)
    <3>1. L[k - 1] \in Nat /\ L[k] = L[k - 1] + Len(G[k])
      BY <1>2, <1>4 DEF Places
    <3>2. Len(s[k]) \in Nat /\ Len(G[k]) = 1 + Len(s[k])
      BY <1>1
    <3> QED
      BY ONLY <3>1, <3>2
  <2>2. \A j \in 1 .. 1 + m : R[a + j] = G[k][j]
    <3>1. k \in 1 .. Len(G)
      BY <1>2
    <3>2. \A j \in 1 .. Len(G[k]) : R[L[k - 1] + j] = G[k][j]
      BY <1>4, <3>1 DEF Places
    <3>3. Len(G[k]) = 1 + m
      BY <1>1, <2>1
    <3> QED
      BY ONLY <2>1, <3>2, <3>3
  <2>3. R[a + 1] = "SP"
    <3>1. 1 \in 1 .. 1 + m
      BY ONLY m \in Nat
    <3>2. G[k][1] = "SP"
      BY <1>1
    <3> QED
      BY ONLY <2>2, <3>1, <3>2
  <2>4. ASSUME NEW j \in 1 .. m PROVE R[a + 1 + j] = s[k][j] /\ s[k][j] # "SP"
    <3>0. a \in Nat /\ m \in Nat /\ j \in 1 .. m
      BY <2>1
    <3>1. 1 + j \in 1 .. 1 + m /\ a + (1 + j) = a + 1 + j
      BY ONLY <3>0, StepIn
    <3>2. R[a + 1 + j] = G[k][1 + j]
      BY ONLY <2>2, <3>1
    <3>3. j \in 1 .. Len(s[k])
      BY <2>1
    <3>4. G[k][1 + j] = s[k][j] /\ s[k][j] # "SP"
      BY <1>1, <3>3
    <3> QED
      BY ONLY <3>2, <3>4
  <2>5. s[k] \in Seq(Tokens)
    OBVIOUS
  <2>6. L[k - 1] \in Nat /\ Len(s[k]) \in Nat /\ L[k] = L[k - 1] + 1 + Len(s[k])
    BY ONLY <2>1
  <2>7. R[L[k - 1] + 1] = "SP"
    BY ONLY <2>1, <2>3
  <2>8. \A j \in 1 .. Len(s[k]) : R[L[k - 1] + 1 + j] = s[k][j] /\ s[k][j] # "SP"
    BY ONLY <2>1, <2>4
  <2> QED
    BY <2>5, <2>6, <2>7, <2>8
<1>9. Blanked(s, n, R, L)
  BY <1>3, <1>5, <1>6, <1>7, <1>8 DEF Blanked
<1> QED
  BY <1>9

\* The ends of the pieces: the start, each blank, and the end.
LEMMA BlankedEnds ==
    ASSUME NEW s, NEW n, NEW R, NEW L, Blanked(s, n, R, L), NEW E, E = Ends(R, "SP")
    PROVE  /\ \A j \in 0 .. n : L[j] + 1 \in E
           /\ 0 \in E
           /\ \A x \in E : x = 0 \/ \E j \in 0 .. n : x = L[j] + 1
<1>0. n \in Nat \ {0} /\ DOMAIN R = 1 .. Len(R) /\ Len(R) = L[n]
  <2>1. R \in Seq(Tokens)
    BY DEF Blanked
  <2>2. DOMAIN R = 1 .. Len(R)
    BY <2>1, LenProperties
  <2> QED
    BY <2>2 DEF Blanked
<1>1. ASSUME NEW j \in 0 .. n PROVE L[j] + 1 \in E
  <2>1. CASE j = n
    BY <1>0, <2>1 DEF Ends
  <2>2. CASE j # n
    <3>1. j + 1 \in 1 .. n /\ (j + 1) - 1 = j /\ j + 1 \in 0 .. n /\ n \in j + 1 .. n /\ n \in 0 .. n
      BY <1>0, <2>2
    <3>2. R[L[j] + 1] = "SP" /\ L[j + 1] = L[j] + 1 + Len(s[j + 1]) /\ L[j] \in Nat /\ Len(s[j + 1]) \in Nat
      BY <3>1 DEF Blanked
    <3>3. L[j + 1] <= L[n] /\ L[n] \in Nat /\ L[j + 1] \in Nat
      BY <3>1 DEF Blanked
    <3>4. L[j] + 1 \in 1 .. L[n]
      BY <3>2, <3>3
    <3> QED
      BY <1>0, <3>2, <3>4 DEF Ends
  <2> QED
    BY <2>1, <2>2
<1>2. 0 \in E
  BY DEF Ends
<1>3. ASSUME NEW x \in E, x # 0 PROVE \E j \in 0 .. n : x = L[j] + 1
  <2>1. x = L[n] + 1 \/ (x \in 1 .. L[n] /\ R[x] = "SP")
    BY <1>0, <1>3 DEF Ends
  <2>2. CASE x = L[n] + 1
    <3>1. n \in 0 .. n
      BY <1>0
    <3> QED
      BY <2>2, <3>1
  <2>3. CASE x \in 1 .. L[n] /\ R[x] = "SP"
    <3>1. n \in Nat /\ L[0] = 0 /\ \A k \in 0 .. n : L[k] \in Nat
      BY DEF Blanked
    <3>2. PICK k \in 1 .. n : L[k - 1] \in Nat /\ L[k] \in Nat /\ L[k - 1] < x /\ x <= L[k]
      BY <2>3, <3>1, Owner
    <3>3. PICK a \in Nat, m \in Nat : a = L[k - 1] /\ m = Len(s[k]) /\ a < x /\ x <= a + 1 + m /\ x \in Nat
      <4>1. L[k] = L[k - 1] + 1 + Len(s[k]) /\ Len(s[k]) \in Nat
        BY DEF Blanked
      <4>2. x \in Nat
        BY <2>3, <3>1
      <4> QED
        BY <3>2, <4>1, <4>2
    <3>4. x = a + 1
      <4>1. SUFFICES ASSUME x # a + 1 PROVE FALSE
        OBVIOUS
      <4>2. a \in Nat /\ m \in Nat /\ x \in Nat /\ a < x /\ x <= a + 1 + m
        BY <3>3
      <4>3. PICK j \in 1 .. m : x = a + 1 + j
        BY ONLY <4>1, <4>2, StepBetween
      <4>4. R[a + 1 + j] # "SP"
        BY <3>3 DEF Blanked
      <4> QED
        BY <2>3, <4>3, <4>4
    <3>5. k - 1 \in 0 .. n
      BY <1>0
    <3> QED
      BY <3>3, <3>4, <3>5
  <2> QED
    BY <2>1, <2>2, <2>3
<1> QED
  BY <1>1, <1>2, <1>3

\* The texts are the pieces, but for the first, which is empty.
LEMMA BlankedSplit ==
    ASSUME NEW s, NEW n, NEW R, NEW L, Blanked(s, n, R, L)
    PROVE  /\ Pieces(R, "SP") = n + 1
           /\ \A k \in 1 .. n : Split(R, "SP")[k + 1] = s[k]
<1> PICK E : E = Ends(R, "SP")
  OBVIOUS
<1>1. n \in Nat \ {0} /\ R \in Seq(Tokens) /\ Len(R) = L[n] /\ L[0] = 0 /\ \A k \in 0 .. n : L[k] \in Nat
  BY DEF Blanked
<1>2. E \in SUBSET Nat /\ IsFiniteSet(E)
  BY <1>1, EndsType
<1>3. /\ \A j \in 0 .. n : L[j] + 1 \in E
      /\ 0 \in E
      /\ \A x \in E : x = 0 \/ \E j \in 0 .. n : x = L[j] + 1
  BY BlankedEnds
<1>4. ASSUME NEW j \in 0 .. n, NEW k \in 0 .. n, j < k
      PROVE  L[j] \in Nat /\ L[k] \in Nat /\ L[j] < L[k]
  <2>1. k \in 1 .. n /\ j \in 0 .. n /\ k - 1 \in j .. n /\ k - 1 \in 0 .. n
    BY <1>1, <1>4
  <2>2. L[j] <= L[k - 1] /\ L[k] = L[k - 1] + 1 + Len(s[k]) /\ L[k - 1] \in Nat /\ Len(s[k]) \in Nat
    BY <2>1 DEF Blanked
  <2>3. L[j] \in Nat /\ L[k] \in Nat
    BY <1>1
  <2> QED
    BY <2>2, <2>3
<1>5. Cardinality(Before(E, 0)) = 0
  <2>1. Before(E, 0) = {}
    BY <1>2 DEF Before
  <2> QED
    BY <2>1, FS_EmptySet
<1>6. \A j \in Nat : j \in 0 .. n => Cardinality(Before(E, L[j] + 1)) = j + 1
  <2> DEFINE D == {j \in Nat : j \in 0 .. n => Cardinality(Before(E, L[j] + 1)) = j + 1}
  <2>1. 0 \in D
    <3>1. PICK d \in E, e \in E : d = 0 /\ e = L[0] + 1
      <4>1. 0 \in 0 .. n
        BY <1>1
      <4> QED
        BY <1>3, <4>1
    <3>2. d < e /\ e = 1
      BY <1>1, <3>1
    <3>3. \A x \in E : ~(d < x /\ x < e)
      BY <1>2, <3>1, <3>2
    <3>4. Cardinality(Before(E, e)) = Cardinality(Before(E, d)) + 1
      BY <1>2, <3>2, <3>3, BeforeNext
    <3> QED
      BY <1>5, <3>1, <3>4
  <2>2. ASSUME NEW j \in Nat, j \in D PROVE j + 1 \in D
    <3> SUFFICES ASSUME j + 1 \in 0 .. n PROVE Cardinality(Before(E, L[j + 1] + 1)) = (j + 1) + 1
      OBVIOUS
    <3>1. j \in 0 .. n /\ j + 1 \in 0 .. n /\ j < j + 1
      BY <1>1
    <3>2. L[j] \in Nat /\ L[j + 1] \in Nat /\ L[j] < L[j + 1]
      BY <1>4, <3>1
    <3>3. PICK d \in E, e \in E : d = L[j] + 1 /\ e = L[j + 1] + 1
      BY <1>3, <3>1
    <3>4. d < e
      BY <3>2, <3>3
    <3>5. ASSUME NEW x \in E PROVE ~(d < x /\ x < e)
      <4>1. CASE x = 0
        BY <3>2, <3>3, <4>1
      <4>2. CASE \E i \in 0 .. n : x = L[i] + 1
        <5>1. PICK i \in 0 .. n : x = L[i] + 1
          BY <4>2
        <5>2. i < j \/ i = j \/ i = j + 1 \/ j + 1 < i
          OBVIOUS
        <5>3. L[i] \in Nat
          BY <1>1
        <5>4. CASE i < j
          <6>1. L[i] < L[j]
            BY <1>4, <3>1, <5>4
          <6> QED
            BY <3>2, <3>3, <5>1, <5>3, <6>1
        <5>5. CASE i = j \/ i = j + 1
          BY <3>2, <3>3, <5>1, <5>5
        <5>6. CASE j + 1 < i
          <6>1. L[j + 1] < L[i]
            BY <1>4, <3>1, <5>6
          <6> QED
            BY <3>2, <3>3, <5>1, <5>3, <6>1
        <5> QED
          BY <5>2, <5>4, <5>5, <5>6
      <4> QED
        BY <1>3, <4>1, <4>2
    <3>6. Cardinality(Before(E, e)) = Cardinality(Before(E, d)) + 1
      BY <1>2, <3>4, <3>5, BeforeNext
    <3>7. Cardinality(Before(E, d)) = j + 1
      BY <2>2, <3>1, <3>3
    <3> QED
      BY <3>3, <3>6, <3>7
  <2>3. Nat \subseteq D
    <3> HIDE DEF D
    <3> QED
      BY <2>1, <2>2, Induct
  <2> QED
    BY <2>3
<1>7. ASSUME NEW j \in 0 .. n PROVE At(E, j + 1) = L[j] + 1
  <2>1. PICK e \in E : e = L[j] + 1
    BY <1>3
  <2>2. Cardinality(Before(E, e)) = j + 1
    BY <1>6, <2>1
  <2>3. At(E, Cardinality(Before(E, e))) = e
    BY <1>2, AtIs
  <2> QED
    BY <2>1, <2>2, <2>3
<1>8. Cardinality(E) = n + 2
  <2>1. PICK e \in E : e = L[n] + 1
    <3>1. n \in 0 .. n
      BY <1>1
    <3> QED
      BY <1>3, <3>1
  <2>2. Cardinality(Before(E, e)) = n + 1
    <3>1. n \in 0 .. n /\ n \in Nat
      BY <1>1
    <3> QED
      BY <1>6, <2>1, <3>1
  <2>3. E = Before(E, e) \cup {e}
    <3>1. ASSUME NEW x \in E, x # e PROVE x < e
      <4>1. CASE x = 0
        <5>1. L[n] \in Nat
          BY <1>1
        <5> QED
          BY <2>1, <4>1, <5>1
      <4>2. CASE \E i \in 0 .. n : x = L[i] + 1
        <5>1. PICK i \in 0 .. n : x = L[i] + 1
          BY <4>2
        <5>2. i < n /\ n \in 0 .. n
          BY <1>1, <2>1, <3>1, <5>1
        <5>3. L[i] \in Nat /\ L[n] \in Nat /\ L[i] < L[n]
          BY <1>4, <5>2
        <5> QED
          BY <2>1, <5>1, <5>3
      <4> QED
        BY <1>3, <4>1, <4>2
    <3> QED
      BY <3>1 DEF Before
  <2>4. e \notin Before(E, e) /\ IsFiniteSet(Before(E, e))
    <3>1. e \in Nat
      BY <1>2
    <3>2. e \notin Before(E, e)
      BY <3>1 DEF Before
    <3> QED
      BY <1>2, <3>2, BeforeFinite
  <2>5. Cardinality(Before(E, e) \cup {e}) = Cardinality(Before(E, e)) + 1
    BY <2>4, FS_AddElement
  <2>6. PICK p \in Nat : p = n
    BY <1>1
  <2>7. Cardinality(E) = (p + 1) + 1
    BY ONLY <2>2, <2>3, <2>5, <2>6
  <2> QED
    BY ONLY <2>6, <2>7
<1>9. Pieces(R, "SP") = n + 1
  BY <1>1, <1>8 DEF Pieces
<1>10. ASSUME NEW k \in 1 .. n PROVE Split(R, "SP")[k + 1] = s[k]
  <2>1. k + 1 \in 1 .. Cardinality(E) - 1
    BY <1>1, <1>8
  <2>2. Split(R, "SP")[k + 1] = SubSeq(R, At(E, (k + 1) - 1) + 1, At(E, k + 1) - 1)
    BY <2>1, SplitIs
  <2>3. k - 1 \in 0 .. n /\ k \in 0 .. n /\ (k - 1) + 1 = k /\ (k + 1) - 1 = k
    BY <1>1
  <2>4. At(E, k) = L[k - 1] + 1 /\ At(E, k + 1) = L[k] + 1
    BY <1>7, <2>3
  <2>5. PICK a \in Nat, m \in Nat, l \in Nat :
          /\ a = L[k - 1] + 1 /\ m = Len(s[k]) /\ l = L[n] /\ L[k] = a + m /\ L[k] <= l
    <3>1. n \in k .. n /\ n \in 0 .. n
      BY <1>1
    <3>2. /\ L[k - 1] \in Nat /\ Len(s[k]) \in Nat /\ L[n] \in Nat /\ L[k] <= L[n]
          /\ L[k] = L[k - 1] + 1 + Len(s[k])
      BY <2>3, <3>1 DEF Blanked
    <3> QED
      BY <3>2
  <2>6. \A j \in 1 .. m : R[a + j] = s[k][j]
    BY <2>5 DEF Blanked
  <2>7. s[k] \in Seq(Tokens)
    BY DEF Blanked
  <2>8. PICK t \in Seq(Tokens) : t = s[k]
    BY <2>7
  <2>9. SubSeq(R, a + 1, a + m) = t
    <3>1. l = Len(R) /\ m = Len(t) /\ a + m <= l /\ \A j \in 1 .. m : R[a + j] = t[j]
      BY <1>1, <2>5, <2>6, <2>8
    <3>2. R \in Seq(Tokens)
      BY <1>1
    <3> QED
      BY ONLY a \in Nat, m \in Nat, l \in Nat, t \in Seq(Tokens), <3>1, <3>2, PartIs
  <2>10. (L[k] + 1) - 1 = a + m /\ L[k - 1] + 1 = a
    BY <2>5
  <2> QED
    BY <2>2, <2>3, <2>4, <2>8, <2>9, <2>10
<1> QED
  BY <1>9, <1>10

\* A server finds n parameters in T, and makes of each what it says.
ReadsEach(T, params, n) ==
    /\ n \in Nat /\ params \in Seq(KnownParameters) /\ Len(params) = n
    /\ DOMAIN ReadParams(T) = 1 .. n
    /\ \A k \in 1 .. n :
        (ReadParams(T)[k].ok /\ ReadParams(T)[k].param = params[k]) <=> ~HasShort(params[k])

\* How parameters are written and read: behind a blank each.
LEMMA ParametersRead ==
    ASSUME NEW params \in Seq(KnownParameters), NEW n \in Nat \ {0}, n = Len(params), NEW T,
           NEW P, P = FlattenSeq([i \in 1 .. n |-> <<"SP">> \o Parameter(params[i])])
    PROVE  /\ P \in Seq(Tokens) /\ P # <<>> /\ P[1] = "SP"
           /\ Rest(T) = P => ReadsEach(T, params, n)
<1>1. PICK s : s = [i \in 1 .. n |-> Parameter(params[i])]
  OBVIOUS
<1>2. \A k \in 1 .. n : s[k] = Parameter(params[k])
  BY <1>1
<1>3. \A k \in 1 .. n : params[k] \in KnownParameters
  BY ElementOfSeq
<1>4. \A k \in 1 .. n : ReadOf(s[k], params[k])
  BY <1>2, <1>3, ParameterRead
<1>5. \A k \in 1 .. n : s[k] \in Seq(Tokens) /\ \A j \in 1 .. Len(s[k]) : s[k][j] # "SP"
  BY <1>4 DEF ReadOf
<1>6. PICK G : G = [k \in 1 .. n |-> <<"SP">> \o s[k]]
  OBVIOUS
<1>7. P = FlattenSeq(G)
  <2>1. G = [k \in 1 .. n |-> <<"SP">> \o Parameter(params[k])]
    BY <1>2, <1>6, Zenon
  <2> QED
    BY <2>1, Zenon
<1>8. PICK L : Blanked(s, n, P, L)
  BY ONLY n \in Nat \ {0}, <1>5, <1>6, <1>7, BlankedIs
<1>9. Pieces(P, "SP") = n + 1 /\ \A k \in 1 .. n : Split(P, "SP")[k + 1] = s[k]
  BY ONLY <1>8, BlankedSplit
<1>10. P \in Seq(Tokens) /\ Len(P) = L[n] /\ L[0] = 0
  BY <1>8 DEF Blanked
<1>11. L[0] + 1 = 1 /\ P[L[0] + 1] = "SP" /\ L[1] <= L[n] /\ L[n] \in Nat /\ L[1] = L[0] + 1 + Len(s[1])
       /\ Len(s[1]) \in Nat
  <2>1. 1 \in 1 .. n /\ 1 \in 0 .. n /\ n \in 1 .. n /\ n \in 0 .. n /\ 1 - 1 = 0 /\ 0 + 1 = 1
    OBVIOUS
  <2>2. P[L[0] + 1] = "SP" /\ L[1] = L[0] + 1 + Len(s[1]) /\ Len(s[1]) \in Nat
    BY ONLY <1>8, <2>1 DEF Blanked
  <2>3. L[1] <= L[n] /\ L[n] \in Nat
    <3>1. n \in 1 .. n
      BY ONLY <2>1
    <3> QED
      BY ONLY <1>8, <2>1, <3>1 DEF Blanked
  <2> QED
    BY <1>10, <2>1, <2>2, <2>3
<1>12. P # <<>>
  <2>1. Len(P) # 0
    BY <1>10, <1>11
  <2> QED
    BY <1>10, <2>1, EmptySeq
<1>13. P[1] = "SP"
  BY <1>11
<1>14. ASSUME Rest(T) = P PROVE ReadsEach(T, params, n)
  <2>1. PICK z \in Nat \ {0} : z = n + 1 /\ z - 1 = n
    OBVIOUS
  <2>2. Pieces(P, "SP") = z
    BY <1>9, <2>1
  <2>3. ReadParams(T) = [i \in 1 .. z - 1 |-> ReadParameter(Split(P, "SP")[i + 1])]
    BY <1>10, <1>12, <1>14, <2>2, PiecesRead
  <2>4. ReadParams(T) = [i \in 1 .. n |-> ReadParameter(Split(P, "SP")[i + 1])]
    BY <2>1, <2>3
  <2>5. DOMAIN ReadParams(T) = 1 .. n /\ \A k \in 1 .. n : ReadParams(T)[k] = ReadParameter(s[k])
    BY <1>9, <2>4
  <2>6. \A k \in 1 .. n :
          (ReadParams(T)[k].ok /\ ReadParams(T)[k].param = params[k]) <=> ~HasShort(params[k])
    <3>1. \A k \in 1 .. n :
            (ReadParameter(s[k]).ok /\ ReadParameter(s[k]).param = params[k]) <=> ~HasShort(params[k])
      BY <1>4 DEF ReadOf
    <3> QED
      BY ONLY <2>5, <3>1, Zenon
  <2> QED
    BY <2>5, <2>6 DEF ReadsEach
<1> QED
  BY <1>10, <1>12, <1>13, <1>14

\* The same, with the list that may be empty.
LEMMA ListRead ==
    ASSUME NEW c, c.params \in Seq(KnownParameters), NEW n \in Nat, n = Len(c.params), NEW T
    PROVE  /\ Parameters(c) \in Seq(Tokens)
           /\ Parameters(c) # <<>> => Parameters(c)[1] = "SP"
           /\ Rest(T) = Parameters(c) => ReadsEach(T, c.params, n)
<1>1. PICK p \in Seq(KnownParameters) : p = c.params
  OBVIOUS
<1>2. n = Len(p) /\ DOMAIN p = 1 .. n
  BY <1>1, LenProperties
<1>3. PICK P : P = FlattenSeq([i \in 1 .. n |-> <<"SP">> \o Parameter(p[i])])
  OBVIOUS
<1>4. Parameters(c) = P
  BY <1>1, <1>2, <1>3, Zenon DEF Parameters
<1>5. CASE n = 0
  <2>1. P = <<>>
    <3>1. 1 .. n = {}
      BY <1>5
    <3>2. [i \in 1 .. n |-> <<"SP">> \o Parameter(p[i])] = <<>>
      BY <3>1
    <3>3. FlattenSeq(<<>>) = <<>>
      BY DEF FlattenSeq
    <3> QED
      BY <1>3, <3>2, <3>3, Zenon
  <2>2. p = <<>> /\ 1 .. n = {}
    BY <1>2, <1>5, EmptySeq
  <2>3. ASSUME Rest(T) = P PROVE ReadsEach(T, p, n)
    <3>1. ReadParams(T) = <<>>
      BY <2>1, <2>3 DEF ReadParams
    <3>2. DOMAIN ReadParams(T) = 1 .. n
      BY <2>2, <3>1
    <3> QED
      BY <1>2, <2>2, <3>2 DEF ReadsEach
  <2>4. P \in Seq(Tokens)
    BY <2>1
  <2> QED
    BY <1>1, <1>4, <2>1, <2>3, <2>4
<1>6. CASE n # 0
  <2>1. n \in Nat \ {0}
    BY <1>6
  <2>2. /\ P \in Seq(Tokens) /\ P # <<>> /\ P[1] = "SP"
        /\ Rest(T) = P => ReadsEach(T, p, n)
    BY <1>2, <1>3, <2>1, ParametersRead
  <2> QED
    BY <1>1, <1>4, <2>2
<1> QED
  BY <1>5, <1>6

-----------------------------------------------------------------------------
(* What is read of a command *)

\* The parts of a MAIL or a RCPT are found again: no address ends its path.
LEMMA PathParts ==
    ASSUME NEW c, c.verb \in {"MAIL", "RCPT"}, c.text \in Seq(Plain \ {">"}),
           \A i \in 1 .. Len(c.text) : c.text[i] \notin NotInPath,
           Parameters(c) \in Seq(Tokens), Parameters(c) # <<>> => Parameters(c)[1] = "SP",
           NEW T, T = Words(c)
    PROVE  /\ Path(T) = c.text /\ Rest(T) = Parameters(c) /\ T[1] = c.verb
           /\ PathOk(T) <=> \A i \in DOMAIN ReadParams(T) : ReadParams(T)[i].ok
           /\ ReadCommand(T) = ReadPath(T)
<1>1. c.text \in Seq(Tokens)
  <2>1. Plain \ {">"} \subseteq Tokens
    BY DEF Plain
  <2> QED
    BY <2>1, SeqMonotonic
<1> PICK P \in Seq(Tokens) : P = Parameters(c)
  OBVIOUS
<1>5. PICK n \in Nat : PathLine(T, c.verb, c.text, n, P)
  BY <1>1, PathWords
<1>6. PICK l \in Nat, p \in Nat : l = Len(T) /\ p = Len(P) /\ l = 5 + n + p /\ n = Len(c.text)
  <2>1. T \in Seq(Tokens) /\ Len(T) = 5 + n + Len(P) /\ n = Len(c.text)
    BY <1>5 DEF PathLine
  <2> QED
    BY <2>1, LenProperties
<1>7. /\ T \in Seq(Tokens) /\ T[1] = c.verb /\ T[2] = "SP" /\ T[3] = Keyword(c.verb) /\ T[4] = "<"
      /\ \A i \in 1 .. n : T[4 + i] = c.text[i]
      /\ \A i \in 1 .. p : T[5 + n + i] = P[i]
  BY <1>5, <1>6 DEF PathLine
<1>8. PICK d \in Nat : d = 5 + n /\ d <= l /\ l - d = p
  <2>1. n \in Nat /\ l \in Nat /\ p \in Nat /\ l = 5 + n + p
    BY <1>5, <1>6, Zenon
  <2>2. 5 + n \in Nat /\ 5 + n <= l /\ l - (5 + n) = p
    BY <2>1
  <2> QED
    BY <2>2
<1>9. Close(T) = d
  <2>1. 5 + n <= Len(T)
    BY <1>6
  <2> QED
    BY <1>5, <1>7, <1>8, <2>1, PathCloses
<1>10. Path(T) = c.text
  <2>1. PICK a \in Nat : a = 4 /\ a + 1 = 5 /\ a < d /\ d <= Len(T) + 1 /\ d - 1 - a = n
    BY <1>6, <1>8
  <2>2. /\ SubSeq(T, a + 1, d - 1) \in Seq(Tokens) /\ Len(SubSeq(T, a + 1, d - 1)) = d - 1 - a
        /\ \A x \in 1 .. d - 1 - a : SubSeq(T, a + 1, d - 1)[x] = T[a + x]
    BY <1>7, <2>1, Between
  <2>3. Path(T) = SubSeq(T, a + 1, d - 1)
    BY <1>9, <2>1 DEF Path
  <2>4. Path(T) \in Seq(Tokens) /\ Len(Path(T)) = n /\ \A x \in 1 .. n : Path(T)[x] = T[4 + x]
    BY <2>1, <2>2, <2>3
  <2>5. \A x \in 1 .. n : Path(T)[x] = c.text[x]
    BY <1>7, <2>4
  <2>6. PICK x \in Seq(Tokens), t \in Seq(Tokens) : x = Path(T) /\ t = c.text
    BY <1>1, <2>4
  <2>7. Len(x) = Len(t) /\ \A i \in 1 .. Len(x) : x[i] = t[i]
    BY <1>6, <2>4, <2>5, <2>6
  <2>8. x = t
    BY ONLY <2>7, SeqEqual
  <2> QED
    BY <2>6, <2>8
<1>11. Rest(T) = P
  <2>1. Rest(T) = SubSeq(T, d + 1, Len(T)) /\ d <= Len(T) /\ Len(T) - d = p
    BY <1>6, <1>8, <1>9 DEF Rest
  <2>2. /\ Rest(T) \in Seq(Tokens) /\ Len(Rest(T)) = Len(T) - d
        /\ \A x \in 1 .. Len(T) - d : Rest(T)[x] = T[d + x]
    BY <1>7, <1>8, <2>1, After
  <2>3. \A x \in 1 .. p : Rest(T)[x] = P[x]
    BY <1>7, <1>8, <2>1, <2>2
  <2>4. PICK x \in Seq(Tokens) : x = Rest(T)
    BY <2>2
  <2>5. Len(x) = Len(P) /\ \A i \in 1 .. Len(x) : x[i] = P[i]
    BY <1>6, <2>1, <2>2, <2>3, <2>4
  <2>6. x = P
    BY ONLY <2>5, SeqEqual
  <2> QED
    BY <2>4, <2>6
<1>13. PathOk(T) <=> \A i \in DOMAIN ReadParams(T) : ReadParams(T)[i].ok
  <2>1. ToSet(Path(T)) \cap NotInPath = {}
    <3>1. DOMAIN c.text = 1 .. Len(c.text)
      BY LenProperties
    <3> QED
      BY <1>10, <3>1 DEF ToSet
  <2>2. Len(T) > 4 /\ Close(T) > 4
    BY <1>6, <1>8, <1>9
  <2>3. T[2] = "SP" /\ T[3] = Keyword(T[1]) /\ T[4] = "<"
    BY <1>7
  <2>4. Rest(T) # <<>> => Rest(T)[1] = "SP"
    BY <1>11
  <2> QED
    BY <2>1, <2>2, <2>3, <2>4, Zenon DEF PathOk, NotInPath
<1>15. ReadCommand(T) = ReadPath(T)
  <2>1. T[1] \in {"MAIL", "RCPT"}
    BY <1>7
  <2>2. T[1] \notin BareVerbs \cup TextVerbs \cup {"EHLO", "HELP"}
    BY <2>1 DEF BareVerbs, TextVerbs
  <2>3. <<"HELP">>[1] = "HELP"
    OBVIOUS
  <2> QED
    BY <2>1, <2>2, <2>3 DEF ReadCommand
<1> QED
  BY <1>7, <1>10, <1>11, <1>13, <1>15

\* A MAIL or a RCPT is read as it was meant if none of its values has a character
\* below 16, and only then.
LEMMA PathRound ==
    ASSUME NEW verb \in {"MAIL", "RCPT"}, NEW text \in Seq(Plain \ {">"}), NEW params \in Seq(KnownParameters),
           \A i \in 1 .. Len(text) : text[i] \notin NotInPath,
           NEW c, c = Command(verb, "none", text, params)
    PROVE  ReadCommand(Words(c)) = c <=> \A k \in 1 .. Len(params) : ~HasShort(params[k])
<1>1. c.verb = verb /\ c.text = text /\ c.params = params
  BY DEF Command
<1>2. PICK n \in Nat : n = Len(params)
  BY LenProperties
<1>3. PICK T : T = Words(c)
  OBVIOUS
<1>4. /\ Parameters(c) \in Seq(Tokens)
      /\ Parameters(c) # <<>> => Parameters(c)[1] = "SP"
      /\ Rest(T) = Parameters(c) => ReadsEach(T, params, n)
  BY <1>1, <1>2, ListRead
<1>5. /\ Path(T) = text /\ Rest(T) = Parameters(c) /\ T[1] = verb
      /\ PathOk(T) <=> \A i \in DOMAIN ReadParams(T) : ReadParams(T)[i].ok
      /\ ReadCommand(T) = ReadPath(T)
  BY <1>1, <1>3, <1>4, PathParts
<1>6. PICK r : r = ReadParams(T)
  OBVIOUS
<1>7. PICK q : q = [i \in DOMAIN r |-> r[i].param]
  OBVIOUS
<1>8. DOMAIN r = 1 .. n /\ \A k \in 1 .. n : (r[k].ok /\ r[k].param = params[k]) <=> ~HasShort(params[k])
  BY <1>4, <1>5, <1>6 DEF ReadsEach
<1>9. DOMAIN q = 1 .. n /\ \A k \in 1 .. n : q[k] = r[k].param
  BY <1>7, <1>8
<1>10. ReadCommand(T) = IF \A i \in 1 .. n : r[i].ok THEN Command(verb, "none", text, q) ELSE Unknown
  BY <1>5, <1>6, <1>7, <1>8, ReadPathIs, Zenon
<1>11. CASE \A k \in 1 .. n : ~HasShort(params[k])
  <2>1. \A k \in 1 .. n : r[k].ok /\ q[k] = params[k]
    BY <1>8, <1>9, <1>11
  <2>2. q = params
    <3>1. params = [k \in 1 .. n |-> params[k]] /\ q = [k \in 1 .. n |-> q[k]]
      <4>1. DOMAIN params = 1 .. n
        BY <1>2, LenProperties
      <4> QED
        BY <1>7, <1>8, <1>9, <4>1
    <3> QED
      BY <2>1, <3>1
  <2>3. ReadCommand(T) = c
    BY <1>10, <2>1, <2>2
  <2> QED
    BY <1>2, <1>3, <1>11, <2>3
<1>12. CASE \E k \in 1 .. n : HasShort(params[k])
  <2>1. PICK k \in 1 .. n : HasShort(params[k])
    BY <1>12
  <2>2. ~(r[k].ok /\ q[k] = params[k])
    BY <1>8, <1>9, <2>1
  <2>3. CASE \A i \in 1 .. n : r[i].ok
    <3>1. q[k] # params[k]
      BY <2>2, <2>3
    <3>2. ReadCommand(T) = Command(verb, "none", text, q)
      BY <1>10, <2>3
    <3>3. Command(verb, "none", text, q).params = q
      BY DEF Command
    <3>4. ReadCommand(T) # c
      BY <1>1, <3>1, <3>2, <3>3
    <3> QED
      BY <1>2, <1>3, <2>1, <3>4
  <2>4. CASE ~ \A i \in 1 .. n : r[i].ok
    <3>1. ReadCommand(T) = Unknown
      BY <1>10, <2>4
    <3>2. Unknown.verb = "unknown"
      BY DEF Unknown, Command
    <3>3. ReadCommand(T) # c
      BY <1>1, <3>1, <3>2
    <3> QED
      BY <1>2, <1>3, <2>1, <3>3
  <2> QED
    BY <2>3, <2>4
<1> QED
  BY <1>11, <1>12

\* A command of one word.
LEMMA WordRead ==
    ASSUME NEW verb \in BareVerbs \cup {"HELP"}, NEW c, c = Command(verb, "none", <<>>, <<>>)
    PROVE  ReadCommand(Words(c)) = c
<1>1. c.verb = verb /\ c.text = <<>> /\ c = Bare(verb)
  BY DEF Bare, Command
<1> PICK T : T = Words(c)
  OBVIOUS
<1>2. "HELP" \notin BareVerbs /\ "HELP" \in TextVerbs
  BY DEF BareVerbs, TextVerbs
<1>3. \A v \in BareVerbs \cup {"HELP"} : v \notin {"MAIL", "RCPT", "EHLO"} /\ (v # "HELP" => v \notin TextVerbs)
  BY DEF BareVerbs, TextVerbs
<1>4. T = <<verb>>
  <2>1. CASE verb = "HELP"
    <3>1. Argument(c) = <<>>
      BY <1>1, <2>1 DEF Argument
    <3>2. T = <<verb>> \o <<>>
      BY <1>1, <1>2, <1>3, <2>1, <3>1 DEF Words
    <3> QED
      BY <3>2
  <2>2. CASE verb # "HELP"
    BY <1>1, <1>3, <2>2 DEF Words
  <2> QED
    BY <2>1, <2>2
<1>5. Len(T) = 1 /\ T[1] = verb
  BY <1>4
<1>6. T = <<"HELP">> <=> verb = "HELP"
  <2>1. <<"HELP">>[1] = "HELP"
    OBVIOUS
  <2> QED
    BY <1>4, <1>5, <2>1
<1>7. CASE verb = "HELP"
  BY <1>1, <1>2, <1>3, <1>5, <1>6, <1>7 DEF ReadCommand
<1>8. CASE verb # "HELP"
  BY <1>1, <1>2, <1>3, <1>5, <1>6, <1>8 DEF ReadCommand
<1> QED
  BY <1>7, <1>8

\* Two sequences of one element each, joined.
LEMMA TwoSingles ==
    ASSUME NEW a, NEW b
    PROVE  <<a>> \o <<b>> = <<a, b>>
<1> DEFINE T == {a, b}
<1> PICK u : u = <<a>>
  OBVIOUS
<1> PICK v : v = <<b>>
  OBVIOUS
<1> PICK w : w = <<a, b>>
  OBVIOUS
<1> PICK r : r = u \o v
  OBVIOUS
<1>1. u \in Seq(T) /\ Len(u) = 1 /\ u[1] = a /\ v \in Seq(T) /\ Len(v) = 1 /\ v[1] = b
  BY Single
<1>2. w \in Seq(T) /\ Len(w) = 2 /\ w[1] = a /\ w[2] = b
  BY Pair
<1> HIDE DEF T
<1>3. r \in Seq(T) /\ Len(r) = 2 /\ \A i \in 1 .. 2 : r[i] = IF i <= 1 THEN u[i] ELSE v[i - 1]
  <2>1. /\ r \in Seq(T) /\ Len(r) = Len(u) + Len(v)
        /\ \A i \in 1 .. Len(u) + Len(v) : r[i] = IF i <= Len(u) THEN u[i] ELSE v[i - Len(u)]
    BY <1>1, ConcatProperties
  <2>2. Len(u) + Len(v) = 2
    BY <1>1
  <2> QED
    BY <1>1, <2>1, <2>2
<1>4. r[1] = a /\ r[2] = b
  BY <1>1, <1>3
<1>5. \A i \in 1 .. 2 : r[i] = w[i]
  <2>1. r[1] = w[1] /\ r[2] = w[2]
    BY <1>2, <1>4
  <2>2. \A i \in 1 .. 2 : i = 1 \/ i = 2
    OBVIOUS
  <2> QED
    BY <2>1, <2>2, Zenon
<1>6. r = w
  BY <1>2, <1>3, <1>5, SeqEqual
<1> QED
  BY <1>6

\* Two words before a text, one at a time.
LEMMA OneThenOne ==
    ASSUME NEW c \in Tokens, NEW d \in Tokens, NEW t \in Seq(Tokens), NEW T, T = <<c>> \o (<<d>> \o t)
    PROVE  T = <<c, d>> \o t
<1>1. PICK a \in Seq(Tokens), b \in Seq(Tokens), h \in Seq(Tokens) : a = <<c>> /\ b = <<d>> /\ h = <<c, d>>
  BY Single, Pair
<1>2. a \o b = h
  BY <1>1, TwoSingles, Zenon
<1>3. T = (a \o b) \o t
  BY <1>1, ConcatAssociative
<1> QED
  BY <1>1, <1>2, <1>3, Zenon

\* A command with an argument.
LEMMA ArgumentRead ==
    ASSUME NEW verb \in TextVerbs, NEW text \in Seq(Tokens), text # <<>>,
           NEW c, c = Command(verb, "none", text, <<>>)
    PROVE  ReadCommand(Words(c)) = c
<1>1. c.verb = verb /\ c.text = text
  BY DEF Command
<1>2. PICK T : T = Words(c)
  OBVIOUS
<1>3. verb \notin BareVerbs /\ verb \notin {"MAIL", "RCPT", "EHLO"} /\ verb \in Tokens /\ "SP" \in Tokens
  BY DEF BareVerbs, TextVerbs, Tokens, Verbs, Characters
<1>4. T = <<verb, "SP">> \o text
  <2>1. T = <<verb>> \o (<<"SP">> \o text)
    BY <1>1, <1>2, <1>3 DEF Words, Argument
  <2> QED
    BY ONLY <1>3, <2>1, text \in Seq(Tokens), OneThenOne
<1>5. PICK n \in Nat : n = Len(text) /\ n # 0
  BY LenProperties, EmptySeq
<1>6. T \in Seq(Tokens) /\ Len(T) = n + 2 /\ T[1] = verb /\ T[2] = "SP" /\ SubSeq(T, 3, Len(T)) = text
  BY <1>3, <1>4, <1>5, HeadWords
<1>7. Len(T) > 2 /\ Len(T) # 1
  BY <1>5, <1>6
<1>8. T # <<"HELP">>
  <2>1. Len(<<"HELP">>) = 1
    OBVIOUS
  <2> QED
    BY <1>7, <2>1
<1>9. ReadCommand(T) = Command(verb, "none", text, <<>>)
  BY <1>3, <1>6, <1>7, <1>8 DEF ReadCommand
<1> QED
  BY <1>2, <1>9

=============================================================================
