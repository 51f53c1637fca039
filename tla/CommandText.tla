----------------------------- MODULE CommandText -----------------------------
(***************************************************************************)
(* The text of the commands (commands.rs, with ClientId, MailParameter and *)
(* RcptParameter of extension.rs, EmailAddress of types.rs and XText of    *)
(* util.rs), the features read from the reply to EHLO (extension.rs), and  *)
(* what a server that follows RFC 5321 and RFC 3461 reads in a line.       *)
(*                                                                         *)
(* A text is a sequence of tokens: a fixed word of a command is one token, *)
(* of any other text each character is one.                                *)
(***************************************************************************)
EXTENDS Integers, SequencesExt, FiniteSetsExt

\* The characters told apart; "a" stands for letters of no further interest, "oslash"
\* for what is not ASCII.
Characters ==
    {"TAB", "LF", "CR", "SP", "+", "2", "<", "=", ">", "@", "A", "a", "DEL", "oslash"}

CodePoint ==
    [c \in Characters |->
        CASE c = "TAB" -> 9 [] c = "LF" -> 10 [] c = "CR" -> 13 [] c = "SP" -> 32
          [] c = "+" -> 43 [] c = "2" -> 50 [] c = "<" -> 60 [] c = "=" -> 61
          [] c = ">" -> 62 [] c = "@" -> 64 [] c = "A" -> 65 [] c = "a" -> 97
          [] c = "DEL" -> 127 [] c = "oslash" -> 248]

CRLF == <<"CR", "LF">>

-----------------------------------------------------------------------------
(* What the client writes *)

Printable(c) == CodePoint[c] \in 33 .. 126

\* Whether EmailAddress::new takes the address.
EmailAddress_new(address) ==
    \A i \in DOMAIN address : Printable(address[i]) /\ address[i] \notin {"<", ">"}

HexDigits == <<"0", "1", "2", "3", "4", "5", "6", "7", "8", "9", "A", "B", "C", "D", "E", "F">>

\* {:X}: no more digits than the number needs.
Hex(n) ==
    IF n < 16 THEN <<HexDigits[n + 1]>> ELSE <<HexDigits[(n \div 16) + 1], HexDigits[(n % 16) + 1]>>

\* A mutant of XText: the sign that starts an escape is not escaped itself.
XTextBarePlus(value) ==
    FlattenSeq([i \in DOMAIN value |->
        IF CodePoint[value[i]] < 33 \/ value[i] = "="
          THEN <<"+">> \o Hex(CodePoint[value[i]])
          ELSE <<value[i]>>])

XText(value) ==
    FlattenSeq([i \in DOMAIN value |->
        IF CodePoint[value[i]] < 33 \/ value[i] \in {"+", "="}
          THEN <<"+">> \o Hex(CodePoint[value[i]])
          ELSE <<value[i]>>])

\* Parameters the crate writes as they are; any other (Other) has an xtext value or,
\* like SMTPUTF8, none.  (A value that is there and empty, written "KEY=", is left out.)
FixedParameters ==
    {[keyword |-> "BODY", value |-> <<"8BITMIME">>],
     [keyword |-> "BODY", value |-> <<"7BIT">>],
     [keyword |-> "SIZE", value |-> <<"2">>]}

Parameter(p) ==
    CASE p.value = <<>> -> <<p.keyword>>
      [] p \in FixedParameters -> <<p.keyword, "=">> \o p.value
      [] OTHER -> <<p.keyword, "=">> \o XText(p.value)

\* How a ClientId of each kind is written.
ClientId(kind, text) ==
    CASE kind = "Ipv4" -> <<"[">> \o text \o <<"]">>
      [] kind = "Ipv6" -> <<"[", "IPv6:">> \o text \o <<"]">>
      [] OTHER -> text

BareVerbs == {"STARTTLS", "DATA", "QUIT", "NOOP", "RSET"}
TextVerbs == {"HELP", "VRFY", "EXPN"}

\* A command: `text` is an address, an argument or a client id, of kind `kind`.
Command(verb, kind, text, params) ==
    [verb |-> verb, kind |-> kind, text |-> text, params |-> params]

Bare(verb) == Command(verb, "none", <<>>, <<>>)

\* The options of a MAIL that `send` knows, and the lists it makes of them.
BodyOption == [keyword |-> "BODY", value |-> <<"8BITMIME">>]
Utf8Option == [keyword |-> "SMTPUTF8", value |-> <<>>]
MailOptions == {<<>>, <<BodyOption>>, <<Utf8Option>>, <<BodyOption, Utf8Option>>}

\* The argument of HELP is optional.
Argument(cmd) == IF cmd.verb = "HELP" /\ cmd.text = <<>> THEN <<>> ELSE <<"SP">> \o cmd.text

Parameters(cmd) ==
    FlattenSeq([i \in DOMAIN cmd.params |-> <<"SP">> \o Parameter(cmd.params[i])])

\* Display of the commands, without the end of the line.
Words(cmd) ==
    CASE cmd.verb \in BareVerbs -> <<cmd.verb>>
      [] cmd.verb \in TextVerbs -> <<cmd.verb>> \o Argument(cmd)
      [] cmd.verb = "EHLO" -> <<"EHLO", "SP">> \o ClientId(cmd.kind, cmd.text)
      [] cmd.verb \in {"MAIL", "RCPT"} ->
            <<cmd.verb, "SP", IF cmd.verb = "MAIL" THEN "FROM:" ELSE "TO:", "<">>
            \o cmd.text \o <<">">> \o Parameters(cmd)

\* Commands a caller may write, whose words are all without a CR and a LF: the crate
\* looks at addresses and at the values it encodes, and at no other text.
OneLiners ==
    [verb : BareVerbs \cup TextVerbs \cup {"MAIL", "RCPT"}, kind : {"none"},
     text : Seq(STRING \ {"CR", "LF"}),
     params : Seq(FixedParameters \cup [keyword : STRING \ {"CR", "LF"}, value : Seq(Characters)])]

\* A mutant of Display: the line ends before the parameters.
DisplayParametersLast(cmd) ==
    Words([cmd EXCEPT !.params = <<>>]) \o CRLF
    \o (IF cmd.params = <<>> THEN <<>> ELSE Parameters(cmd) \o CRLF)

Display(cmd) == Words(cmd) \o CRLF

-----------------------------------------------------------------------------
(* ServerInfo::from_response *)

Keywords == {"PIPELINING", "8BITMIME", "SMTPUTF8", "STARTTLS"}
Mechanisms == {"PLAIN", "LOGIN", "XOAUTH2"}

\* The features lines of words declare: the code compares words as they are spelled.
FeaturesOf(lines) ==
    UNION {IF line[1] = "AUTH"
             THEN {<<"AUTH", line[i]>> : i \in {k \in 2 .. Len(line) : line[k] \in Mechanisms}}
             ELSE {<<line[1]>>} \cap {<<k>> : k \in Keywords}
           : line \in {l \in ToSet(lines) : l # <<>>}}

NoInfo == [name |-> "none", features |-> {}]

\* A mutant of from_response: keywords are looked for anywhere in a line.
from_response_anywhere(lines) ==
    IF lines[1] = <<>>
      THEN NoInfo
      ELSE [name |-> lines[1][1],
            features |-> FeaturesOf(lines) \cup
                {<<k>> : k \in Keywords \cap UNION {ToSet(lines[i]) : i \in DOMAIN lines}}]

\* A mutant of from_response: AUTH is read like any other keyword.
from_response_without_auth(lines) ==
    IF lines[1] = <<>>
      THEN NoInfo
      ELSE [name |-> lines[1][1],
            features |-> {f \in FeaturesOf(lines) : Len(f) = 1}]

\* The first line is the server's name and greeting, and is searched too.
from_response(lines) ==
    IF lines[1] = <<>>
      THEN NoInfo
      ELSE [name |-> lines[1][1], features |-> FeaturesOf(lines)]

-----------------------------------------------------------------------------
(* What a server reads in a line: RFC 5321, 4.1; RFC 3461, 4 *)

Unknown == Command("unknown", "none", <<>>, <<>>)

\* The pieces of a text between occurrences of a separator.
Split(text, separator) ==
    LET ends == {0, Len(text) + 1} \cup {i \in DOMAIN text : text[i] = separator}
        End(k) == CHOOSE e \in ends : Cardinality({d \in ends : d < e}) = k
    IN  [k \in 1 .. Cardinality(ends) - 1 |-> SubSeq(text, End(k - 1) + 1, End(k) - 1)]

IsHex(c) == c \in ToSet(HexDigits)
HexValue(c) == SelectInSeq(HexDigits, LAMBDA d : d = c) - 1

\* An xtext decoded, ok if every "+" has its two digits.
Decoded(text) ==
    LET escapes == {i \in DOMAIN text : text[i] = "+"}
        digits == UNION {{i + 1, i + 2} : i \in escapes}
        char(i) == LET n == 16 * HexValue(text[i + 1]) + HexValue(text[i + 2])
                   IN  IF \E c \in Characters : CodePoint[c] = n
                         THEN CHOOSE c \in Characters : CodePoint[c] = n
                         ELSE "other"
        ok == \A i \in digits : i \in DOMAIN text /\ IsHex(text[i])
    IN  [ok |-> ok,
         value |-> IF ok
                     THEN FlattenSeq([i \in DOMAIN text |->
                            IF i \in digits THEN <<>>
                            ELSE IF i \in escapes THEN <<char(i)>> ELSE <<text[i]>>])
                     ELSE <<>>]

\* ENVID of MAIL and ORCPT of RCPT have xtext values.
Encoded == {"ENVID", "ORCPT"}

\* What one parameter says, ok if it is one.
ReadParameter(text) ==
    LET keyword == IF text = <<>> THEN "" ELSE text[1]
        value == SubSeq(text, 3, Len(text))
        bad == [ok |-> FALSE, param |-> [keyword |-> keyword, value |-> <<>>]]
    IN  CASE keyword \notin {"BODY", "SIZE", "SMTPUTF8"} \cup Encoded -> bad
          [] Len(text) = 1 /\ keyword = "SMTPUTF8" ->
                [ok |-> TRUE, param |-> [keyword |-> keyword, value |-> <<>>]]
          [] Len(text) > 2 /\ text[2] = "=" /\ keyword \in {"BODY", "SIZE"} ->
                LET p == [keyword |-> keyword, value |-> value]
                IN  [ok |-> p \in FixedParameters, param |-> p]
          [] Len(text) > 2 /\ text[2] = "=" /\ keyword \in Encoded ->
                [ok |-> Decoded(value).ok, param |-> [keyword |-> keyword, value |-> Decoded(value).value]]
          [] OTHER -> bad

\* MAIL and RCPT: a path up to the first ">", then parameters, each after a blank.
ReadPath(line) ==
    LET close == SelectInSeq(line, LAMBDA c : c = ">")
        path == SubSeq(line, 5, close - 1)
        rest == SubSeq(line, close + 1, Len(line))
        params == IF rest = <<>> THEN <<>>
                  ELSE [i \in DOMAIN Tail(Split(rest, "SP")) |-> ReadParameter(Split(rest, "SP")[i + 1])]
    IN  IF /\ Len(line) > 4
           /\ line[2] = "SP" /\ line[3] = (IF line[1] = "MAIL" THEN "FROM:" ELSE "TO:")
           /\ line[4] = "<" /\ close > 4
           /\ ToSet(path) \cap {"SP", "TAB", "CR", "LF", "<", "DEL", "oslash"} = {}
           /\ rest # <<>> => rest[1] = "SP"
           /\ \A i \in DOMAIN params : params[i].ok
          THEN Command(line[1], "none", path, [i \in DOMAIN params |-> params[i].param])
          ELSE Unknown

\* EHLO: an address literal, or a name.
ReadEhlo(line) ==
    LET text == SubSeq(line, 3, Len(line))
        n == Len(text)
        one == n > 0 /\ line[2] = "SP"
        literal == one /\ text[1] = "[" /\ n > 1 /\ text[n] = "]"
        ipv6 == n > 2 /\ text[2] = "IPv6:"
    IN  CASE one /\ text[1] # "[" -> Command("EHLO", "Domain", text, <<>>)
          [] literal /\ ipv6 -> Command("EHLO", "Ipv6", SubSeq(text, 3, n - 1), <<>>)
          [] literal /\ ~ipv6 -> Command("EHLO", "Ipv4", SubSeq(text, 2, n - 1), <<>>)
          [] OTHER -> Unknown

\* The command a server reads in a line, which is never empty.
ReadCommand(line) ==
    CASE line[1] \in BareVerbs /\ Len(line) = 1 -> Bare(line[1])
      [] line[1] \in TextVerbs /\ Len(line) > 2 /\ line[2] = "SP" ->
            Command(line[1], "none", SubSeq(line, 3, Len(line)), <<>>)
      [] line = <<"HELP">> -> Bare("HELP")
      [] line[1] \in {"MAIL", "RCPT"} -> ReadPath(line)
      [] line[1] = "EHLO" /\ Len(line) > 2 -> ReadEhlo(line)
      [] OTHER -> Unknown

\* A client id that can be told from the other kinds: a name does not begin like an
\* address literal, and an IPv4 address not like an IPv6 address.
IdRead(kind, text) ==
    /\ kind = "Domain" => text # <<>> /\ text[1] # "["
    /\ kind = "Ipv4" => text = <<>> \/ text[1] # "IPv6:"

\* The parameters a server knows, with values they may have.
KnownParameters ==
    FixedParameters \cup {Utf8Option}
    \cup [keyword : Encoded, value : Seq(Characters) \ {<<>>}]

\* The commands of a caller that has given each verb what it asks for: an argument, or
\* an address EmailAddress::new takes and parameters a server knows.
WellFormed ==
    [verb : BareVerbs \cup {"HELP"}, kind : {"none"}, text : {<<>>}, params : {<<>>}]
    \cup [verb : TextVerbs, kind : {"none"},
          text : Seq(STRING \ {"CR", "LF"}) \ {<<>>}, params : {<<>>}]
    \cup [verb : {"MAIL", "RCPT"}, kind : {"none"},
          text : {a \in Seq(Characters) : EmailAddress_new(a)}, params : Seq(KnownParameters)]

\* RFC 5321, 2.4: case does not matter in keywords; their lines follow the first.
Upper ==
    [w \in {"pipelining", "smtputf8"} |-> IF w = "pipelining" THEN "PIPELINING" ELSE "SMTPUTF8"]
Spelled(w) == IF w \in DOMAIN Upper THEN Upper[w] ELSE w

\* The features a reply offers.
Offered(lines) ==
    LET says(k) == {i \in 2 .. Len(lines) : lines[i] # <<>> /\ Spelled(lines[i][1]) = k}
    IN  {<<k>> : k \in {w \in Keywords : says(w) # {}}} \cup
        {<<"AUTH", m>> : m \in {n \in Mechanisms : \E i \in says("AUTH") : n \in ToSet(lines[i])}}

=============================================================================
