---------------------------- MODULE MCTextSession ----------------------------
(* An instance of TextSession for TLC. *)
EXTENDS TextSession

\* Replies with keywords in their place, in small letters, in the first line and as
\* words of another line, with a blank line, and without a name.
MCEhloReplies ==
    {<<<<"host">>, <<"8BITMIME">>, <<"SMTPUTF8">>, <<>>, <<"AUTH", "PLAIN", "CRAM-MD5", "LOGIN">>>>,
     <<<<"host", "PIPELINING">>, <<"pipelining">>, <<"smtputf8">>, <<"X", "8BITMIME">>>>,
     <<<<"8BITMIME">>, <<"SMTPUTF8">>>>,
     <<<<>>, <<"8BITMIME">>>>}

MCClientIds ==
    {<<"Domain", <<"host">>>>, <<"Ipv4", <<"127.0.0.1">>>>, <<"Ipv6", <<"::1">>>>}

\* One address that is one, and one for each thing EmailAddress::new looks at.
MCAddresses ==
    {<<"a", "@">>} \cup {<<"a", c, "@">> : c \in {"<", ">", "SP", "CR", "DEL", "oslash"}}

Envid(value) == Command("MAIL", "none", <<"a">>, <<[keyword |-> "ENVID", value |-> value]>>)
Orcpt(value) == Command("RCPT", "none", <<"a">>, <<[keyword |-> "ORCPT", value |-> value]>>)

MCOtherCommands ==
    {Bare("QUIT"), Bare("NOOP"), Bare("HELP"),
     Command("HELP", "none", <<"a">>, <<>>), Command("VRFY", "none", <<"a">>, <<>>),
     Command("EXPN", "none", <<"a", "SP", "a">>, <<>>), Orcpt(<<"a", "oslash", "=">>),
     Command("MAIL", "none", <<"a">>, <<[keyword |-> "SIZE", value |-> <<"2">>]>>),
     Envid(<<"a", "+", "2">>), Envid(<<"=", "SP">>), Envid(<<"TAB", "A">>), Envid(<<"TAB", "a">>)}

\* What the theorem AllReadAsMeant asks of the constants.
ASSUME MCWellFormed ==
    /\ \A id \in MCClientIds : IdRead(id[1], id[2])
    /\ MCOtherCommands \subseteq WellFormed

=============================================================================
