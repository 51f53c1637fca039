--------------------------- MODULE MCSmtpTransport ---------------------------
(***************************************************************************)
(* Instances of SmtpTransport for TLC: the constants that a configuration  *)
(* file cannot write itself.                                               *)
(***************************************************************************)
EXTENDS SmtpTransport, TLC

CONSTANTS e1, e2

MCEmails == {e1, e2}

\* One email with several recipients, one with a single recipient.
MCRcptCount == (e1 :> 2) @@ (e2 :> 1)
MCRcptCount31 == (e1 :> 3) @@ (e2 :> 1)

MCFeatures == {"PIPELINING", "STARTTLS"}
MCPipeliningOnly == {"PIPELINING"}
MCOptions == {"PIPELINING", "STARTTLS", "SMTPUTF8"}

NegativeReplies == {"transient", "permanent"}
NegativeOrBetween == NegativeReplies \cup {"between"}

EveryError ==
    {"transient", "permanent", "parsing", "io", "challenge", "reader", "cancelled"}

SecondEmail == {e2}

=============================================================================
