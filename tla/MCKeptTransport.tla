--------------------------- MODULE MCKeptTransport ---------------------------
(***************************************************************************)
(* Instances of KeptTransport for TLC, with the constants of               *)
(* MCSmtpTransport.                                                        *)
(***************************************************************************)
EXTENDS KeptTransport, MCSmtpTransport

\* Bound: once a call was unfinished the caller only sends on that transport, or drops
\* it.  (A state beyond is checked; what follows it is left out.)
OnlySendsAfter == unfinished => pc \notin {"auth", "challenged", "quit", "starttls"}

=============================================================================
