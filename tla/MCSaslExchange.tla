--------------------------- MODULE MCSaslExchange ---------------------------
(* Instances of SaslExchange for TLC. *)
EXTENDS SaslExchange

\* A caller that would rather not use PLAIN, and never uses XOAUTH2.
MCAccepted == <<"LOGIN", "PLAIN">>

=============================================================================
