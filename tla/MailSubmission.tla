--------------------------- MODULE MailSubmission ---------------------------
(***************************************************************************)
(* What the caller of SmtpTransport::send is promised, without commands,   *)
(* replies or connections: an email is handed over once, the server takes  *)
(* it at most once, and the outcome the caller sees tells whether it did,  *)
(* except when the outcome is "unknown" (the connection broke, the reply   *)
(* made no sense, or the caller stopped waiting), in which case the server *)
(* may have taken the email or may still take it.                          *)
(***************************************************************************)
EXTENDS Sequences, Integers

CONSTANT Emails

VARIABLES
    outcome,  \* what the caller knows about each email
    inbox     \* the emails taken, for all of their recipients, in order

vars == <<outcome, inbox>>

Outcomes == {"unsent", "pending", "sent", "rejected", "unknown"}

Taken(e) == \E i \in 1 .. Len(inbox) : inbox[i] = e

Init ==
    /\ outcome = [e \in Emails |-> "unsent"]
    /\ inbox = <<>>

\* The caller hands e over.
Submit(e) ==
    /\ outcome[e] = "unsent"
    /\ outcome' = [outcome EXCEPT ![e] = "pending"]
    /\ UNCHANGED inbox

\* The server takes e; the caller may have given up on it by then.
Accept(e) ==
    /\ outcome[e] \in {"pending", "unknown"}
    /\ ~Taken(e)
    /\ inbox' = Append(inbox, e)
    /\ UNCHANGED outcome

\* `send` returns.
Report(e, o) ==
    /\ outcome[e] = "pending"
    /\ o \in {"sent", "rejected", "unknown"}
    /\ o = "sent" => Taken(e)
    /\ o = "rejected" => ~Taken(e)
    /\ outcome' = [outcome EXCEPT ![e] = o]
    /\ UNCHANGED inbox

Next == \E e \in Emails : Submit(e) \/ Accept(e) \/ \E o \in Outcomes : Report(e, o)

Spec == Init /\ [][Next]_vars

=============================================================================
