---------------------------- MODULE KeptTransport ----------------------------
(***************************************************************************)
(* When may a caller go on with its transport?  SmtpTransport with a       *)
(* history variable: whether a call on the current connection has ended,   *)
(* with the transport kept, before it was done with the server.  The       *)
(* crate keeps no such record and its results do not tell.                 *)
(***************************************************************************)
EXTENDS SmtpTransport

VARIABLE unfinished

keptVars == <<vars, unfinished>>

\* read_response made an error of bytes that are no reply.
Unreadable(reply) == reply.severity \notin Positive \cup Negative

\* `send` returns on a reply before the last it asked for, or on none it can read.
SendLeaves ==
    /\ ReadNegativeReply
    /\ sent # acked + 1 \/ Unreadable(response)

\* `auth` returns while the server waits for an answer, or on no reply it can read.
AuthLeaves ==
    \/ RespondFails
    \/ ReadAuthReply /\ (response.severity = "Challenge" \/ Unreadable(response))

QuitLeaves == ReadQuit /\ Unreadable(response)

\* A future is dropped anywhere but between a positive reply and the next command
\* of the script: a reply is to come, a line is cut, or the server said 354 or 334.
AbandonLeaves ==
    /\ Abandon
    /\ ~BetweenCommands \/ c2s' # c2s

\* The step leaves the server with something the client does not come back to; an
\* empty message is one because its end is written twice (codec.rs, stream.rs).
LeavesUnfinished ==
    \/ WriteMessage /\ email \in EmptyMessages
    \/ pc' = "idle" /\ (ReaderFails \/ SendLeaves \/ AuthLeaves \/ QuitLeaves \/ AbandonLeaves)

KeptInit == Init /\ unfinished = FALSE

KeptNext ==
    /\ Next
    /\ unfinished' = (~Connect /\ (unfinished \/ LeavesUnfinished))

KeptSpec == KeptInit /\ [][KeptNext]_keptVars

-----------------------------------------------------------------------------
(* Properties *)

\* As long as every call on a connection was finished, whatever it returned and
\* whatever the caller made of it, the next call takes no reply for another: a
\* rejected login, a refused MAIL, RCPT or DATA without pipelining, the last reply of
\* a pipelined batch, a `quit`, a `send` dropped between two commands leave the
\* stream as good as new.  (smtp_client.rs drains nothing and sends no RSET.)
KeptInStep == ~unfinished => AwaitsOwnReply

\* On such a connection the server takes only messages as they were handed over,
\* with nothing in them, or in their envelope, of a call that failed before.
KeptAsAddressed ==
    [][~unfinished =>
        \A m \in 1 .. Len(delivered') :
            m > Len(delivered) => delivered'[m] = Genuine(delivered'[m].body)]_keptVars

\* On such a connection Ok means what it says, even after an earlier one was
\* unfinished and gave messages to the wrong people.
KeptOkTaken ==
    [][\A e \in Emails :
        ~unfinished /\ result[e] # "ok" /\ result'[e] = "ok" =>
            \E m \in 1 .. Len(delivered) :
                delivered[m] = Genuine(e) /\ Accepted(e) = {m}]_keptVars

=============================================================================
