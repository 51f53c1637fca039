---------------------------- MODULE CommandStream ----------------------------
(***************************************************************************)
(* What SmtpTransport relies on when it writes: commands come to the       *)
(* server whole and in the order they were written, and one that is cut    *)
(* short makes one line of itself and those up to the next whole one.  The *)
(* server of the transport model (Take and SGlue in SmtpServer) reads this *)
(* way.                                                                    *)
(***************************************************************************)
EXTENDS Naturals, SequencesExt

CONSTANTS
    Commands,   \* what the caller may write
    Doubtful,   \* of these, commands a server may read as others
    Refused,    \* and commands that, cut short, make no command with what follows
    Unknown     \* what a server reads in a line that is no command

VARIABLES
    written,    \* the commands written and not yet read, and whether they are cut short
    read        \* what the server read, line for line

vars == <<written, read>>

Init == written = <<>> /\ read = <<>>

Write(cmd) ==
    /\ written' = Append(written, [cmd |-> cmd, cut |-> FALSE])
    /\ UNCHANGED read

\* The write of the last command is abandoned, in the middle or before its first byte.
Abandon ==
    /\ written # <<>> /\ ~Last(written).cut
    /\ written' \in {Front(written), [written EXCEPT ![Len(written)].cut = TRUE]}
    /\ UNCHANGED read

\* The line of some commands cut short, if there are any, and the whole one behind them.
IsLine(line) ==
    /\ line # <<>> /\ ~Last(line).cut
    /\ \A i \in 1 .. Len(line) - 1 : line[i].cut

MayRead(line, cmd) ==
    /\ (Len(line) = 1 /\ line[1].cmd \notin Doubtful) => cmd = line[1].cmd
    /\ (Len(line) > 1 /\ line[1].cmd \in Refused) => cmd = Unknown

ReadLine ==
    \E n \in 1 .. Len(written) :
        /\ IsLine(SubSeq(written, 1, n))
        /\ written' = SubSeq(written, n + 1, Len(written))
        /\ Len(read') = Len(read) + 1
        /\ Front(read') = read
        /\ MayRead(SubSeq(written, 1, n), Last(read'))

Next == (\E cmd \in Commands : Write(cmd)) \/ Abandon \/ ReadLine

Spec == Init /\ [][Next]_vars

=============================================================================
