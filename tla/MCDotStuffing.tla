---------------------------- MODULE MCDotStuffing ----------------------------
(* Instances of DotStuffing for TLC: every message up to a given length. *)
EXTENDS DotStuffing

CONSTANT MaxLength

MCAll == UNION {[1 .. n -> Bytes] : n \in 0 .. MaxLength}

\* The codec starts in the middle of a line and forgets a CR before CR LF.
Missed(m) ==
    \/ m # <<>> /\ m[1] = "."
    \/ \E i \in 1 .. Len(m) - 3 : SubSeq(m, i, i + 3) = <<"CR", "CR", "LF", ".">>

MCFaithful == {m \in MCAll : ~Missed(m)}

=============================================================================
