-------------------------- MODULE TextSessionProofs --------------------------
(***************************************************************************)
(* Theorems of TextSession.  All of them rest on one invariant, Placed:    *)
(* there is one text, that of all commands written one after the other,    *)
(* of which the server has read the lines of the first m commands and what *)
(* follows is on its way or still to be handed over.                       *)
(***************************************************************************)
EXTENDS TextSession, CommandTextProofs

Readable == {ReadCommand(t) : t \in Seq(Tokens)}

Typed ==
    /\ stream \in Seq(Tokens) /\ todo \in Seq(Tokens)
    /\ meant \in Seq(Commands)
    /\ read \in Seq(Readable)
    /\ reply \in EhloReplies
    /\ server_info \in {NoInfo, from_response(reply)}

\* What is on its way, and what is still to be handed over, is what follows the first
\* m commands in the text `all` of those the caller wrote.
Sent(all, cut, m) ==
    /\ Laid(meant, all, cut)
    /\ m \in 0 .. Len(meant)
    /\ m > 0 => ~meant[m].cut
    /\ cut[m + 1] + Len(stream) + Len(todo) = Len(all)
    /\ \A j \in 1 .. Len(stream) : stream[j] = all[cut[m + 1] + j]
    /\ \A j \in 1 .. Len(todo) : todo[j] = all[cut[m + 1] + Len(stream) + j]
    /\ todo # <<>> =>
        m < Len(meant) /\ ~meant[Len(meant)].cut /\ cut[Len(meant)] <= cut[m + 1] + Len(stream)

\* The lines read are those of the first m commands.
Heard(all, cut, m) ==
    /\ Len(read) = Rank(meant, m)
    /\ \A n \in 1 .. Len(read) : Line(meant, all, cut, m, n, read[n])

Placed == \E all, cut, m : Sent(all, cut, m) /\ Heard(all, cut, m)

\* A command that is started is put at the end of the text, and of `todo`.
LEMMA StartKeeps ==
    ASSUME Typed, Placed, NEW cmd \in Written, Start(cmd), UNCHANGED <<stream, read>>
    PROVE  /\ todo' \in Seq(Tokens) /\ meant' \in Seq(Commands)
           /\ Placed'
<1> PICK all, cut, m : Sent(all, cut, m) /\ Heard(all, cut, m)
  BY DEF Placed
<1> PICK w \in Commands : w = [cmd |-> cmd, cut |-> FALSE]
  BY DEF Commands
<1> PICK d : d = Display(cmd)
  OBVIOUS
<1>1. d \in Seq(Tokens) /\ Len(d) \in Nat \ {0}
  <2>1. Len(Words(cmd)) \in Nat \ {0} /\ d \in Seq(Tokens) /\ Len(d) = Len(Words(cmd)) + 2
    BY DisplayEnds
  <2> QED
    BY <2>1
<1>2. Laid(meant, all, cut) /\ all \in Seq(Tokens) /\ meant \in Seq(Commands)
  BY DEF Sent, Laid, Typed
<1> PICK M \in Seq(Commands) : M = meant
  BY <1>2
<1> PICK N : N = meant'
  OBVIOUS
<1>3. /\ N \in Seq(Commands) /\ Len(N) = Len(M) + 1 /\ N[Len(N)] = w
      /\ \A i \in 1 .. Len(M) : N[i] = M[i]
  <2>1. N = Append(M, w)
    BY DEF Start
  <2> QED
    BY <2>1, AppendProperties
<1>4. w.cmd = cmd /\ w.cut = FALSE
  OBVIOUS
<1> PICK n \in Nat, l \in Nat : n = Len(M) /\ l = Len(all)
  BY <1>2, CutType
<1> PICK all2 : all2 = all \o d
  OBVIOUS
<1>5. /\ all2 \in Seq(Tokens) /\ Len(all2) = l + Len(d)
      /\ \A i \in 1 .. l : all2[i] = all[i]
      /\ \A i \in 1 .. Len(d) : all2[l + i] = d[i]
  <2>1. /\ all2 \in Seq(Tokens) /\ Len(all2) = l + Len(d)
        /\ \A i \in 1 .. l + Len(d) : all2[i] = IF i <= l THEN all[i] ELSE d[i - l]
    BY <1>1, <1>2, ConcatProperties
  <2>2. \A i \in 1 .. l : i \in 1 .. l + Len(d) /\ i <= l
    BY <1>1
  <2>3. \A i \in 1 .. Len(d) : l + i \in 1 .. l + Len(d) /\ ~(l + i <= l) /\ l + i - l = i
    BY <1>1
  <2> QED
    BY <2>1, <2>2, <2>3
<1> PICK cut2 : cut2 = [i \in 1 .. n + 2 |-> IF i = n + 2 THEN l + Len(d) ELSE cut[i]]
  OBVIOUS
<1>6. /\ cut2 \in [1 .. n + 2 -> 0 .. l + Len(d)] /\ cut2[n + 2] = l + Len(d)
      /\ \A i \in 1 .. n + 1 : cut2[i] = cut[i] /\ cut[i] \in Nat
  <2>1. \A i \in 1 .. n + 1 : cut[i] \in Nat /\ cut[i] <= l
    BY <1>2, CutType
  <2>2. \A i \in 1 .. n + 1 : cut[i] \in 0 .. l + Len(d)
    BY <1>1, <2>1
  <2>3. \A i \in 1 .. n + 2 : i = n + 2 \/ i \in 1 .. n + 1
    OBVIOUS
  <2> QED
    BY <1>1, <2>2, <2>3
<1>7. Laid(N, all2, cut2)
  <2>1. /\ ~N[Len(N)].cut /\ d = Display(N[Len(N)].cmd)
        /\ cut2 \in [1 .. Len(N) + 1 -> 0 .. Len(all2)] /\ cut2[Len(N) + 1] = Len(all2)
    BY <1>3, <1>4, <1>5, <1>6
  <2>2. /\ Laid(M, all, cut) /\ Len(N) = Len(M) + 1
        /\ \A i \in 1 .. Len(M) : N[i] = M[i]
        /\ Len(all2) = Len(all) + Len(Display(N[Len(N)].cmd))
        /\ \A i \in 1 .. Len(all) : all2[i] = all[i]
        /\ \A i \in 1 .. Len(M) + 1 : cut2[i] = cut[i]
    <3>1. Len(all2) = Len(all) + Len(Display(N[Len(N)].cmd)) /\ Laid(M, all, cut)
      BY <1>2, <1>5, <2>1
    <3> QED
      BY <1>3, <1>5, <1>6, <3>1
  <2>3. \A i \in 1 .. Len(Display(N[Len(N)].cmd)) :
          all2[Len(all) + i] = Display(N[Len(N)].cmd)[i]
    BY <1>5, <2>1
  <2>4. M \in Seq(Commands) /\ N \in Seq(Commands) /\ all2 \in Seq(Tokens)
    BY <1>3, <1>5
  <2>5. More(M, all, cut, N, all2, cut2)
    BY <2>1, <2>2, <2>3, <2>4, Zenon DEF More
  <2> QED
    BY <2>5, LaidMore
<1>8. m \in 0 .. n /\ (m > 0 => ~M[m].cut) /\ todo = <<>> /\ todo' = d
      /\ cut[m + 1] + Len(stream) + Len(todo) = l
      /\ \A j \in 1 .. Len(stream) : stream[j] = all[cut[m + 1] + j]
  BY DEF Sent, Start
<1>9. Len(stream) \in Nat /\ Len(todo) = 0
  BY <1>8 DEF Typed
<1>10. PICK p \in Nat : p = cut[m + 1] /\ p = cut2[m + 1] /\ p + Len(stream) = l
  <2>1. m + 1 \in 1 .. n + 1
    BY <1>8
  <2>2. PICK p \in Nat : p = cut[m + 1] /\ p = cut2[m + 1]
    BY <1>6, <2>1
  <2>3. PICK s \in Nat, t \in Nat : s = Len(stream) /\ t = Len(todo) /\ t = 0
    BY <1>9
  <2>4. p + s + t = l
    BY <1>8, <2>2, <2>3
  <2>5. p + s = l
    BY ONLY p \in Nat, s \in Nat, <2>3, <2>4
  <2> QED
    BY <2>2, <2>3, <2>5
<1>11. Sent(all2, cut2, m)'
  <2>1. m \in 0 .. Len(N) /\ (m > 0 => ~N[m].cut)
    BY <1>3, <1>8
  <2>2. p + Len(stream) + Len(d) = Len(all2)
    BY <1>5, <1>10
  <2>3. \A j \in 1 .. Len(stream) : stream[j] = all2[p + j]
    <3>1. /\ p \in Nat /\ l \in Nat /\ Len(stream) \in Nat /\ p + Len(stream) <= l
      BY <1>9, <1>10
    <3>2. \A j \in 1 .. Len(stream) : p + j \in 1 .. l
      BY ONLY <3>1, Shifted
    <3>3. \A j \in 1 .. Len(stream) : stream[j] = all[p + j]
      BY ONLY <1>8, <1>10
    <3> QED
      BY ONLY <1>5, <3>2, <3>3
  <2>4. \A j \in 1 .. Len(d) : d[j] = all2[p + Len(stream) + j]
    BY <1>5, <1>10
  <2>5. m < Len(N) /\ ~N[Len(N)].cut /\ cut2[Len(N)] <= p + Len(stream)
    <3>1. n + 1 \in 1 .. n + 1 /\ cut[n + 1] = l
      BY <1>2 DEF Laid
    <3>2. cut2[n + 1] = l
      BY <1>6, <3>1
    <3>3. l <= p + Len(stream)
      BY <1>10
    <3> QED
      BY <1>3, <1>4, <1>8, <3>2, <3>3
  <2>6. meant' = N /\ stream' = stream /\ todo' = d /\ Laid(N, all2, cut2) /\ cut2[m + 1] = p
    BY <1>7, <1>8, <1>10
  <2> QED
    BY ONLY <2>1, <2>2, <2>3, <2>4, <2>5, <2>6 DEF Sent
<1>12. Heard(all2, cut2, m)'
  <2>1. Len(read) = Rank(M, m) /\ \A k \in 1 .. Len(read) : Line(M, all, cut, m, k, read[k])
    BY DEF Heard
  <2>2. m \in Nat /\ m <= Len(M) /\ m <= Len(N)
    BY <1>3, <1>8
  <2>3. \A i \in 1 .. m : M[i].cut = N[i].cut
    <3>1. \A i \in 1 .. m : i \in 1 .. Len(M)
      BY <1>8
    <3> QED
      BY <1>3, <3>1
  <2>4. \A i \in 1 .. m + 1 : cut[i] = cut2[i]
    <3>1. \A i \in 1 .. m + 1 : i \in 1 .. n + 1
      BY <1>8
    <3> QED
      BY <1>6, <3>1
  <2>5. \A i \in 1 .. cut[m + 1] : all[i] = all2[i]
    <3>1. \A i \in 1 .. p : i \in 1 .. l
      BY <1>9, <1>10
    <3> QED
      BY <1>5, <1>10, <3>1
  <2>6. Agree(M, all, cut, N, all2, cut2, m)
    <3>1. M \in Seq(Commands) /\ N \in Seq(Commands) /\ Laid(M, all, cut)
      BY <1>2, <1>3
    <3> QED
      BY <1>7, <2>2, <2>3, <2>4, <2>5, <3>1 DEF Agree
  <2>7. Rank(N, m) = Rank(M, m) /\ \A k \in 1 .. Len(read) : Line(N, all2, cut2, m, k, read[k])
    <3>1. Rank(N, m) = Rank(M, m)
      BY <2>6, LinesKept
    <3>2. ASSUME NEW k \in 1 .. Len(read) PROVE Line(N, all2, cut2, m, k, read[k])
      <4>1. Line(M, all, cut, m, k, read[k])
        BY <2>1
      <4> QED
        BY <2>6, <4>1, LinesKept
    <3> QED
      BY <3>1, <3>2
  <2> QED
    BY <2>1, <2>7 DEF Heard
<1>13. Placed'
  BY <1>11, <1>12 DEF Placed
<1> QED
  BY <1>1, <1>3, <1>8, <1>13

\* What is handed over moves from `todo` to `stream`.
LEMMA FlowKeeps ==
    ASSUME Typed, Placed, Flow
    PROVE  /\ stream' \in Seq(Tokens) /\ todo' \in Seq(Tokens)
           /\ Placed'
<1> PICK all, cut, m : Sent(all, cut, m) /\ Heard(all, cut, m)
  BY DEF Placed
<1>0. PICK n \in 1 .. Len(todo) :
        stream' = stream \o SubSeq(todo, 1, n) /\ todo' = SubSeq(todo, n + 1, Len(todo))
  BY DEF Flow
<1>1. Laid(meant, all, cut) /\ meant \in Seq(Commands) /\ m \in 0 .. Len(meant)
  BY DEF Sent, Typed
<1>p. PICK p \in Nat, l \in Nat : p = cut[m + 1] /\ l = Len(all)
  <2>1. m + 1 \in 1 .. Len(meant) + 1
    BY <1>1
  <2> QED
    BY <1>1, <2>1, CutType
<1>s. PICK s \in Nat, t \in Nat : s = Len(stream) /\ t = Len(todo)
  <2>1. stream \in Seq(Tokens) /\ todo \in Seq(Tokens)
    BY DEF Typed
  <2> QED
    BY <2>1, LenProperties
<1>2. n \in 1 .. t /\ n \in Nat
  BY <1>s, <1>0
<1>3. /\ SubSeq(todo, 1, n) \in Seq(Tokens) /\ Len(SubSeq(todo, 1, n)) = n
      /\ \A i \in 1 .. n : SubSeq(todo, 1, n)[i] = todo[i]
  <2>1. todo \in Seq(Tokens) /\ n \in 0 .. Len(todo)
    BY <1>2 DEF Typed
  <2> QED
    BY <2>1, Prefix
<1>4. /\ todo' \in Seq(Tokens) /\ Len(todo') = t - n
      /\ \A i \in 1 .. t - n : todo'[i] = todo[n + i]
  <2>1. todo \in Seq(Tokens)
    BY DEF Typed
  <2>2. \A i \in 1 .. t - n : SubSeq(todo, n + 1, t)[i] = todo[n + i]
    BY <1>2, <2>1
  <2> QED
    BY <1>s, <1>0, <1>2, <2>1, <2>2
<1>5. /\ stream' \in Seq(Tokens) /\ Len(stream') = s + n
      /\ \A i \in 1 .. s : stream'[i] = stream[i]
      /\ \A i \in s + 1 .. s + n : stream'[i] = todo[i - s]
  <2>0. PICK x \in Seq(Tokens) : x = SubSeq(todo, 1, n)
    BY <1>3
  <2>1. stream \in Seq(Tokens) /\ Len(x) = n /\ stream' = stream \o x
    BY <1>0, <1>3, <2>0 DEF Typed
  <2>2. /\ stream' \in Seq(Tokens) /\ Len(stream') = s + n
        /\ \A i \in 1 .. s + n : stream'[i] = IF i <= s THEN stream[i] ELSE x[i - s]
    BY <1>s, <2>1, ConcatProperties
  <2>3. \A i \in s + 1 .. s + n : i \in 1 .. s + n /\ ~(i <= s) /\ i - s \in 1 .. n
    BY <1>2
  <2>4. \A i \in 1 .. s : i \in 1 .. s + n /\ i <= s
    BY <1>2
  <2> QED
    BY <1>3, <2>0, <2>2, <2>3, <2>4
<1>6. /\ m > 0 => ~meant[m].cut
      /\ p + s + t = l
      /\ \A j \in 1 .. s : stream[j] = all[p + j]
      /\ \A j \in 1 .. t : todo[j] = all[p + s + j]
      /\ m < Len(meant) /\ ~meant[Len(meant)].cut /\ cut[Len(meant)] <= p + s
  <2>1. todo # <<>>
    BY <1>2
  <2> QED
    BY <1>p, <1>s, <2>1 DEF Sent
<1>7. UNCHANGED <<meant, read>>
  BY DEF Flow
<1>8. \A j \in 1 .. s + n : stream'[j] = all[p + j]
  <2>1. \A j \in 1 .. s + n : j \in 1 .. s \/ (j \in s + 1 .. s + n /\ j - s \in 1 .. t /\ p + s + (j - s) = p + j)
    <3> TAKE j \in 1 .. s + n
    <3> QED
      BY <1>2
  <2> TAKE j \in 1 .. s + n
  <2>2. CASE j \in 1 .. s
    BY <1>5, <1>6, <2>2
  <2>3. CASE j \in s + 1 .. s + n /\ j - s \in 1 .. t /\ p + s + (j - s) = p + j
    <3>1. stream'[j] = todo[j - s]
      BY <1>5, <2>3
    <3>2. todo[j - s] = all[p + s + (j - s)]
      BY <1>6, <2>3
    <3> QED
      BY <2>3, <3>1, <3>2
  <2> QED
    BY <2>1, <2>2, <2>3
<1>9. \A j \in 1 .. t - n : todo'[j] = all[p + (s + n) + j]
  <2>1. \A j \in 1 .. t - n : n + j \in 1 .. t /\ p + s + (n + j) = p + (s + n) + j
    <3> TAKE j \in 1 .. t - n
    <3> QED
      BY <1>2
  <2> QED
    BY <1>4, <1>6, <2>1
<1>10. cut[Len(meant)] <= p + (s + n)
  <2>1. Len(meant) \in 1 .. Len(meant) + 1
    BY <1>1, <1>6
  <2>2. PICK x \in Nat : x = cut[Len(meant)]
    BY <1>1, <2>1, CutType
  <2> QED
    BY <1>2, <1>6, <2>2
<1>11. p + (s + n) + (t - n) = l
  BY <1>2, <1>6
<1>12. Sent(all, cut, m)'
  BY <1>p, <1>1, <1>4, <1>5, <1>6, <1>7, <1>8, <1>9, <1>10, <1>11 DEF Sent
<1>13. Heard(all, cut, m)'
  BY <1>7 DEF Heard
<1>14. Placed'
  BY <1>12, <1>13 DEF Placed
<1> QED
  BY <1>4, <1>5, <1>14

\* A command whose write is abandoned ends where the text handed over ends.
LEMMA CutKeeps ==
    ASSUME Typed, Placed, Cut
    PROVE  /\ todo' \in Seq(Tokens) /\ meant' \in Seq(Commands)
           /\ Placed'
<1> PICK all, cut, m : Sent(all, cut, m) /\ Heard(all, cut, m)
  BY DEF Placed
<1>1. Laid(meant, all, cut) /\ meant \in Seq(Commands) /\ m \in 0 .. Len(meant)
      /\ stream \in Seq(Tokens) /\ todo \in Seq(Tokens) /\ all \in Seq(Tokens)
  BY DEF Sent, Typed, Laid
<1>M. PICK M \in Seq(Commands) : M = meant
  BY <1>1
<1>L. PICK L \in Nat, l \in Nat, s \in Nat, t \in Nat :
        L = Len(M) /\ l = Len(all) /\ s = Len(stream) /\ t = Len(todo)
  BY <1>1, LenProperties
<1>2. todo # <<>> /\ t > 0 /\ todo' = <<>> /\ UNCHANGED <<stream, read>>
  BY <1>L, <1>1, EmptySeq DEF Cut
<1>3. /\ m > 0 => ~M[m].cut
      /\ cut[m + 1] + s + t = l
      /\ \A j \in 1 .. s : stream[j] = all[cut[m + 1] + j]
      /\ \A j \in 1 .. t : todo[j] = all[cut[m + 1] + s + j]
      /\ m < L /\ ~M[L].cut /\ cut[L] <= cut[m + 1] + s
  <2>1. Sent(all, cut, m)
    OBVIOUS
  <2> QED
    BY ONLY <1>M, <1>L, <1>2, <2>1 DEF Sent
<1>4. m + 1 \in 1 .. L + 1 /\ L \in 1 .. L /\ L \in 1 .. L + 1 /\ L - 1 \in Nat /\ L - 1 + 1 = L
      /\ m \in Nat /\ m <= L - 1
  BY <1>1, <1>3
<1>p. PICK p \in Nat, x \in Nat : p = cut[m + 1] /\ x = cut[L]
  <2>1. Laid(M, all, cut)
    BY <1>M, <1>1
  <2>2. cut[m + 1] \in Nat /\ cut[L] \in Nat
    BY ONLY M \in Seq(Commands), <1>L, <1>4, <2>1, CutType
  <2> QED
    BY <2>2
<1>q. PICK q \in Nat : q = p + s
  OBVIOUS
<1>5. q + t = l /\ x <= q /\ p <= q /\ q < l
  <2>1. p + s + t = l /\ x <= p + s /\ t > 0
    BY ONLY <1>p, <1>2, <1>3
  <2> QED
    BY ONLY p \in Nat, s \in Nat, t \in Nat, x \in Nat, <1>q, <2>1
<1>d. PICK d : d = Display(M[L].cmd)
  OBVIOUS
<1>6. l - x = Len(d) /\ \A j \in 1 .. l - x : all[x + j] = d[j]
  <2>1. cut[L + 1] = l
    BY <1>M, <1>L, <1>1 DEF Laid
  <2> QED
    BY <1>M, <1>L, <1>p, <1>d, <1>1, <1>3, <1>4, <2>1 DEF Laid
<1>7. d \in Seq(Tokens)
  BY <1>L, <1>d, <1>4, CommandType, DisplayEnds
<1>a. PICK all2 \in Seq(Tokens) : Len(all2) = q /\ \A i \in 1 .. q : all2[i] = all[i]
  <2>1. /\ SubSeq(all, 1, q) \in Seq(Tokens) /\ Len(SubSeq(all, 1, q)) = q
        /\ \A i \in 1 .. q : SubSeq(all, 1, q)[i] = all[i]
    <3>1. q \in 0 .. Len(all)
      BY <1>L, <1>5
    <3> QED
      BY <1>1, <3>1, Prefix
  <2> QED
    BY <2>1
<1>8. \A i \in 1 .. L : cut[i] \in 0 .. x
  <2>1. \A i \in 1 .. L : i \in 1 .. L + 1 /\ (i < L \/ i = L)
    OBVIOUS
  <2>2. \A i \in 1 .. L + 1 : cut[i] \in Nat
    BY <1>M, <1>L, <1>1, CutType
  <2>3. \A i, j \in 1 .. L + 1 : i < j => cut[i] < cut[j]
    BY <1>M, <1>L, <1>1 DEF Laid
  <2>4. \A i \in 1 .. L : cut[i] <= x
    BY <1>p, <1>4, <2>1, <2>2, <2>3
  <2> QED
    BY <2>1, <2>2, <2>4
<1>9. ASSUME NEW N \in Seq(Commands), N = meant', NEW cut2, Laid(N, all2, cut2),
             m <= Len(N), \A i \in 1 .. m : N[i] = M[i], \A i \in 1 .. m + 1 : cut2[i] = cut[i]
      PROVE  Placed'
  <2>1. Sent(all2, cut2, m)'
    <3>1. m \in 0 .. Len(N) /\ (m > 0 => ~N[m].cut)
      <4>1. m > 0 => m \in 1 .. m
        BY <1>4
      <4> QED
        BY <1>3, <1>4, <1>9, <4>1
    <3>2. m + 1 \in 1 .. m + 1
      BY <1>4
    <3>3. cut2[m + 1] = p
      BY <1>p, <1>9, <3>2
    <3>4. \A j \in 1 .. s : stream[j] = all2[p + j]
      <4>1. \A j \in 1 .. s : p + j \in 1 .. q
        BY <1>q
      <4> QED
        BY <1>p, <1>a, <1>3, <4>1
    <3>5. Len(todo') = 0 /\ todo' = <<>>
      BY <1>2
    <3>6. p + s + 0 = q
      BY <1>q
    <3> QED
      BY <1>L, <1>a, <1>2, <1>9, <3>1, <3>3, <3>4, <3>5, <3>6 DEF Sent
  <2>2. Agree(M, all, cut, N, all2, cut2, m)
    <3>1. \A i \in 1 .. cut[m + 1] : all[i] = all2[i]
      <4>1. \A i \in 1 .. p : i \in 1 .. q
        BY <1>5
      <4> QED
        BY <1>p, <1>a, <4>1
    <3>2. \A i \in 1 .. m : M[i].cut = N[i].cut
      BY <1>9
    <3>3. \A i \in 1 .. m + 1 : cut[i] = cut2[i]
      BY <1>9
    <3>4. m \in Nat /\ m <= Len(M) /\ m <= Len(N)
      BY <1>L, <1>1, <1>4, <1>9
    <3>5. Laid(M, all, cut) /\ Laid(N, all2, cut2) /\ M \in Seq(Commands) /\ N \in Seq(Commands)
      BY <1>M, <1>1, <1>9
    <3> QED
      BY <3>1, <3>2, <3>3, <3>4, <3>5 DEF Agree
  <2>3. Heard(all2, cut2, m)'
    <3>1. Len(read) = Rank(M, m) /\ \A k \in 1 .. Len(read) : Line(M, all, cut, m, k, read[k])
      BY <1>M DEF Heard
    <3>2. Rank(N, m) = Rank(M, m)
      BY <2>2, LinesKept
    <3>3. ASSUME NEW k \in 1 .. Len(read) PROVE Line(N, all2, cut2, m, k, read[k])
      <4>1. Line(M, all, cut, m, k, read[k])
        BY <3>1
      <4> QED
        BY <2>2, <4>1, LinesKept
    <3> QED
      BY <1>2, <1>9, <3>1, <3>2, <3>3 DEF Heard
  <2> QED
    BY <2>1, <2>3 DEF Placed
<1>10. todo' \in Seq(Tokens)
  BY <1>2
<1>11. CASE todo = d
  <2>1. q = x
    <3>1. t = l - x
      BY <1>L, <1>6, <1>11
    <3> QED
      BY <1>5, <3>1
  <2> PICK N : N = meant'
    OBVIOUS
  <2>2. N \in Seq(Commands) /\ Len(N) = L - 1 /\ \A i \in 1 .. L - 1 : N[i] = M[i]
    <3>1. todo = Display(Last(meant).cmd)
      BY <1>M, <1>L, <1>d, <1>11 DEF Last
    <3>2. N = SubSeq(M, 1, L - 1)
      BY <1>M, <1>L, <3>1 DEF Cut, Front
    <3> QED
      BY <1>L, <1>4, <3>2
  <2> PICK cut2 : cut2 = [i \in 1 .. L |-> cut[i]]
    OBVIOUS
  <2>3. cut2 \in [1 .. Len(N) + 1 -> 0 .. q] /\ \A i \in 1 .. L - 1 + 1 : cut2[i] = cut[i]
    BY <1>4, <1>8, <2>1, <2>2
  <2>4. Less(M, all, cut, L - 1, q, N, all2, cut2)
    <3>1. L - 1 <= Len(M) /\ q <= Len(all) /\ cut[L - 1 + 1] <= q /\ Len(N) <= Len(M)
          /\ q = cut[L - 1 + 1]
      BY <1>L, <1>p, <1>4, <1>5, <2>1, <2>2
    <3> QED
      BY <1>M, <1>a, <1>1, <1>4, <2>2, <2>3, <3>1 DEF Less
  <2>5. Laid(N, all2, cut2)
    BY <2>4, LaidLess
  <2>6. m <= Len(N) /\ (\A i \in 1 .. m : N[i] = M[i]) /\ \A i \in 1 .. m + 1 : cut2[i] = cut[i]
    <3>1. \A i \in 1 .. m : i \in 1 .. L - 1
      BY <1>4
    <3>2. \A i \in 1 .. m + 1 : i \in 1 .. L - 1 + 1
      BY <1>4
    <3> QED
      BY <1>4, <2>2, <2>3, <3>1, <3>2
  <2>7. Placed'
    BY <1>9, <2>2, <2>5, <2>6
  <2> QED
    BY <1>10, <2>2, <2>7
<1>12. CASE todo # d
  <2>1. x < q
    <3>1. SUFFICES ASSUME q = x PROVE FALSE
      BY <1>5
    <3>2. Len(todo) = Len(d)
      <4>1. t = l - x
        BY <1>5, <3>1
      <4>2. l - x = Len(d)
        BY <1>6
      <4> QED
        BY <1>L, <4>1, <4>2
    <3>3. \A j \in 1 .. Len(todo) : todo[j] = d[j]
      <4>1. \A j \in 1 .. t : j \in 1 .. l - x /\ todo[j] = all[x + j]
        <5> TAKE j \in 1 .. t
        <5>1. j \in 1 .. l - x
          BY <1>5, <3>1
        <5>2. todo[j] = all[p + s + j]
          BY <1>p, <1>3
        <5> QED
          BY <1>q, <3>1, <5>1, <5>2
      <4> QED
        BY <1>L, <1>6, <4>1
    <3> QED
      BY <1>1, <1>7, <1>12, <3>2, <3>3, SeqEqual
  <2> PICK N : N = meant'
    OBVIOUS
  <2>2. /\ N \in Seq(Commands) /\ Len(N) = L /\ (\A i \in 1 .. L - 1 : N[i] = M[i])
        /\ N[L].cmd = M[L].cmd /\ N[L].cut = TRUE
    <3>1. todo # Display(Last(meant).cmd)
      BY <1>M, <1>L, <1>d, <1>12 DEF Last
    <3>2. N = [M EXCEPT ![L].cut = TRUE]
      BY <1>M, <1>L, <3>1 DEF Cut
    <3>3. \A i \in 1 .. L - 1 : i \in 1 .. L /\ i # L
      OBVIOUS
    <3>4. L \in 1 .. Len(M) /\ M \in Seq(Commands)
      BY <1>L, <1>4
    <3>5. /\ N \in Seq(Commands) /\ Len(N) = Len(M)
          /\ \A i \in 1 .. Len(M) : i # L => N[i] = M[i]
          /\ N[L].cmd = M[L].cmd /\ N[L].cut = TRUE
      BY <3>2, <3>4, CutShort
    <3> QED
      BY <1>L, <3>3, <3>5
  <2> PICK cut2 : cut2 = [i \in 1 .. L + 1 |-> IF i = L + 1 THEN q ELSE cut[i]]
    OBVIOUS
  <2>3. /\ cut2 \in [1 .. Len(N) + 1 -> 0 .. q] /\ cut2[L - 1 + 2] = q
        /\ \A i \in 1 .. L - 1 + 1 : cut2[i] = cut[i]
    <3>1. \A i \in 1 .. L : cut[i] \in 0 .. q
      <4> TAKE i \in 1 .. L
      <4>1. cut[i] \in 0 .. x
        BY <1>8
      <4>2. x <= q
        BY <1>5
      <4> QED
        BY <4>1, <4>2
    <3>2. \A i \in 1 .. L + 1 : i = L + 1 \/ i \in 1 .. L
      OBVIOUS
    <3> QED
      BY <2>2, <3>1, <3>2
  <2>4. Less(M, all, cut, L - 1, q, N, all2, cut2)
    <3>1. /\ L - 1 <= Len(M) /\ q <= Len(all) /\ cut[L - 1 + 1] <= q /\ Len(N) <= Len(M)
          /\ cut[L - 1 + 1] < q /\ q < Len(all) /\ L - 1 + 1 = Len(M) /\ Len(N) = L - 1 + 1
      BY <1>L, <1>p, <1>4, <1>5, <2>1, <2>2
    <3>2. N[L - 1 + 1].cmd = M[L - 1 + 1].cmd /\ N[L - 1 + 1].cut /\ ~M[L - 1 + 1].cut
      BY <1>3, <1>4, <2>2
    <3> QED
      BY <1>M, <1>a, <1>1, <1>4, <2>2, <2>3, <3>1, <3>2 DEF Less
  <2>5. Laid(N, all2, cut2)
    BY <2>4, LaidLess
  <2>6. m <= Len(N) /\ (\A i \in 1 .. m : N[i] = M[i]) /\ \A i \in 1 .. m + 1 : cut2[i] = cut[i]
    <3>1. \A i \in 1 .. m : i \in 1 .. L - 1
      BY <1>4
    <3>2. \A i \in 1 .. m + 1 : i \in 1 .. L - 1 + 1
      BY <1>4
    <3> QED
      BY <1>4, <2>2, <2>3, <3>1, <3>2
  <2>7. Placed'
    BY <1>9, <2>2, <2>5, <2>6
  <2> QED
    BY <1>10, <2>2, <2>7
<1> QED
  BY <1>11, <1>12

\* The line the server reads is the one that ends with the next whole command.
LEMMA ReadLineKeeps ==
    ASSUME Typed, Placed, ReadLine
    PROVE  /\ stream' \in Seq(Tokens) /\ read' \in Seq(Readable)
           /\ Placed'
<1>1. PICK all, cut, m : Sent(all, cut, m) /\ Heard(all, cut, m)
  BY DEF Placed
<1>2. /\ Laid(meant, all, cut) /\ meant \in Seq(Commands) /\ m \in 0 .. Len(meant)
      /\ stream \in Seq(Tokens) /\ todo \in Seq(Tokens) /\ all \in Seq(Tokens)
  BY <1>1 DEF Sent, Typed, Laid
<1>3. PICK M \in Seq(Commands) : M = meant
  BY <1>2
<1>4. PICK S \in Seq(Tokens) : S = stream
  BY <1>2
<1>5. PICK L \in Nat, l \in Nat, s \in Nat, t \in Nat :
        L = Len(M) /\ l = Len(all) /\ s = Len(S) /\ t = Len(todo)
  BY <1>2, LenProperties
<1>6. m \in 0 .. L /\ m + 1 \in 1 .. L + 1
  BY <1>2, <1>3, <1>5
<1>7. PICK p \in Nat : p = cut[m + 1]
  BY <1>2, <1>3, <1>5, <1>6, CutType
<1>8. /\ m > 0 => ~M[m].cut
      /\ p + s + t = l
      /\ \A j \in 1 .. s : S[j] = all[p + j]
      /\ \A j \in 1 .. t : todo[j] = all[p + s + j]
      /\ t > 0 => m < L /\ ~M[L].cut /\ cut[L] <= p + s
  <2>1. t > 0 => todo # <<>>
    BY <1>5
  <2> QED
    BY <1>1, <1>3, <1>4, <1>5, <1>7, <2>1 DEF Sent
<1>9. PICK i \in 1 .. s - 1 :
        /\ i = Min(LineEnds) /\ S[i] = "CR" /\ S[i + 1] = "LF"
        /\ \A j \in 1 .. s - 1 : S[j] = "CR" /\ S[j + 1] = "LF" => i <= j
  <2>1. LineEnds \subseteq Nat /\ LineEnds # {}
    BY <1>4, <1>5 DEF LineEnds, ReadLine
  <2>2. Min(LineEnds) \in LineEnds /\ \A j \in LineEnds : Min(LineEnds) <= j
    BY <2>1, Least
  <2>3. PICK i : i = Min(LineEnds)
    OBVIOUS
  <2>4. i \in 1 .. s - 1 /\ S[i] = "CR" /\ S[i + 1] = "LF"
    BY <1>4, <1>5, <2>2, <2>3 DEF LineEnds
  <2>5. \A j \in 1 .. s - 1 : S[j] = "CR" /\ S[j + 1] = "LF" => i <= j
    <3>1. \A j \in 1 .. s - 1 : S[j] = "CR" /\ S[j + 1] = "LF" => j \in LineEnds
      BY <1>4, <1>5 DEF LineEnds
    <3> QED
      BY <2>2, <2>3, <3>1
  <2> QED
    BY <2>3, <2>4, <2>5
<1>10. PICK e \in 1 .. L :
        /\ m < e /\ ~M[e].cut /\ cut[e + 1] = p + i + 1
        /\ \A k \in m + 1 .. e - 1 : M[k].cut
  <2>1. p + s <= l
    BY <1>8
  <2>2. cut[m + 1] + s <= Len(all) /\ Laid(M, all, cut) /\ m \in 0 .. Len(M)
    BY <1>2, <1>3, <1>5, <1>7, <2>1
  <2>3. i \in 1 .. s - 1 /\ S[i + 1] = "LF"
        /\ \A j \in 1 .. s - 1 : S[j] = "CR" /\ S[j + 1] = "LF" => i <= j
    BY <1>9
  <2>4. First(M, all, cut, m, S, s, i)
    BY <1>7, <1>8, <2>2, <2>3 DEF First
  <2>5. PICK e \in 1 .. Len(M) :
          /\ m < e /\ ~M[e].cut /\ cut[e + 1] = cut[m + 1] + i + 1
          /\ \A k \in m + 1 .. e - 1 : M[k].cut
    BY <2>4, NextLine
  <2> QED
    BY <1>5, <1>7, <2>5
<1>11. PICK u \in Nat : u = s - (i + 1)
  BY <1>9
<1>12. /\ stream' \in Seq(Tokens) /\ Len(stream') = u
       /\ \A j \in 1 .. u : stream'[j] = S[i + 1 + j]
  <2>1. stream' = SubSeq(S, i + 2, s)
    BY <1>4, <1>5, <1>9 DEF ReadLine
  <2>2. i + 2 \in 1 .. s + 1 /\ s - (i + 2) + 1 = u
    BY <1>9, <1>11
  <2>3. \A j \in 1 .. u : SubSeq(S, i + 2, s)[j] = S[i + 1 + j]
    BY <1>5, <2>2
  <2>4. SubSeq(S, i + 2, s) \in Seq(Tokens) /\ Len(SubSeq(S, i + 2, s)) = u
    BY <1>5, <2>2
  <2> QED
    BY <2>1, <2>3, <2>4
<1>13. PICK x : x = SubSeq(S, 1, i - 1)
  OBVIOUS
<1>14. x \in Seq(Tokens) /\ x = SubSeq(all, p + 1, p + (i - 1))
  <2>1. i - 1 \in Nat /\ i - 1 <= s /\ p + (i - 1) <= l /\ \A j \in 1 .. i - 1 : j \in 1 .. s
    <3>1. p + s + t = l
      BY <1>8
    <3> QED
      BY ONLY p \in Nat, s \in Nat, t \in Nat, l \in Nat, i \in 1 .. s - 1, <3>1
  <2>2. \A j \in 1 .. i - 1 : S[j] = all[p + j]
    BY <1>8, <2>1
  <2> QED
    BY <1>2, <1>5, <1>13, <2>1, <2>2, Same
<1>15. PICK c \in Readable : c = ReadCommand(x)
  BY <1>14 DEF Readable
<1>16. PICK r \in Nat : r = Len(read)
  BY DEF Typed
<1>17. /\ read' \in Seq(Readable) /\ Len(read') = r + 1 /\ read'[r + 1] = c
       /\ \A n \in 1 .. r : read'[n] = read[n]
  <2>1. read' = Append(read, c) /\ read \in Seq(Readable)
    BY <1>4, <1>9, <1>13, <1>15 DEF ReadLine, Typed
  <2> QED
    BY <1>16, <2>1, AppendProperties
<1>18. UNCHANGED <<meant, todo>>
  BY DEF ReadLine
<1>19. PICK q \in Nat : q = p + i + 1
  OBVIOUS
<1>20. q + u + t = l /\ q + u = p + s /\ \A j \in 1 .. u : i + 1 + j \in 1 .. s /\ p + (i + 1 + j) = q + j
  <2>1. p + s + t = l
    BY <1>8
  <2>2. i \in 1 .. s - 1
    BY <1>9
  <2>3. q + u + t = l /\ q + u = p + s
    BY <1>11, <1>19, <2>1, <2>2
  <2>4. \A j \in 1 .. u : i + 1 + j \in 1 .. s /\ p + (i + 1 + j) = q + j
    <3> TAKE j \in 1 .. u
    <3> QED
      BY <1>11, <1>19, <2>2
  <2> QED
    BY <2>3, <2>4
<1>21. Sent(all, cut, e)'
  <2>1. e \in 0 .. L /\ (e > 0 => ~M[e].cut) /\ cut[e + 1] = q
    BY <1>10, <1>19
  <2>2. \A j \in 1 .. u : stream'[j] = all[q + j]
    <3> TAKE j \in 1 .. u
    <3>1. stream'[j] = S[i + 1 + j] /\ i + 1 + j \in 1 .. s /\ p + (i + 1 + j) = q + j
      BY <1>12, <1>20
    <3> QED
      BY <1>8, <3>1
  <2>3. \A j \in 1 .. t : todo[j] = all[q + u + j]
    BY <1>8, <1>20
  <2>4. t > 0 => e < L /\ ~M[L].cut /\ cut[L] <= q + u
    <3>1. SUFFICES ASSUME t > 0 PROVE e < L /\ ~M[L].cut /\ cut[L] <= q + u
      OBVIOUS
    <3>2. e # L
      <4>1. SUFFICES ASSUME e = L PROVE FALSE
        OBVIOUS
      <4>2. cut[L + 1] = l
        BY <1>2, <1>3, <1>5 DEF Laid
      <4>3. q = l
        BY <2>1, <4>1, <4>2
      <4> QED
        BY <1>20, <3>1, <4>3
    <3>3. ~M[L].cut /\ cut[L] <= q + u
      BY <1>8, <1>20, <3>1
    <3> QED
      BY <3>2, <3>3
  <2>5. todo # <<>> => t > 0
    BY <1>2, <1>5, EmptySeq
  <2> QED
    BY <1>2, <1>3, <1>5, <1>12, <1>18, <1>20, <2>1, <2>2, <2>3, <2>4, <2>5 DEF Sent
<1>22. r = Rank(M, m) /\ \A n \in 1 .. r : Line(M, all, cut, m, n, read[n])
  BY <1>1, <1>3, <1>16 DEF Heard
<1>23. Rank(M, e) = r + 1
  BY <1>6, <1>10, <1>22, RankNext
<1>24. Line(M, all, cut, e, r + 1, c)
  <2>1. PICK b \in 1 .. e : b = m + 1
    BY <1>6, <1>10
  <2>2. b <= e /\ ~M[e].cut /\ \A k \in b .. e - 1 : M[k].cut
    BY <1>10, <2>1
  <2>3. b = 1 \/ ~M[b - 1].cut
    BY <1>6, <1>8, <2>1
  <2>4. c = ReadCommand(SubSeq(all, cut[b] + 1, cut[e + 1] - 2))
    <3>1. p + (i - 1) = p + i + 1 - 2
      OBVIOUS
    <3>2. cut[b] + 1 = p + 1 /\ cut[e + 1] = p + i + 1
      BY <1>7, <1>10, <2>1
    <3>3. c = ReadCommand(SubSeq(all, p + 1, p + (i - 1)))
      BY <1>14, <1>15
    <3> QED
      BY <3>1, <3>2, <3>3
  <2>5. e \in 1 .. e
    OBVIOUS
  <2> QED
    BY <1>23, <2>1, <2>2, <2>3, <2>4, <2>5 DEF Line
<1>25. Heard(all, cut, e)'
  <2>1. ASSUME NEW n \in 1 .. r + 1 PROVE Line(M, all, cut, e, n, read'[n])
    <3>1. CASE n \in 1 .. r
      <4>1. Line(M, all, cut, m, n, read[n]) /\ read'[n] = read[n]
        BY <1>17, <1>22, <3>1
      <4>2. m \in Nat /\ e \in Nat /\ m <= e
        BY <1>6, <1>10
      <4> QED
        BY <4>1, <4>2, LineMore
    <3>2. CASE n \notin 1 .. r
      <4>1. n = r + 1
        BY <3>2
      <4> QED
        BY <1>17, <1>24, <4>1
    <3> QED
      BY <3>1, <3>2
  <2> QED
    BY <1>3, <1>17, <1>18, <1>23, <2>1 DEF Heard
<1>26. Placed'
  BY <1>21, <1>25 DEF Placed
<1> QED
  BY <1>12, <1>17, <1>26

\* Texts without a CR and a LF.
LEMMA PlainTexts ==
    Seq(STRING \ {"CR", "LF"}) \subseteq Seq(Plain)
<1>1. STRING \ {"CR", "LF"} \subseteq Plain
  BY DEF Plain, Tokens
<1> QED
  BY <1>1, SeqMonotonic

\* No address EmailAddress::new takes can end a line.
LEMMA AddressPlain ==
    ASSUME NEW a \in Seq(Characters), EmailAddress_new(a)
    PROVE  a \in Seq(Plain)
<1>1. \A i \in 1 .. Len(a) : a[i] \in Plain
  <2> TAKE i \in 1 .. Len(a)
  <2>1. a[i] \in Characters /\ i \in DOMAIN a
    OBVIOUS
  <2>2. Printable(a[i])
    BY <2>1 DEF EmailAddress_new
  <2>3. CodePoint[a[i]] \in 33 .. 126
    BY <2>2 DEF Printable
  <2>4. a[i] \notin {"CR", "LF"}
    <3>1. PICK c \in Characters : c = a[i]
      BY <2>1
    <3>2. PICK n \in 33 .. 126 : n = CodePoint[c]
      BY <2>3, <3>1
    <3>3. ~(n < 33)
      OBVIOUS
    <3>4. ~(CodePoint[c] < 33)
      BY <3>2, <3>3, Zenon
    <3>5. c \in {"CR", "LF"} => CodePoint[c] < 33
      BY CodePoints
    <3> QED
      BY <3>1, <3>4, <3>5, Zenon
  <2> QED
    BY <2>1, <2>4, CharacterPlain
<1> QED
  BY <1>1

\* The verbs of all commands.
LEMMA VerbsAre ==
    /\ {"EHLO", "MAIL", "RCPT", "DATA"} \subseteq Verbs
    /\ BareVerbs \cup TextVerbs \cup {"MAIL", "RCPT"} \subseteq Verbs
BY DEF Verbs, BareVerbs, TextVerbs

\* What every command written consists of.
LEMMA CommandWritten ==
    ASSUME NEW verb \in Verbs, NEW kind \in {"none", "Domain", "Ipv4", "Ipv6"},
           NEW text \in Seq(Plain), NEW params \in Seq(Params)
    PROVE  Command(verb, kind, text, params) \in Written
BY DEF Command, Written

\* The EHLO of every client id.
LEMMA EhloWritten == EhloCommands \subseteq Written
<1> SUFFICES ASSUME NEW id \in ClientIds PROVE Command("EHLO", id[1], id[2], <<>>) \in Written
  BY DEF EhloCommands
<1>1. id \in {"Domain", "Ipv4", "Ipv6"} \X Seq(STRING \ {"CR", "LF"})
  BY TextAssumption
<1>2. id[1] \in {"none", "Domain", "Ipv4", "Ipv6"} /\ id[2] \in Seq(STRING \ {"CR", "LF"})
  BY <1>1
<1>3. id[2] \in Seq(Plain)
  BY <1>2, PlainTexts
<1>4. "EHLO" \in Verbs /\ <<>> \in Seq(Params)
  BY VerbsAre
<1> QED
  BY <1>2, <1>3, <1>4, CommandWritten

\* `send` knows four lists of options.
LEMMA OptionsKnown == mail_options \in MailOptions
<1>1. \A a \in {<<>>, <<BodyOption>>}, b \in {<<>>, <<Utf8Option>>} : a \o b \in MailOptions
  <2>1. <<>> \o <<>> = <<>>
    OBVIOUS
  <2>2. <<BodyOption>> \o <<>> = <<BodyOption>>
    OBVIOUS
  <2>3. <<>> \o <<Utf8Option>> = <<Utf8Option>>
    OBVIOUS
  <2>4. <<BodyOption>> \o <<Utf8Option>> = <<BodyOption, Utf8Option>>
    BY TwoSingles
  <2> QED
    BY <2>1, <2>2, <2>3, <2>4 DEF MailOptions
<1>2. PICK a \in {<<>>, <<BodyOption>>} :
        a = IF supports_feature(<<"8BITMIME">>) THEN <<BodyOption>> ELSE <<>>
  OBVIOUS
<1>3. PICK b \in {<<>>, <<Utf8Option>>} :
        b = IF supports_feature(<<"SMTPUTF8">>) /\ SmtpUtf8 THEN <<Utf8Option>> ELSE <<>>
  OBVIOUS
<1>4. mail_options = a \o b
  BY <1>2, <1>3 DEF mail_options
<1> QED
  BY <1>1, <1>4

\* The commands `send` writes now are among those it ever writes.
LEMMA SendEverSent == SendCommands \subseteq EverSent
BY OptionsKnown DEF SendCommands, EverSent

\* The options of `send` are parameters.
LEMMA OptionsParams == MailOptions \subseteq Seq(Params)
<1>1. BodyOption \in Params
  BY DEF BodyOption, Params, FixedParameters
<1>2. Utf8Option \in Params
  <2>1. "SMTPUTF8" \in Plain /\ <<>> \in Seq(Characters)
    BY DEF Plain, Tokens
  <2> QED
    BY <2>1 DEF Utf8Option, Params
<1>3. <<BodyOption>> \in Seq(Params) /\ <<Utf8Option>> \in Seq(Params) /\ <<>> \in Seq(Params)
  BY <1>1, <1>2
<1>4. <<BodyOption, Utf8Option>> \in Seq(Params)
  BY <1>1, <1>2, Pair
<1> QED
  BY <1>3, <1>4 DEF MailOptions

\* The commands of `send`: EmailAddress::new lets no CR and no LF into an address.
LEMMA SendWritten == EverSent \subseteq Written
<1> SUFFICES ASSUME NEW options \in MailOptions PROVE Sending(options) \subseteq Written
  BY DEF EverSent
<1>1. <<>> \in Seq(Plain) /\ <<>> \in Seq(Params) /\ "none" \in {"none", "Domain", "Ipv4", "Ipv6"}
      /\ "MAIL" \in Verbs /\ "RCPT" \in Verbs /\ "DATA" \in Verbs
  BY VerbsAre
<1>2. \A a \in Addresses : EmailAddress_new(a) => a \in Seq(Plain)
  BY AddressPlain, TextAssumption
<1>3. \A a \in {b \in Addresses : EmailAddress_new(b)} \cup {<<>>} :
        Command("MAIL", "none", a, options) \in Written
  BY <1>1, <1>2, OptionsParams, CommandWritten
<1>4. \A a \in {b \in Addresses : EmailAddress_new(b)} : Command("RCPT", "none", a, <<>>) \in Written
  BY <1>1, <1>2, CommandWritten
<1>5. Bare("DATA") \in Written
  BY <1>1, CommandWritten DEF Bare
<1> QED
  BY <1>3, <1>4, <1>5 DEF Sending

\* The other commands of a caller.
LEMMA OtherWritten == OtherCommands \subseteq Written
<1>1. SUFFICES ASSUME NEW c \in OneLiners PROVE c \in Written
  BY TextAssumption
<1>2. FixedParameters \cup [keyword : STRING \ {"CR", "LF"}, value : Seq(Characters)] \subseteq Params
  BY DEF Params, Plain, Tokens
<1>3. Seq(FixedParameters \cup [keyword : STRING \ {"CR", "LF"}, value : Seq(Characters)])
        \subseteq Seq(Params)
  BY <1>2, SeqMonotonic
<1>4. PICK v \in BareVerbs \cup TextVerbs \cup {"MAIL", "RCPT"},
           t \in Seq(STRING \ {"CR", "LF"}),
           p \in Seq(FixedParameters \cup [keyword : STRING \ {"CR", "LF"}, value : Seq(Characters)]) :
        c = [verb |-> v, kind |-> "none", text |-> t, params |-> p]
  BY DEF OneLiners
<1>5. v \in Verbs /\ t \in Seq(Plain) /\ p \in Seq(Params)
  BY <1>3, VerbsAre, PlainTexts
<1> QED
  BY <1>4, <1>5 DEF Written

TextInv == Typed /\ Placed

\* At first there is no text.
LEMMA InitText == Init => TextInv
<1> SUFFICES ASSUME Init PROVE Typed /\ Placed
  BY DEF TextInv
<1>1. stream = <<>> /\ todo = <<>> /\ meant = <<>> /\ read = <<>> /\ reply \in EhloReplies /\ server_info = NoInfo
  BY DEF Init
<1>2. Typed
  BY <1>1 DEF Typed
<1>3. PICK cut : cut = [i \in 1 .. 1 |-> 0]
  OBVIOUS
<1>4. cut \in [1 .. 1 -> 0 .. 0] /\ cut[1] = 0
  BY <1>3
<1>5. Laid(<<>>, <<>>, cut)
  <2>1. Len(<<>>) = 0 /\ 0 + 1 = 1 /\ <<>> \in Seq(Tokens)
    OBVIOUS
  <2>2. \A i, j \in 1 .. 1 : ~(i < j)
    OBVIOUS
  <2>3. 1 .. 0 = {}
    OBVIOUS
  <2> QED
    BY <1>4, <2>1, <2>2, <2>3 DEF Laid
<1>6. Sent(<<>>, cut, 0)
  <2>1. Len(<<>>) = 0 /\ 0 + 1 = 1 /\ 1 .. 0 = {} /\ 0 \in 0 .. 0 /\ ~(0 > 0)
    OBVIOUS
  <2> QED
    BY <1>1, <1>4, <1>5, <2>1 DEF Sent
<1>7. Heard(<<>>, cut, 0)
  <2>1. WholeTo(meant, 0) = {}
    BY DEF WholeTo
  <2>2. Rank(meant, 0) = 0
    BY <2>1, FS_EmptySet DEF Rank
  <2>3. Len(<<>>) = 0 /\ 1 .. 0 = {}
    OBVIOUS
  <2> QED
    BY <1>1, <2>2, <2>3 DEF Heard
<1> QED
  BY <1>2, <1>6, <1>7 DEF Placed

\* What does not touch the text leaves everything where it is.
LEMMA SamePlaced ==
    ASSUME Placed, UNCHANGED <<stream, todo, meant, read>>
    PROVE  Placed'
<1>1. PICK all, cut, m : Sent(all, cut, m) /\ Heard(all, cut, m)
  BY DEF Placed
<1>2. Sent(all, cut, m)' /\ Heard(all, cut, m)'
  BY <1>1 DEF Sent, Heard
<1> QED
  BY <1>2 DEF Placed

\* Every step keeps the text laid out.
LEMMA TextKept == TextInv /\ [Next]_vars => TextInv'
<1> SUFFICES ASSUME Typed, Placed, [Next]_vars PROVE Typed' /\ Placed'
  BY DEF TextInv
<1>1. CASE Ehlo
  <2>1. PICK cmd \in EhloCommands : Start(cmd)
    BY <1>1 DEF Ehlo
  <2>2. UNCHANGED <<reply, server_info, stream, read>>
    BY <1>1 DEF Ehlo
  <2>3. cmd \in Written
    BY EhloWritten
  <2>4. todo' \in Seq(Tokens) /\ meant' \in Seq(Commands) /\ Placed'
    BY <2>1, <2>2, <2>3, StartKeeps
  <2> QED
    BY <2>2, <2>4 DEF Typed
<1>2. CASE ReadEhloReply
  <2>1. UNCHANGED <<reply, todo, stream, meant, read>> /\ server_info' = from_response(reply)
    BY <1>2 DEF ReadEhloReply
  <2>2. Placed'
    BY <2>1, SamePlaced
  <2> QED
    BY <2>1, <2>2 DEF Typed
<1>3. CASE Issue
  <2>1. PICK cmd \in SendCommands \cup OtherCommands : Start(cmd)
    BY <1>3 DEF Issue
  <2>2. UNCHANGED <<reply, server_info, stream, read>>
    BY <1>3 DEF Issue
  <2>3. cmd \in Written
    BY <2>1, SendEverSent, SendWritten, OtherWritten
  <2>4. todo' \in Seq(Tokens) /\ meant' \in Seq(Commands) /\ Placed'
    BY <2>1, <2>2, <2>3, StartKeeps
  <2> QED
    BY <2>2, <2>4 DEF Typed
<1>4. CASE Flow
  <2>1. UNCHANGED <<reply, server_info, meant, read>>
    BY <1>4 DEF Flow
  <2>2. stream' \in Seq(Tokens) /\ todo' \in Seq(Tokens) /\ Placed'
    BY <1>4, FlowKeeps
  <2> QED
    BY <2>1, <2>2 DEF Typed
<1>5. CASE Cut
  <2>1. UNCHANGED <<reply, server_info, stream, read>>
    BY <1>5 DEF Cut
  <2>2. todo' \in Seq(Tokens) /\ meant' \in Seq(Commands) /\ Placed'
    BY <1>5, CutKeeps
  <2> QED
    BY <2>1, <2>2 DEF Typed
<1>6. CASE ReadLine
  <2>1. UNCHANGED <<reply, server_info, todo, meant>>
    BY <1>6 DEF ReadLine
  <2>2. stream' \in Seq(Tokens) /\ read' \in Seq(Readable) /\ Placed'
    BY <1>6, ReadLineKeeps
  <2> QED
    BY <2>1, <2>2 DEF Typed
<1>7. CASE Finished \/ UNCHANGED vars
  <2>1. UNCHANGED vars
    BY <1>7 DEF Finished
  <2>2. Placed'
    BY <2>1, SamePlaced DEF vars
  <2> QED
    BY <2>1, <2>2 DEF Typed, vars
<1> QED
  BY <1>1, <1>2, <1>3, <1>4, <1>5, <1>6, <1>7 DEF Next

\* Whatever the pieces in which text is handed over, and wherever writes are abandoned,
\* the lines the server reads are those of the commands up to each whole one, in the
\* order in which they were written, and the rest is on its way or still to be written.
THEOREM TextInvariant == Spec => []TextInv
BY InitText, TextKept, PTL DEF Spec

\* OneLineEach: when all that was handed over is read, the server has read one line for
\* each command written to its end, whatever was abandoned in between: no command
\* leaves it waiting for the end of a line, and none is two (Display of commands.rs).
THEOREM NoLineIsLost == Spec => []OneLineEach
<1>1. TextInv => OneLineEach
  <2> SUFFICES ASSUME Typed, Placed, todo = <<>>, LineEnds = {}
               PROVE  Len(read) = Cardinality(Whole)
    BY DEF TextInv, OneLineEach
  <2>1. PICK all, cut, m : Sent(all, cut, m) /\ Heard(all, cut, m)
    BY DEF Placed
  <2>2. /\ Laid(meant, all, cut) /\ meant \in Seq(Commands) /\ m \in 0 .. Len(meant)
        /\ stream \in Seq(Tokens)
    BY <2>1 DEF Sent, Typed
  <2>3. PICK M \in Seq(Commands) : M = meant
    BY <2>2
  <2>4. PICK L \in Nat, l \in Nat, s \in Nat : L = Len(M) /\ l = Len(all) /\ s = Len(stream)
    BY <2>2, <2>3, CutType, LenProperties
  <2>5. m \in 0 .. L /\ m + 1 \in 1 .. L + 1 /\ m \in Nat
    BY <2>2, <2>3, <2>4
  <2>6. PICK p \in Nat : p = cut[m + 1]
    BY <2>2, <2>3, <2>4, <2>5, CutType
  <2>7. p + s = l /\ \A j \in 1 .. s : stream[j] = all[p + j]
    <3>1. cut[m + 1] + Len(stream) + Len(todo) = Len(all) /\ Len(todo) = 0
      BY <2>1 DEF Sent
    <3>2. p + s + 0 = l
      BY <2>3, <2>4, <2>6, <3>1
    <3>3. \A j \in 1 .. s : stream[j] = all[p + j]
      BY <2>1, <2>4, <2>6 DEF Sent
    <3> QED
      BY <3>2, <3>3
  <2>8. ASSUME NEW k \in m + 1 .. L, ~M[k].cut PROVE FALSE
    <3>1. k \in 1 .. L /\ k \in 1 .. L + 1 /\ k + 1 \in 1 .. L + 1 /\ m + 1 <= k
      BY <2>5
    <3>2. PICK x \in Nat, y \in Nat : x = cut[k] /\ y = cut[k + 1] /\ y <= l
      BY <2>2, <2>3, <2>4, <3>1, CutType
    <3>3. x + 3 <= y /\ all[y - 1] = "CR" /\ all[y] = "LF"
      BY <2>2, <2>3, <2>4, <2>8, <3>1, <3>2, WholeEnds
    <3>4. p <= x
      BY <2>2, <2>3, <2>4, <2>5, <2>6, <3>1, <3>2, CutOrder
    <3>5. PICK j \in Int : j = y - 1 - p
      OBVIOUS
    <3>6. x + 3 <= y /\ y <= l /\ p + s = l
      BY <2>7, <3>2, <3>3
    <3>7. j \in 1 .. s - 1 /\ j \in 1 .. s /\ j + 1 \in 1 .. s /\ p + j = y - 1 /\ p + (j + 1) = y
      BY <3>4, <3>5, <3>6
    <3>8. stream[j] = all[p + j] /\ stream[j + 1] = all[p + (j + 1)]
      BY <2>7, <3>7
    <3>9. j \in LineEnds
      BY <2>4, <3>3, <3>7, <3>8 DEF LineEnds
    <3> QED
      BY <3>9
  <2>9. Whole = WholeTo(meant, m)
    <3>1. DOMAIN meant = 1 .. L
      BY <2>2, <2>3, <2>4
    <3>2. \A k \in 1 .. L : k \in 1 .. m \/ k \in m + 1 .. L
      BY <2>5
    <3>3. \A k \in 1 .. m : k \in 1 .. L
      BY <2>5
    <3> QED
      BY <2>3, <2>8, <3>1, <3>2, <3>3 DEF Whole, WholeTo
  <2> QED
    BY <2>1, <2>9 DEF Heard, Rank
<1> QED
  BY <1>1, TextInvariant, PTL

\* A word in the spelling the code compares with.
Shouted(lines) == \A line \in ToSet(lines) : ToSet(line) \cap DOMAIN Upper = {}

\* What one line of a reply declares.
Declares(line, f) ==
    \/ line[1] = "AUTH" /\ \E i \in 2 .. Len(line) : line[i] \in Mechanisms /\ f = <<"AUTH", line[i]>>
    \/ line[1] # "AUTH" /\ line[1] \in Keywords /\ f = <<line[1]>>

\* A feature ServerInfo::from_response finds is declared by one of the lines.
LEMMA FeatureDeclared ==
    ASSUME NEW lines, NEW f
    PROVE  f \in FeaturesOf(lines) <=> \E i \in DOMAIN lines : lines[i] # <<>> /\ Declares(lines[i], f)
<1>1. ASSUME NEW k, NEW w, <<w>> = <<k>> PROVE w = k
  BY <1>1
<1>2. ASSUME NEW line
      PROVE  f \in (IF line[1] = "AUTH"
                      THEN {<<"AUTH", line[i]>> : i \in {k \in 2 .. Len(line) : line[k] \in Mechanisms}}
                      ELSE {<<line[1]>>} \cap {<<k>> : k \in Keywords})
             <=> Declares(line, f)
  <2>1. CASE line[1] = "AUTH"
    BY <2>1 DEF Declares
  <2>2. CASE line[1] # "AUTH"
    <3>1. f \in {<<line[1]>>} \cap {<<k>> : k \in Keywords} => Declares(line, f)
      BY <1>1, <2>2 DEF Declares
    <3>2. Declares(line, f) => f \in {<<line[1]>>} \cap {<<k>> : k \in Keywords}
      BY <2>2 DEF Declares
    <3> QED
      BY <2>2, <3>1, <3>2
  <2> QED
    BY <2>1, <2>2
<1> QED
  BY <1>2 DEF FeaturesOf, ToSet

\* What a line of an offer in capitals says.
LEMMA OfferedIs ==
    ASSUME NEW lines \in Seq(Seq(STRING)), Shouted(lines), NEW f
    PROVE  f \in Offered(lines) <=> \E i \in 2 .. Len(lines) : lines[i] # <<>> /\ Declares(lines[i], f)
<1>1. ASSUME NEW i \in 2 .. Len(lines), lines[i] # <<>>
      PROVE  /\ Spelled(lines[i][1]) = lines[i][1]
             /\ ToSet(lines[i]) = {lines[i][j] : j \in 1 .. Len(lines[i])}
             /\ 1 \in 1 .. Len(lines[i])
  <2>1. PICK line \in Seq(STRING) : line = lines[i] /\ line # <<>>
    BY <1>1
  <2>2. Len(line) \in Nat /\ DOMAIN line = 1 .. Len(line) /\ Len(line) # 0
    BY <2>1, EmptySeq, LenProperties
  <2>3. 1 \in 1 .. Len(line)
    BY <2>2
  <2>4. ToSet(line) = {line[j] : j \in 1 .. Len(line)}
    BY <2>2 DEF ToSet
  <2>5. i \in DOMAIN lines
    BY LenProperties
  <2>6. ToSet(line) \cap DOMAIN Upper = {}
    BY <2>1, <2>5 DEF Shouted, ToSet
  <2>7. line[1] \notin DOMAIN Upper
    BY <2>3, <2>4, <2>6
  <2> QED
    BY <2>1, <2>3, <2>4, <2>7 DEF Spelled
<1> DEFINE says(k) == {i \in 2 .. Len(lines) : lines[i] # <<>> /\ lines[i][1] = k}
<1>2. \A k : {i \in 2 .. Len(lines) : lines[i] # <<>> /\ Spelled(lines[i][1]) = k} = says(k)
  BY <1>1
<1>3. Offered(lines) = {<<k>> : k \in {w \in Keywords : says(w) # {}}} \cup
        {<<"AUTH", m>> : m \in {n \in Mechanisms : \E i \in says("AUTH") : n \in ToSet(lines[i])}}
  BY <1>2 DEF Offered
<1>4. "AUTH" \notin Mechanisms /\ "AUTH" \notin Keywords
  BY DEF Mechanisms, Keywords
<1>5. ASSUME NEW i \in 2 .. Len(lines), lines[i] # <<>>, Declares(lines[i], f) PROVE f \in Offered(lines)
  <2>1. CASE lines[i][1] = "AUTH"
    <3>1. PICK j \in 2 .. Len(lines[i]) : lines[i][j] \in Mechanisms /\ f = <<"AUTH", lines[i][j]>>
      BY <1>5, <2>1 DEF Declares
    <3>2. j \in 1 .. Len(lines[i])
      BY <3>1
    <3>3. lines[i][j] \in ToSet(lines[i]) /\ i \in says("AUTH")
      BY <1>1, <1>5, <2>1, <3>2
    <3> QED
      BY <1>3, <3>1, <3>3
  <2>2. CASE lines[i][1] # "AUTH"
    <3>1. lines[i][1] \in Keywords /\ f = <<lines[i][1]>> /\ i \in says(lines[i][1])
      BY <1>5, <2>2 DEF Declares
    <3> QED
      BY <1>3, <3>1
  <2> QED
    BY <2>1, <2>2
<1>6. ASSUME NEW w \in Keywords, says(w) # {}, f = <<w>>
      PROVE  \E i \in 2 .. Len(lines) : lines[i] # <<>> /\ Declares(lines[i], f)
  <2>1. PICK i \in 2 .. Len(lines) : lines[i] # <<>> /\ lines[i][1] = w
    BY <1>6
  <2> QED
    BY <1>4, <1>6, <2>1 DEF Declares
<1>7. ASSUME NEW m \in Mechanisms, NEW i \in says("AUTH"), m \in ToSet(lines[i]), f = <<"AUTH", m>>
      PROVE  \E k \in 2 .. Len(lines) : lines[k] # <<>> /\ Declares(lines[k], f)
  <2>1. i \in 2 .. Len(lines) /\ lines[i] # <<>> /\ lines[i][1] = "AUTH"
    OBVIOUS
  <2>2. PICK j \in 1 .. Len(lines[i]) : m = lines[i][j]
    BY <1>1, <1>7, <2>1
  <2>3. j # 1
    BY <1>4, <2>1, <2>2
  <2>4. j \in 2 .. Len(lines[i])
    BY <2>2, <2>3
  <2> QED
    BY <1>7, <2>1, <2>2, <2>4 DEF Declares
<1>8. f \in Offered(lines) => \E k \in 2 .. Len(lines) : lines[k] # <<>> /\ Declares(lines[k], f)
  BY <1>3, <1>6, <1>7
<1> QED
  BY <1>5, <1>8

\* FeaturesRead: ServerInfo::from_response finds all the features that a server offers
\* in capitals, and no other, if the server's name is no keyword.
THEOREM OffersAreUsed == Spec => []FeaturesRead
<1>1. TextInv => FeaturesRead
  <2> SUFFICES
        ASSUME Typed, server_info # NoInfo, server_info.name \notin Keywords \cup {"AUTH"}, Shouted(reply)
        PROVE  server_info.features = Offered(reply)
    BY DEF TextInv, FeaturesRead, Shouted
  <2>1. server_info = from_response(reply) /\ reply \in EhloReplies
    BY DEF Typed
  <2>2. reply \in Seq(Seq(STRING)) /\ reply # <<>>
    BY <2>1, TextAssumption DEF TextAssumption
  <2>3. server_info = [name |-> reply[1][1], features |-> FeaturesOf(reply)] /\ reply[1] # <<>>
    BY <2>1 DEF from_response
  <2>4. server_info.name = reply[1][1] /\ server_info.features = FeaturesOf(reply)
    BY <2>3
  <2>5. DOMAIN reply = 1 .. Len(reply) /\ Len(reply) \in Nat
    BY <2>2, LenProperties
  <2>6. \A f : ~Declares(reply[1], f)
    BY <2>4 DEF Declares
  <2>7. 1 .. Len(reply) \subseteq {1} \cup 2 .. Len(reply) /\ 2 .. Len(reply) \subseteq 1 .. Len(reply)
    BY <2>5
  <2>8. ASSUME NEW f PROVE f \in FeaturesOf(reply) <=> f \in Offered(reply)
    <3>1. f \in FeaturesOf(reply) <=> \E i \in 1 .. Len(reply) : reply[i] # <<>> /\ Declares(reply[i], f)
      BY <2>5, FeatureDeclared
    <3>2. f \in Offered(reply) <=> \E i \in 2 .. Len(reply) : reply[i] # <<>> /\ Declares(reply[i], f)
      BY <2>2, OfferedIs
    <3> QED
      BY <2>6, <2>7, <3>1, <3>2
  <2>9. FeaturesOf(reply) = Offered(reply)
    BY <2>8
  <2> QED
    BY <2>4, <2>9
<1> QED
  BY <1>1, TextInvariant, PTL

\* No address EmailAddress::new takes can end its path.
LEMMA AddressPath ==
    ASSUME NEW a \in Seq(Characters), EmailAddress_new(a)
    PROVE  a \in Seq(Plain \ {">"})
<1>1. a \in Seq(Plain)
  BY AddressPlain
<1>2. \A i \in 1 .. Len(a) : a[i] # ">"
  BY DEF EmailAddress_new
<1>3. \A i \in 1 .. Len(a) : a[i] \in Plain \ {">"}
  BY <1>1, <1>2, ElementOfSeq
<1> QED
  BY <1>1, <1>3

\* The commands `send` writes: no address EmailAddress::new takes ends its path.
LEMMA SendSendable == EverSent \subseteq Sendable
<1> SUFFICES ASSUME NEW options \in MailOptions PROVE Sending(options) \subseteq Sendable
  BY DEF EverSent
<1>1. <<>> \in Seq(Plain \ {">"}) /\ <<>> \in MailOptions
  BY DEF MailOptions
<1>2. \A a \in {b \in Addresses : EmailAddress_new(b)} : a \in Seq(Plain \ {">"})
  BY AddressPath, TextAssumption
<1>3. \A v \in {"MAIL", "RCPT"}, t \in Seq(Plain \ {">"}), p \in MailOptions :
        Command(v, "none", t, p) \in Sendable
  BY DEF Command, Sendable
<1>4. \A a \in {b \in Addresses : EmailAddress_new(b)} \cup {<<>>} :
        Command("MAIL", "none", a, options) \in Sendable
  BY <1>1, <1>2, <1>3
<1>5. \A a \in {b \in Addresses : EmailAddress_new(b)} : Command("RCPT", "none", a, <<>>) \in Sendable
  BY <1>1, <1>2, <1>3
<1>6. Bare("DATA") \in Sendable
  BY DEF Sendable
<1> QED
  BY <1>4, <1>5, <1>6 DEF Sending

-----------------------------------------------------------------------------
(* What went into a line *)

\* The n-th line read is that of the commands b to e.
LineOf(all, cut, n, b, e) ==
    /\ meant \in Seq(Commands) /\ Laid(meant, all, cut)
    /\ b \in 1 .. Len(meant) /\ e \in 1 .. Len(meant) /\ b <= e
    /\ ~meant[e].cut /\ \A k \in b .. e - 1 : meant[k].cut
    /\ b = 1 \/ ~meant[b - 1].cut
    /\ Rank(meant, e) = n
    /\ read[n] = ReadCommand(SubSeq(all, cut[b] + 1, cut[e + 1] - 2))

\* Every line read is that of the commands b to e.
LEMMA LineFound ==
    ASSUME Typed, Placed, NEW n \in DOMAIN read
    PROVE  \E all, cut, b, e : LineOf(all, cut, n, b, e)
<1>1. PICK all, cut, m : Sent(all, cut, m) /\ Heard(all, cut, m)
  BY DEF Placed
<1>2. Laid(meant, all, cut) /\ meant \in Seq(Commands) /\ m \in 0 .. Len(meant) /\ read \in Seq(Readable)
  BY <1>1 DEF Sent, Typed
<1>3. n \in 1 .. Len(read)
  BY <1>2, LenProperties
<1>4. Line(meant, all, cut, m, n, read[n])
  BY <1>1, <1>3 DEF Heard
<1>5. PICK b, e \in 1 .. m :
        /\ b <= e /\ ~meant[e].cut /\ \A k \in b .. e - 1 : meant[k].cut
        /\ b = 1 \/ ~meant[b - 1].cut
        /\ Rank(meant, e) = n
        /\ read[n] = ReadCommand(SubSeq(all, cut[b] + 1, cut[e + 1] - 2))
  BY <1>4 DEF Line
<1>6. b \in 1 .. Len(meant) /\ e \in 1 .. Len(meant)
  <2>1. PICK L \in Nat : L = Len(meant)
    BY <1>2, LenProperties
  <2> QED
    BY <1>2, <2>1
<1>7. LineOf(all, cut, n, b, e)
  BY <1>2, <1>5, <1>6 DEF LineOf
<1> QED
  BY <1>7

\* Ender and Parts find them.
LEMMA LineParts ==
    ASSUME NEW all, NEW cut, NEW n, NEW b, NEW e, LineOf(all, cut, n, b, e)
    PROVE  Ender(n) = e /\ Parts(n) = b .. e
<1>1. PICK L \in Nat : L = Len(meant) /\ DOMAIN meant = 1 .. L
  BY LenProperties DEF LineOf
<1>2. /\ b \in 1 .. L /\ e \in 1 .. L /\ b <= e
      /\ ~meant[e].cut /\ (\A k \in b .. e - 1 : meant[k].cut)
      /\ b = 1 \/ ~meant[b - 1].cut
      /\ Rank(meant, e) = n
  BY <1>1 DEF LineOf
<1>3. Whole = {i \in 1 .. L : ~meant[i].cut}
  BY <1>1 DEF Whole
<1>4. ASSUME NEW i \in Whole PROVE Cardinality({k \in Whole : k <= i}) = Rank(meant, i)
  <2>1. i \in 1 .. L
    BY <1>3
  <2>2. {k \in Whole : k <= i} = WholeTo(meant, i)
    <3>1. \A k \in 1 .. i : k \in 1 .. L /\ k <= i
      BY <2>1
    <3>2. \A k \in 1 .. L : k <= i => k \in 1 .. i
      BY <2>1
    <3> QED
      BY <1>3, <3>1, <3>2 DEF WholeTo
  <2> QED
    BY <2>2 DEF Rank
<1>5. e \in Whole
  BY <1>2, <1>3
<1>6. ASSUME NEW i \in Whole, Rank(meant, i) = n PROVE i = e
  <2>1. i \in Nat /\ e \in Nat /\ ~meant[i].cut /\ ~meant[e].cut
    BY <1>2, <1>3
  <2>2. i < e => Rank(meant, i) < Rank(meant, e)
    BY <2>1, RankMonotone
  <2>3. e < i => Rank(meant, e) < Rank(meant, i)
    BY <2>1, RankMonotone
  <2>4. Rank(meant, i) \in Nat /\ Rank(meant, e) = Rank(meant, i)
    BY <1>2, <1>6, <2>1, RankType
  <2> QED
    BY <2>1, <2>2, <2>3, <2>4
<1>7. Ender(n) = e
  BY <1>2, <1>4, <1>5, <1>6 DEF Ender
<1>8. \A i \in b .. e : i \in 1 .. e /\ \A k \in i .. e - 1 : k \in b .. e - 1
  BY <1>2
<1>9. ASSUME NEW i \in 1 .. e, \A k \in i .. e - 1 : meant[k].cut PROVE i \in b .. e
  <2>1. SUFFICES ASSUME i < b PROVE FALSE
    BY <1>2
  <2>2. b # 1 /\ b - 1 \in i .. e - 1
    BY <1>2, <2>1
  <2> QED
    BY <1>2, <1>9, <2>2
<1>10. Parts(n) = b .. e
  <2>1. Parts(n) = {i \in 1 .. e : \A k \in i .. e - 1 : meant[k].cut}
    BY <1>7 DEF Parts
  <2>2. \A i \in b .. e : i \in 1 .. e /\ \A k \in i .. e - 1 : meant[k].cut
    BY <1>2, <1>8
  <2> QED
    BY <1>9, <2>1, <2>2
<1> QED
  BY <1>7, <1>10

\* In every state: what is read of a command cut short is no command.
LEMMA RefusedCut == TextInv => CutIsRefused
<1> SUFFICES ASSUME Typed, Placed, NEW n \in LinesRead, Cardinality(Parts(n)) > 1,
                    \A i \in Parts(n) \ {Ender(n)} : meant[i].cmd \in SendCommands
             PROVE  read[n] = Unknown
  BY DEF TextInv, CutIsRefused
<1>1. n \in DOMAIN read
  BY DEF LinesRead
<1>2. PICK all, cut, b, e : LineOf(all, cut, n, b, e)
  BY <1>1, LineFound
<1>3. Ender(n) = e /\ Parts(n) = b .. e
  BY <1>2, LineParts
<1>4. b \in Nat /\ e \in Nat /\ b <= e
  <2>1. PICK L \in Nat : L = Len(meant)
    BY <1>2, LenProperties DEF LineOf
  <2> QED
    BY <1>2, <2>1 DEF LineOf
<1>5. b < e
  <2>1. SUFFICES ASSUME b = e PROVE FALSE
    BY <1>4
  <2>2. Parts(n) = {e}
    BY <1>3, <1>4, <2>1
  <2>3. Cardinality(Parts(n)) = 1
    BY <2>2, FS_Singleton
  <2> QED
    BY <2>3
<1>6. b \in Parts(n) \ {Ender(n)}
  BY <1>3, <1>4, <1>5
<1>7. meant[b].cmd \in Sendable
  BY <1>6, SendEverSent, SendSendable
<1>8. Joint(meant, all, cut, b, e)
  BY <1>2, <1>5, <1>7 DEF Joint, LineOf
<1>9. Glued(meant[b].cmd, cut[b + 1] - cut[b], SubSeq(all, cut[b] + 1, cut[e + 1] - 2))
  BY <1>8, JointGlued
<1>10. ReadCommand(SubSeq(all, cut[b] + 1, cut[e + 1] - 2)) = Unknown
  BY <1>9, CutUnknown
<1> QED
  BY <1>2, <1>10 DEF LineOf

\* CutIsRefused: a command of `send` whose write is abandoned in the middle, and
\* whatever the caller writes after it, are one line, and no command to the server.
THEOREM CutNeverObeyed == Spec => []CutIsRefused
BY TextInvariant, RefusedCut, PTL

\* A line of one command is its words.
LEMMA LineOfOne ==
    ASSUME NEW all, NEW cut, NEW n, NEW e, LineOf(all, cut, n, e, e)
    PROVE  meant[e].cmd \in Written /\ read[n] = ReadCommand(Words(meant[e].cmd))
<1>1. /\ meant \in Seq(Commands) /\ Laid(meant, all, cut) /\ e \in 1 .. Len(meant) /\ ~meant[e].cut
      /\ read[n] = ReadCommand(SubSeq(all, cut[e] + 1, cut[e + 1] - 2)) /\ all \in Seq(Tokens)
  BY DEF LineOf, Laid
<1> PICK c : c = meant[e].cmd
  OBVIOUS
<1>2. c \in Written
  BY <1>1, CommandType
<1>3. PICK W \in Nat \ {0} : W = Len(Words(c))
  BY <1>2, DisplayEnds
<1>4. Len(Display(c)) = W + 2 /\ \A i \in 1 .. W : Display(c)[i] = Words(c)[i] /\ Words(c)[i] \in Plain
  BY <1>2, <1>3, DisplayEnds
<1>5. PICK x \in Nat, y \in Nat, l \in Nat : x = cut[e] /\ y = cut[e + 1] /\ l = Len(all) /\ y <= l
  <2>1. PICK L \in Nat : L = Len(meant)
    BY <1>1, CutType
  <2>2. e \in 1 .. Len(meant) + 1 /\ e + 1 \in 1 .. Len(meant) + 1
    BY <1>1, <2>1
  <2> QED
    BY <1>1, <2>2, CutType
<1>6. y - x = W + 2 /\ y = x + W + 2 /\ \A j \in 1 .. W + 2 : all[x + j] = Display(c)[j]
  <2>1. /\ ~meant[e].cut => cut[e + 1] - cut[e] = Len(Display(meant[e].cmd))
        /\ \A j \in 1 .. cut[e + 1] - cut[e] : all[cut[e] + j] = Display(meant[e].cmd)[j]
    BY <1>1 DEF Laid
  <2>2. y - x = W + 2 /\ \A j \in 1 .. W + 2 : all[x + j] = Display(c)[j]
    BY <1>1, <1>4, <1>5, <2>1
  <2>3. y = x + W + 2
    <3>1. y - x = W + 2
      BY <2>2
    <3> QED
      BY <1>5, <3>1
  <2> QED
    BY <2>2, <2>3
<1> PICK T : T = SubSeq(all, x + 1, y - 2)
  OBVIOUS
<1>7. T \in Seq(Tokens) /\ Len(T) = W /\ \A j \in 1 .. W : T[j] = all[x + j]
  <2>1. PICK h \in Nat : h = y - 1 /\ x < h /\ h <= l + 1 /\ h - 1 = y - 2 /\ h - 1 - x = W
    <3>1. y = x + W + 2 /\ y <= l
      BY <1>5, <1>6
    <3>2. x + W + 1 \in Nat /\ x + W + 1 = y - 1
      BY <3>1
    <3> QED
      BY <3>1, <3>2
  <2>2. h <= Len(all) + 1 /\ T = SubSeq(all, x + 1, h - 1)
    BY <1>5, <2>1
  <2>3. /\ T \in Seq(Tokens) /\ Len(T) = h - 1 - x
        /\ \A j \in 1 .. h - 1 - x : T[j] = all[x + j]
    BY <1>1, <2>1, <2>2, Between
  <2> QED
    BY <2>1, <2>3
<1>8. \A j \in 1 .. W : T[j] = Words(c)[j]
  <2>1. \A j \in 1 .. W : j \in 1 .. W + 2
    OBVIOUS
  <2> QED
    BY <1>4, <1>6, <1>7, <2>1
<1>9. T = Words(c)
  <2>1. Words(c) \in Seq(Tokens)
    <3>1. Plain \subseteq Tokens /\ Words(c) \in Seq(Plain)
      BY <1>2, WordsPlain DEF Plain
    <3> QED
      BY <3>1, SeqMonotonic
  <2> QED
    BY <1>3, <1>7, <1>8, <2>1, SeqEqual
<1> QED
  BY <1>1, <1>2, <1>5, <1>9

\* An option of `send` is of a feature the transport has.
LEMMA OptionSupported ==
    ASSUME NEW c \in SendCommands
    PROVE  /\ BodyOption \in ToSet(c.params) => <<"8BITMIME">> \in server_info.features
           /\ Utf8Option \in ToSet(c.params) => <<"SMTPUTF8">> \in server_info.features
<1>1. c.params = mail_options \/ c.params = <<>>
  <2>1. \A v, a, p : Command(v, "none", a, p).params = p /\ Bare(v).params = <<>>
    BY DEF Command, Bare
  <2> QED
    BY <2>1 DEF SendCommands, Sending
<1>2. \A x : x \notin ToSet(<<>>)
  BY DEF ToSet
<1>3. PICK a \in {<<>>, <<BodyOption>>} :
        a = IF supports_feature(<<"8BITMIME">>) THEN <<BodyOption>> ELSE <<>>
  OBVIOUS
<1>4. PICK b \in {<<>>, <<Utf8Option>>} :
        b = IF supports_feature(<<"SMTPUTF8">>) /\ SmtpUtf8 THEN <<Utf8Option>> ELSE <<>>
  OBVIOUS
<1>5. mail_options = a \o b
  BY <1>3, <1>4 DEF mail_options
<1>6. BodyOption # Utf8Option
  <2>1. BodyOption.keyword = "BODY" /\ Utf8Option.keyword = "SMTPUTF8"
    BY DEF BodyOption, Utf8Option
  <2> QED
    BY <2>1
<1>7. <<>> \o <<>> = <<>> /\ <<BodyOption>> \o <<>> = <<BodyOption>> /\ <<>> \o <<Utf8Option>> = <<Utf8Option>>
  OBVIOUS
<1>8. <<BodyOption>> \o <<Utf8Option>> = <<BodyOption, Utf8Option>>
  BY TwoSingles
<1>9. \A x : ToSet(<<x>>) = {x}
  BY DEF ToSet
<1>10. ASSUME NEW x, x \in ToSet(mail_options)
       PROVE  \/ x = BodyOption /\ supports_feature(<<"8BITMIME">>)
              \/ x = Utf8Option /\ supports_feature(<<"SMTPUTF8">>)
  <2>1. CASE a = <<>> /\ b = <<>>
    BY <1>2, <1>5, <1>7, <1>10, <2>1
  <2>2. CASE a = <<BodyOption>> /\ b = <<>>
    <3>1. x = BodyOption
      BY <1>5, <1>7, <1>9, <1>10, <2>2
    <3>2. supports_feature(<<"8BITMIME">>)
      BY <1>3, <2>2
    <3> QED
      BY <3>1, <3>2
  <2>3. CASE a = <<>> /\ b = <<Utf8Option>>
    <3>1. x = Utf8Option
      BY <1>5, <1>7, <1>9, <1>10, <2>3
    <3>2. supports_feature(<<"SMTPUTF8">>)
      BY <1>4, <2>3
    <3> QED
      BY <3>1, <3>2
  <2>4. CASE a = <<BodyOption>> /\ b = <<Utf8Option>>
    <3>1. ToSet(<<BodyOption, Utf8Option>>) \subseteq {BodyOption, Utf8Option}
      BY DEF ToSet
    <3>2. x = BodyOption \/ x = Utf8Option
      BY <1>5, <1>8, <1>10, <2>4, <3>1
    <3>3. supports_feature(<<"8BITMIME">>)
      BY <1>3, <2>4
    <3>4. supports_feature(<<"SMTPUTF8">>)
      BY <1>4, <2>4
    <3> QED
      BY <3>2, <3>3, <3>4
  <2> QED
    BY <1>3, <1>4, <2>1, <2>2, <2>3, <2>4
<1> QED
  BY <1>1, <1>2, <1>6, <1>10 DEF supports_feature

\* A keyword the code found in a line after the first is offered.
LEMMA FoundOffered ==
    ASSUME Typed, server_info # NoInfo, server_info.name \notin Keywords,
           NEW k \in {"8BITMIME", "SMTPUTF8"}, <<k>> \in server_info.features
    PROVE  <<k>> \in Offered(reply)
<1>1. server_info = from_response(reply) /\ reply \in EhloReplies
  BY DEF Typed
<1>2. reply \in Seq(Seq(STRING)) /\ reply # <<>>
  BY <1>1, TextAssumption DEF TextAssumption
<1>3. server_info.name = reply[1][1] /\ server_info.features = FeaturesOf(reply)
  BY <1>1 DEF from_response
<1>4. DOMAIN reply = 1 .. Len(reply) /\ Len(reply) \in Nat
  BY <1>2, LenProperties
<1>5. PICK i \in 1 .. Len(reply) : reply[i] # <<>> /\ Declares(reply[i], <<k>>)
  BY <1>3, <1>4, FeatureDeclared
<1>6. reply[i][1] = k
  <2>1. \A m : <<"AUTH", m>> # <<k>>
    <3> TAKE m
    <3>1. Len(<<"AUTH", m>>) = 2 /\ Len(<<k>>) = 1
      OBVIOUS
    <3> QED
      BY <3>1
  <2>2. \A w : <<w>> = <<k>> => w = k
    OBVIOUS
  <2> QED
    BY <1>5, <2>1, <2>2 DEF Declares
<1>7. i \in 2 .. Len(reply)
  <2>1. k \in Keywords
    BY DEF Keywords
  <2>2. i # 1
    BY <1>3, <1>6, <2>1
  <2> QED
    BY <1>4, <2>2
<1>8. Spelled(k) = k
  <2>1. DOMAIN Upper = {"pipelining", "smtputf8"}
    BY DEF Upper
  <2> QED
    BY <2>1 DEF Spelled
<1>9. {<<w>> : w \in {v \in Keywords : {j \in 2 .. Len(reply) : reply[j] # <<>> /\ Spelled(reply[j][1]) = v} # {}}}
        \subseteq Offered(reply)
  BY DEF Offered
<1>10. k \in {v \in Keywords : {j \in 2 .. Len(reply) : reply[j] # <<>> /\ Spelled(reply[j][1]) = v} # {}}
  BY <1>5, <1>6, <1>7, <1>8 DEF Keywords
<1> QED
  BY <1>9, <1>10

\* ParametersOffered: `send` adds BODY=8BITMIME and SMTPUTF8 only for what the reply
\* to EHLO offered, and neither a command cut short nor its text makes the server
\* read a parameter that was not offered.
THEOREM OptionsOffered == Spec => []ParametersOffered
<1>1. TextInv => ParametersOffered
  <2> SUFFICES ASSUME TextInv, server_info # NoInfo, server_info.name \notin Keywords,
                      NEW n \in LinesRead, read[n].verb = "MAIL",
                      \A i \in Parts(n) : meant[i].cmd \in SendCommands,
                      NEW p \in ToSet(read[n].params)
               PROVE  <<IF p.keyword = "BODY" THEN "8BITMIME" ELSE p.keyword>> \in Offered(reply)
    BY DEF ParametersOffered
  <2>1. Typed /\ Placed /\ CutIsRefused
    BY RefusedCut DEF TextInv
  <2>2. n \in DOMAIN read
    BY DEF LinesRead
  <2>3. PICK all, cut, b, e : LineOf(all, cut, n, b, e)
    BY <2>1, <2>2, LineFound
  <2>4. Ender(n) = e /\ Parts(n) = b .. e
    BY <2>3, LineParts
  <2>5. b \in Nat /\ e \in Nat /\ b <= e
    <3>1. PICK L \in Nat : L = Len(meant)
      BY <2>3, LenProperties DEF LineOf
    <3> QED
      BY <2>3, <3>1 DEF LineOf
  <2>6. b = e
    <3>1. SUFFICES ASSUME b # e PROVE FALSE
      OBVIOUS
    <3>2. Cardinality(Parts(n)) > 1
      <4>1. b < e
        BY <2>5, <3>1
      <4> QED
        BY <2>4, <2>5, <4>1, FS_Interval
    <3>3. read[n] = Unknown
      BY <2>1, <3>2 DEF CutIsRefused
    <3>4. Unknown.verb = "unknown"
      BY DEF Unknown, Command
    <3> QED
      BY <3>3, <3>4
  <2> PICK c : c = meant[e].cmd
    OBVIOUS
  <2>7. c \in Written /\ read[n] = ReadCommand(Words(c))
    BY <2>3, <2>6, LineOfOne
  <2>8. c \in SendCommands
    <3>1. e \in Parts(n)
      BY <2>4, <2>5
    <3> QED
      BY <3>1
  <2>9. PICK i \in DOMAIN ReadCommand(Words(c)).params : p = ReadCommand(Words(c)).params[i]
    BY <2>7 DEF ToSet
  <2>10. \/ p.keyword = "BODY" /\ BodyOption \in ToSet(c.params)
         \/ p.keyword = "SMTPUTF8" /\ Utf8Option \in ToSet(c.params)
    BY <2>7, <2>8, <2>9, OptionsRead, SendEverSent, SendSendable
  <2>11. CASE p.keyword = "BODY" /\ BodyOption \in ToSet(c.params)
    <3>1. <<"8BITMIME">> \in server_info.features
      BY <2>8, <2>11, OptionSupported
    <3>2. <<"8BITMIME">> \in Offered(reply)
      BY <2>1, <3>1, FoundOffered
    <3> QED
      BY <2>11, <3>2
  <2>12. CASE p.keyword = "SMTPUTF8" /\ Utf8Option \in ToSet(c.params)
    <3>1. <<"SMTPUTF8">> \in server_info.features
      BY <2>8, <2>12, OptionSupported
    <3>2. <<"SMTPUTF8">> \in Offered(reply)
      BY <2>1, <3>1, FoundOffered
    <3> QED
      BY <2>12, <3>2
  <2> QED
    BY <2>10, <2>11, <2>12
<1> QED
  BY <1>1, TextInvariant, PTL

\* No character EmailAddress::new takes may not stand in a path.
LEMMA AddressInPath ==
    ASSUME NEW a \in Seq(Characters), EmailAddress_new(a)
    PROVE  \A i \in 1 .. Len(a) : a[i] \notin NotInPath
<1> TAKE i \in 1 .. Len(a)
<1>1. a[i] \in Characters /\ i \in DOMAIN a
  OBVIOUS
<1>2. Printable(a[i]) /\ a[i] # "<"
  BY <1>1 DEF EmailAddress_new
<1>3. PICK c \in Characters : c = a[i]
  BY <1>1
<1>4. PICK n \in 33 .. 126 : n = CodePoint[c]
  BY <1>2, <1>3 DEF Printable
<1>5. ~(n < 33) /\ ~(126 < n)
  OBVIOUS
<1>6. ~(CodePoint[c] < 33) /\ ~(126 < CodePoint[c])
  BY <1>4, <1>5, Zenon
<1>7. CodePoint["SP"] = 32 /\ CodePoint["DEL"] = 127 /\ CodePoint["oslash"] = 248
      /\ CodePoint["TAB"] = 9 /\ CodePoint["LF"] = 10 /\ CodePoint["CR"] = 13
  BY DEF CodePoint, Characters
<1>8. c \notin {"SP", "TAB", "CR", "LF", "DEL", "oslash"}
  BY <1>6, <1>7
<1> QED
  BY <1>2, <1>3, <1>8 DEF NotInPath

\* A character below 16 in a value, in the terms of CommandTextProofs.
LEMMA OneDigitIs ==
    ASSUME NEW c, NEW n \in Nat, DOMAIN c.params = 1 .. n
    PROVE  OneDigit(c) <=> \E k \in 1 .. n : HasShort(c.params[k])
<1>1. \A x : (x \in Characters /\ CodePoint[x] < 16) <=> x \in Short
  <2>1. Short \subseteq Characters
    BY DEF Short, Characters
  <2> QED
    BY <2>1, CodePointOne
<1>2. \A p : (\E x \in ToSet(p.value) : x \in Characters /\ CodePoint[x] < 16) <=> HasShort(p)
  BY <1>1, Zenon DEF HasShort
<1>3. OneDigit(c) <=> \E p \in ToSet(c.params) : HasShort(p)
  BY <1>2, Zenon DEF OneDigit
<1> QED
  BY <1>3 DEF ToSet

\* A command without parameters has no such value.
LEMMA NoParameters ==
    ASSUME NEW c, c.params = <<>>
    PROVE  ~OneDigit(c)
<1>1. ToSet(<<>>) = {}
  BY DEF ToSet
<1> QED
  BY <1>1 DEF OneDigit

\* Every command whose parts are what its verb asks for is read as it was meant, if no
\* value has a character below 16, and only then.
LEMMA WellFormedRead ==
    ASSUME NEW c \in WellFormed
    PROVE  ReadCommand(Words(c)) = c <=> ~OneDigit(c)
<1>1. CASE c \in [verb : BareVerbs \cup {"HELP"}, kind : {"none"}, text : {<<>>}, params : {<<>>}]
  <2>1. c = Command(c.verb, "none", <<>>, <<>>) /\ c.verb \in BareVerbs \cup {"HELP"} /\ c.params = <<>>
    BY <1>1 DEF Command
  <2> QED
    BY <2>1, WordRead, NoParameters
<1>2. CASE c \in [verb : TextVerbs, kind : {"none"},
                   text : Seq(STRING \ {"CR", "LF"}) \ {<<>>}, params : {<<>>}]
  <2>1. c = Command(c.verb, "none", c.text, <<>>) /\ c.verb \in TextVerbs /\ c.params = <<>>
        /\ c.text \in Seq(STRING \ {"CR", "LF"}) /\ c.text # <<>>
    BY <1>2 DEF Command
  <2>2. c.text \in Seq(Tokens)
    <3>1. c.text \in Seq(Plain) /\ Plain \subseteq Tokens
      BY <2>1, PlainTexts DEF Plain
    <3> QED
      BY <3>1, SeqMonotonic
  <2> QED
    BY <2>1, <2>2, ArgumentRead, NoParameters
<1>3. CASE c \in [verb : {"MAIL", "RCPT"}, kind : {"none"},
                   text : {a \in Seq(Characters) : EmailAddress_new(a)}, params : Seq(KnownParameters)]
  <2>1. PICK verb \in {"MAIL", "RCPT"}, text \in Seq(Characters), params \in Seq(KnownParameters) :
          EmailAddress_new(text) /\ c = Command(verb, "none", text, params)
    BY <1>3 DEF Command
  <2>2. text \in Seq(Plain \ {">"}) /\ \A i \in 1 .. Len(text) : text[i] \notin NotInPath
    BY <2>1, AddressPath, AddressInPath
  <2>3. ReadCommand(Words(c)) = c <=> \A k \in 1 .. Len(params) : ~HasShort(params[k])
    BY <2>1, <2>2, PathRound
  <2>4. PICK n \in Nat : n = Len(params) /\ DOMAIN params = 1 .. n
    BY LenProperties
  <2>5. c.params = params
    BY <2>1 DEF Command
  <2>6. OneDigit(c) <=> \E k \in 1 .. n : HasShort(params[k])
    BY <2>4, <2>5, OneDigitIs
  <2> QED
    BY <2>3, <2>4, <2>6
<1> QED
  BY <1>1, <1>2, <1>3 DEF WellFormed

\* What `send` writes has the parts its verbs ask for.
LEMMA SendWellFormed == EverSent \subseteq WellFormed
<1> SUFFICES ASSUME NEW options \in MailOptions PROVE Sending(options) \subseteq WellFormed
  BY DEF EverSent
<1>1. options \in Seq(KnownParameters) /\ <<>> \in Seq(KnownParameters)
  <2>1. PICK x \in KnownParameters, y \in KnownParameters : x = BodyOption /\ y = Utf8Option
    BY DEF KnownParameters, FixedParameters, BodyOption
  <2>2. <<>> \in Seq(KnownParameters) /\ <<x>> \in Seq(KnownParameters) /\ <<y>> \in Seq(KnownParameters) /\ <<x, y>> \in Seq(KnownParameters)
    BY Single, Pair
  <2> QED
    BY <2>1, <2>2 DEF MailOptions
<1>2. \A v \in {"MAIL", "RCPT"}, a \in Seq(Characters), p \in Seq(KnownParameters) :
        EmailAddress_new(a) => Command(v, "none", a, p) \in WellFormed
  BY DEF Command, WellFormed
<1>3. <<>> \in Seq(Characters) /\ EmailAddress_new(<<>>)
  BY DEF EmailAddress_new
<1>4. \A a \in {b \in Addresses : EmailAddress_new(b)} \cup {<<>>} : a \in Seq(Characters) /\ EmailAddress_new(a)
  BY <1>3, TextAssumption DEF TextAssumption
<1>5. \A a \in {b \in Addresses : EmailAddress_new(b)} \cup {<<>>} :
        Command("MAIL", "none", a, options) \in WellFormed
  BY <1>1, <1>2, <1>4
<1>6. \A a \in {b \in Addresses : EmailAddress_new(b)} : Command("RCPT", "none", a, <<>>) \in WellFormed
  BY <1>1, <1>2, <1>4
<1>7. Bare("DATA") \in WellFormed
  BY DEF Bare, Command, WellFormed, BareVerbs
<1> QED
  BY <1>5, <1>6, <1>7 DEF Sending

\* No option of `send` has a value that XText writes.
LEMMA SendTwoDigits ==
    ASSUME NEW c \in EverSent
    PROVE  ~OneDigit(c)
<1>1. c \in Sendable
  BY SendSendable
<1>2. c.params \in MailOptions
  <2>1. Bare("DATA").params = <<>> /\ <<>> \in MailOptions
    BY DEF Bare, Command, MailOptions
  <2> QED
    BY <1>1, <2>1 DEF Sendable
<1>3. \A p \in ToSet(c.params) : p = BodyOption \/ p = Utf8Option
  BY <1>2 DEF MailOptions, ToSet
<1>4. BodyOption.value = <<"8BITMIME">> /\ Utf8Option.value = <<>>
  BY DEF BodyOption, Utf8Option
<1>5. ToSet(<<"8BITMIME">>) = {"8BITMIME"} /\ ToSet(<<>>) = {}
  BY DEF ToSet
<1>6. "8BITMIME" \notin Characters
  BY DEF Characters
<1> QED
  BY <1>3, <1>4, <1>5, <1>6 DEF OneDigit

\* A line of one command is what is read of its words.
LEMMA LineAlone ==
    ASSUME TextInv, NEW n \in LinesRead, Cardinality(Parts(n)) = 1
    PROVE  \E e \in 1 .. Len(meant) : Ender(n) = e /\ read[n] = ReadCommand(Words(meant[e].cmd))
<1>1. Typed /\ Placed /\ n \in DOMAIN read
  BY DEF TextInv, LinesRead
<1>2. PICK all, cut, b, e : LineOf(all, cut, n, b, e)
  BY <1>1, LineFound
<1>3. Ender(n) = e /\ Parts(n) = b .. e
  BY <1>2, LineParts
<1>4. b \in Nat /\ e \in Nat /\ b <= e /\ e \in 1 .. Len(meant)
  <2>1. PICK L \in Nat : L = Len(meant)
    BY <1>2, LenProperties DEF LineOf
  <2> QED
    BY <1>2, <2>1 DEF LineOf
<1>5. b = e
  <2>1. Cardinality(b .. e) = e - b + 1
    BY <1>4, FS_Interval
  <2>2. e - b + 1 = 1
    BY <1>3, <2>1
  <2> QED
    BY <1>4, <2>2
<1>6. read[n] = ReadCommand(Words(meant[e].cmd))
  BY <1>2, <1>5, LineOfOne
<1> QED
  BY <1>3, <1>4, <1>6

\* What `send` writes, and writes to its end, the server reads as it was meant: the
\* same command, with the same address and the same parameters.  No address that
\* EmailAddress::new takes can end its path or its line.
THEOREM SendReadAsMeant ==
    Spec => [](\A n \in LinesRead :
                  (Cardinality(Parts(n)) = 1 /\ meant[Ender(n)].cmd \in SendCommands)
                      => read[n] = meant[Ender(n)].cmd)
<1> DEFINE AsMeant == \A n \in LinesRead :
                  (Cardinality(Parts(n)) = 1 /\ meant[Ender(n)].cmd \in SendCommands)
                      => read[n] = meant[Ender(n)].cmd
<1>1. TextInv => AsMeant
  <2> SUFFICES ASSUME TextInv, NEW n \in LinesRead, Cardinality(Parts(n)) = 1,
                      meant[Ender(n)].cmd \in SendCommands
               PROVE  read[n] = meant[Ender(n)].cmd
    OBVIOUS
  <2> QED
    BY LineAlone, SendEverSent, SendWellFormed, WellFormedRead, SendTwoDigits
<1> QED
  BY <1>1, TextInvariant, PTL

\* Every command written is one of these; but for EHLO, once the features are known.
Issued ==
    \A i \in 1 .. Len(meant) :
        \/ meant[i].cmd \in EhloCommands
        \/ server_info # NoInfo /\ meant[i].cmd \in SendCommands \cup OtherCommands

\* What is written belongs to the last command, of which there is one.
LEMMA Writing ==
    ASSUME Typed, Placed, todo # <<>>
    PROVE  meant \in Seq(Commands) /\ Len(meant) \in Nat \ {0}
<1>1. PICK all, cut, m : Sent(all, cut, m) /\ Heard(all, cut, m)
  BY DEF Placed
<1>2. meant \in Seq(Commands) /\ m \in 0 .. Len(meant) /\ m < Len(meant)
  BY <1>1 DEF Sent, Typed
<1>3. PICK L \in Nat : L = Len(meant)
  BY <1>2, LenProperties
<1> QED
  BY <1>2, <1>3

\* The commands of `send` depend on the features alone.
LEMMA SameSendCommands ==
    ASSUME UNCHANGED server_info
    PROVE  SendCommands' = SendCommands
BY DEF SendCommands, Sending, mail_options, supports_feature

\* A command more.
LEMMA StartIssued ==
    ASSUME Typed, Issued, NEW cmd, Start(cmd), UNCHANGED server_info,
           \/ cmd \in EhloCommands
           \/ server_info # NoInfo /\ cmd \in SendCommands \cup OtherCommands
    PROVE  Issued'
<1> PICK w : w = [cmd |-> cmd, cut |-> FALSE]
  OBVIOUS
<1>1. w.cmd = cmd
  OBVIOUS
<1> PICK N : N = meant'
  OBVIOUS
<1>2. PICK M \in Seq(Commands \cup {w}), L \in Nat : M = meant /\ L = Len(M)
  <2>1. meant \in Seq(Commands)
    BY DEF Typed
  <2>2. meant \in Seq(Commands \cup {w})
    BY <2>1, SeqMonotonic
  <2> QED
    BY <2>2, LenProperties
<1>3. Len(N) = L + 1 /\ N[L + 1] = w /\ \A i \in 1 .. L : N[i] = M[i]
  <2>1. N = Append(M, w)
    BY <1>2 DEF Start
  <2> QED
    BY <1>2, <2>1, AppendProperties
<1>4. ASSUME NEW i \in 1 .. Len(N)
      PROVE  \/ N[i].cmd \in EhloCommands
             \/ server_info # NoInfo /\ N[i].cmd \in SendCommands \cup OtherCommands
  <2>1. i = L + 1 \/ i \in 1 .. L
    BY <1>2, <1>3, <1>4
  <2>2. CASE i = L + 1
    BY <1>1, <1>3, <2>2
  <2>3. CASE i \in 1 .. L
    BY <1>2, <1>3, <2>3 DEF Issued
  <2> QED
    BY <2>1, <2>2, <2>3
<1>5. SendCommands' = SendCommands
  BY SameSendCommands
<1> QED
  BY <1>4, <1>5 DEF Issued, EhloCommands

\* The last command is marked, or taken back.
LEMMA CutIssued ==
    ASSUME Typed, Placed, Issued, Cut
    PROVE  Issued'
<1> PICK N : N = meant'
  OBVIOUS
<1>1. UNCHANGED server_info /\ todo # <<>>
  BY DEF Cut
<1>2. meant \in Seq(Commands) /\ Len(meant) \in Nat \ {0}
  BY <1>1, Writing
<1>3. PICK M \in Seq(Commands), L \in Nat \ {0} : M = meant /\ L = Len(M)
  BY <1>2
<1>4. \A i \in 1 .. Len(N) : i \in 1 .. L /\ N[i].cmd = M[i].cmd
  <2>1. CASE todo = Display(Last(meant).cmd)
    <3>1. N = SubSeq(M, 1, L - 1)
      BY <1>3, <2>1 DEF Cut, Front
    <3> QED
      BY <1>3, <3>1
  <2>2. CASE todo # Display(Last(meant).cmd)
    <3>1. N = [M EXCEPT ![L].cut = TRUE]
      BY <1>3, <2>2 DEF Cut
    <3>2. L \in 1 .. Len(M)
      BY <1>3
    <3>3. /\ Len(N) = L
          /\ \A i \in 1 .. L : i # L => N[i] = M[i]
          /\ N[L].cmd = M[L].cmd
      BY <1>3, <3>1, <3>2, CutShort
    <3> QED
      BY <3>3
  <2> QED
    BY <2>1, <2>2
<1>5. SendCommands' = SendCommands
  BY <1>1, SameSendCommands
<1> QED
  BY <1>1, <1>3, <1>4, <1>5 DEF Issued, EhloCommands

\* At first no command is written.
LEMMA InitIssued == Init => Issued
<1> SUFFICES ASSUME Init PROVE Issued
  OBVIOUS
<1>1. meant = <<>>
  BY DEF Init
<1>2. 1 .. Len(meant) = {}
  BY <1>1
<1> QED
  BY <1>2 DEF Issued

\* A step that writes nothing keeps what is known of the commands.
LEMMA SameIssued ==
    ASSUME Issued, UNCHANGED meant, server_info = NoInfo \/ UNCHANGED server_info
    PROVE  Issued'
<1>1. CASE server_info = NoInfo
  BY <1>1 DEF Issued, EhloCommands
<1>2. CASE UNCHANGED server_info
  <2>1. SendCommands' = SendCommands
    BY <1>2, SameSendCommands
  <2> QED
    BY <1>2, <2>1 DEF Issued, EhloCommands
<1> QED
  BY <1>1, <1>2

\* Every step does: new commands are of the kinds a caller may write.
LEMMA IssuedKept == TextInv /\ Issued /\ [Next]_vars => Issued'
<1> SUFFICES ASSUME Typed, Placed, Issued, [Next]_vars PROVE Issued'
  BY DEF TextInv
<1>1. CASE Ehlo
  <2>1. PICK cmd \in EhloCommands : Start(cmd)
    BY <1>1 DEF Ehlo
  <2>2. UNCHANGED server_info
    BY <1>1 DEF Ehlo
  <2> QED
    BY <2>1, <2>2, StartIssued
<1>2. CASE ReadEhloReply
  BY <1>2, SameIssued DEF ReadEhloReply
<1>3. CASE Issue
  <2>1. PICK cmd \in SendCommands \cup OtherCommands : Start(cmd)
    BY <1>3 DEF Issue
  <2>2. server_info # NoInfo /\ UNCHANGED server_info
    BY <1>3 DEF Issue
  <2> QED
    BY <2>1, <2>2, StartIssued
<1>4. CASE Flow
  BY <1>4, SameIssued DEF Flow
<1>5. CASE Cut
  BY <1>5, CutIssued
<1>6. CASE ReadLine
  BY <1>6, SameIssued DEF ReadLine
<1>7. CASE Finished \/ UNCHANGED vars
  BY <1>7, SameIssued DEF Finished, vars
<1> QED
  BY <1>1, <1>2, <1>3, <1>4, <1>5, <1>6, <1>7 DEF Next

\* The EHLO of a client id that can be told apart is read back.
LEMMA EhloReadBack ==
    ASSUME NEW c \in EhloCommands, IdRead(c.kind, c.text)
    PROVE  ReadCommand(Words(c)) = c
<1>1. PICK id \in ClientIds : c = Command("EHLO", id[1], id[2], <<>>)
  BY DEF EhloCommands
<1>2. id[1] \in {"Domain", "Ipv4", "Ipv6"} /\ id[2] \in Seq(STRING \ {"CR", "LF"})
  BY TextAssumption DEF TextAssumption
<1>3. id[2] \in Seq(Tokens)
  <2>1. id[2] \in Seq(Plain) /\ Plain \subseteq Tokens
    BY <1>2, PlainTexts DEF Plain
  <2> QED
    BY <2>1, SeqMonotonic
<1>4. c.kind = id[1] /\ c.text = id[2]
  BY <1>1 DEF Command
<1> QED
  BY <1>1, <1>2, <1>3, <1>4, EhloRead

\* ReadAsMeant, of client ids that can be told apart and commands that have what their
\* verbs ask for: whatever the addresses, arguments and values are, nothing the crate
\* does on the way, and no write abandoned before or after, makes a server misread a
\* command, but for a value with a character below 16, which it always misreads.
THEOREM AllReadAsMeant ==
    ASSUME \A id \in ClientIds : IdRead(id[1], id[2]),
           OtherCommands \subseteq WellFormed
    PROVE  Spec => []ReadAsMeant
<1>1. ASSUME NEW c, c \in EhloCommands \/ c \in SendCommands \/ c \in OtherCommands
      PROVE  ReadCommand(Words(c)) = c <=> ~OneDigit(c)
  <2>1. CASE c \in EhloCommands
    <3>1. PICK id \in ClientIds : c = Command("EHLO", id[1], id[2], <<>>)
      BY <2>1 DEF EhloCommands
    <3>2. c.kind = id[1] /\ c.text = id[2]
      BY <3>1 DEF Command
    <3>3. IdRead(c.kind, c.text)
      BY <3>2
    <3>4. ReadCommand(Words(c)) = c
      BY <2>1, <3>3, EhloReadBack
    <3>5. ~OneDigit(c)
      <4>1. c.params = <<>>
        BY <3>1 DEF Command
      <4> QED
        BY <4>1, NoParameters
    <3> QED
      BY <3>4, <3>5
  <2>2. CASE c \in SendCommands
    BY <2>2, SendEverSent, SendWellFormed, WellFormedRead
  <2>3. CASE c \in OtherCommands
    BY <2>3, WellFormedRead
  <2> QED
    BY <1>1, <2>1, <2>2, <2>3
<1>2. TextInv /\ Issued => ReadAsMeant
  <2> SUFFICES ASSUME TextInv, Issued, NEW n \in LinesRead, Cardinality(Parts(n)) = 1
               PROVE  read[n] = meant[Ender(n)].cmd <=> ~OneDigit(meant[Ender(n)].cmd)
    BY DEF ReadAsMeant
  <2>1. PICK e \in 1 .. Len(meant) : Ender(n) = e /\ read[n] = ReadCommand(Words(meant[e].cmd))
    BY LineAlone
  <2>2. meant[e].cmd \in EhloCommands \/ meant[e].cmd \in SendCommands \/ meant[e].cmd \in OtherCommands
    BY <2>1 DEF Issued
  <2> QED
    BY <1>1, <2>1, <2>2
<1>3. Init => TextInv /\ Issued
  BY InitText, InitIssued
<1>4. (TextInv /\ Issued) /\ [Next]_vars => (TextInv /\ Issued)'
  BY TextKept, IssuedKept
<1> QED
  BY <1>2, <1>3, <1>4, PTL DEF Spec

-----------------------------------------------------------------------------
(* Commands in the order they were written *)

\* What follows the first d elements.
From(s, d) == SubSeq(s, d + 1, Len(s))

\* There are n of them.
Behind(s, d, n) == s \in Seq(Commands) /\ d \in Nat /\ n \in Nat /\ Len(s) = d + n

LEMMA FromIs ==
    ASSUME NEW s, NEW d, NEW n, Behind(s, d, n), NEW t, t = From(s, d)
    PROVE  t \in Seq(Commands) /\ Len(t) = n /\ \A i \in 1 .. n : t[i] = s[d + i]
<1>1. s \in Seq(Commands) /\ d \in Nat /\ n \in Nat /\ Len(s) = d + n
  BY DEF Behind
<1>2. PICK a \in Nat, l \in Nat : a = d + 1 /\ l = d + n /\ Len(s) = l
  BY <1>1
<1>3. a \in 1 .. l + 1 /\ l - a + 1 = n
  BY ONLY <1>1, <1>2, a \in Nat, l \in Nat
<1>4. t = SubSeq(s, a, l)
  BY <1>2 DEF From
<1>5. t \in Seq(Commands) /\ Len(t) = l - a + 1 /\ \A i \in 1 .. l - a + 1 : t[i] = s[a + i - 1]
  BY <1>1, <1>2, <1>3, <1>4, SubSeqProperties
<1>6. \A i \in 1 .. n : a + i - 1 = d + i
  BY ONLY <1>1, <1>2, a \in Nat
<1> QED
  BY ONLY <1>1, <1>3, <1>5, <1>6

\* A command more.
LEMMA FromMore ==
    ASSUME NEW s, NEW d, NEW n, Behind(s, d, n), NEW w \in Commands
    PROVE  From(Append(s, w), d) = Append(From(s, d), w)
<1>0. s \in Seq(Commands) /\ d \in Nat /\ n \in Nat /\ Len(s) = d + n
  BY DEF Behind
<1> PICK t : t = Append(s, w)
  OBVIOUS
<1>1. t \in Seq(Commands) /\ Len(t) = d + (n + 1) /\ t[d + n + 1] = w /\ \A i \in 1 .. d + n : t[i] = s[i]
  <2>1. t \in Seq(Commands) /\ Len(t) = Len(s) + 1 /\ t[Len(s) + 1] = w /\ \A i \in 1 .. Len(s) : t[i] = s[i]
    BY <1>0, AppendProperties
  <2>2. d + n + 1 = d + (n + 1)
    BY <1>0
  <2> QED
    BY <1>0, <2>1, <2>2
<1> PICK u : u = From(s, d)
  OBVIOUS
<1>2. u \in Seq(Commands) /\ Len(u) = n /\ \A i \in 1 .. n : u[i] = s[d + i]
  BY FromIs
<1> PICK v : v = From(t, d)
  OBVIOUS
<1>3. v \in Seq(Commands) /\ Len(v) = n + 1 /\ \A i \in 1 .. n + 1 : v[i] = t[d + i]
  <2>1. Behind(t, d, n + 1)
    BY <1>0, <1>1 DEF Behind
  <2> QED
    BY ONLY <2>1, v = From(t, d), FromIs
<1> PICK x : x = Append(u, w)
  OBVIOUS
<1>4. x \in Seq(Commands) /\ Len(x) = n + 1 /\ x[n + 1] = w /\ \A i \in 1 .. n : x[i] = u[i]
  <2>1. x \in Seq(Commands) /\ Len(x) = Len(u) + 1 /\ x[Len(u) + 1] = w /\ \A i \in 1 .. Len(u) : x[i] = u[i]
    BY <1>2, AppendProperties
  <2> QED
    BY <1>2, <2>1
<1>5. ASSUME NEW i \in 1 .. n + 1 PROVE v[i] = x[i]
  <2>1. v[i] = t[d + i]
    BY <1>3
  <2>2. CASE i \in 1 .. n
    <3>1. d + i \in 1 .. d + n
      BY ONLY <1>0, <2>2
    <3> QED
      BY <1>1, <1>2, <1>4, <2>1, <2>2, <3>1
  <2>3. CASE i = n + 1
    <3>1. d + i = d + n + 1
      BY ONLY <1>0, <2>3
    <3> QED
      BY <1>1, <1>4, <2>1, <2>3, <3>1
  <2> QED
    BY ONLY <1>0, i \in 1 .. n + 1, <2>2, <2>3
<1>6. v = x
  BY <1>3, <1>4, <1>5, SeqEqual
<1> QED
  BY <1>6

\* The last command taken back.
LastTaken(s, d, n, t) == n \in Nat /\ Behind(s, d, n + 1) /\ t = SubSeq(s, 1, d + n)

LEMMA FromLess ==
    ASSUME NEW s, NEW d, NEW n, NEW t, LastTaken(s, d, n, t)
    PROVE  From(t, d) = SubSeq(From(s, d), 1, n)
<1>0. n \in Nat /\ s \in Seq(Commands) /\ d \in Nat /\ Len(s) = d + n + 1
  <2>1. n \in Nat /\ s \in Seq(Commands) /\ d \in Nat /\ Len(s) = d + (n + 1)
    BY DEF LastTaken, Behind
  <2> QED
    BY <2>1
<1>1. t \in Seq(Commands) /\ Len(t) = d + n /\ \A i \in 1 .. d + n : t[i] = s[i]
  BY <1>0 DEF LastTaken
<1> PICK u : u = From(s, d)
  OBVIOUS
<1>2. u \in Seq(Commands) /\ Len(u) = n + 1 /\ \A i \in 1 .. n + 1 : u[i] = s[d + i]
  <2>1. PICK m : m = n + 1 /\ Behind(s, d, m)
    BY DEF LastTaken
  <2>2. u \in Seq(Commands) /\ Len(u) = m /\ \A i \in 1 .. m : u[i] = s[d + i]
    BY ONLY <2>1, u = From(s, d), FromIs
  <2> QED
    BY <2>1, <2>2
<1> PICK v : v = From(t, d)
  OBVIOUS
<1>3. v \in Seq(Commands) /\ Len(v) = n /\ \A i \in 1 .. n : v[i] = t[d + i]
  <2>1. Behind(t, d, n)
    BY <1>0, <1>1 DEF Behind
  <2> QED
    BY ONLY <2>1, v = From(t, d), FromIs
<1> PICK x : x = SubSeq(u, 1, n)
  OBVIOUS
<1>4. x \in Seq(Commands) /\ Len(x) = n /\ \A i \in 1 .. n : x[i] = u[i]
  BY <1>0, <1>2
<1>5. ASSUME NEW i \in 1 .. n PROVE v[i] = x[i]
  <2>1. d + i \in 1 .. d + n /\ i \in 1 .. n + 1
    BY ONLY <1>0, i \in 1 .. n
  <2> QED
    BY <1>1, <1>2, <1>3, <1>4, <2>1
<1>6. v = x
  BY <1>3, <1>4, <1>5, SeqEqual
<1> QED
  BY <1>6

\* The last command marked.
Marked(s, i) == [s EXCEPT ![i].cut = TRUE]

LastMarked(s, d, m, t) == Behind(s, d, m) /\ m # 0 /\ t = Marked(s, d + m)

LEMMA FromShort ==
    ASSUME NEW s, NEW d, NEW m, NEW t, LastMarked(s, d, m, t)
    PROVE  From(t, d) = Marked(From(s, d), m)
<1>0. s \in Seq(Commands) /\ d \in Nat /\ m \in Nat /\ m # 0 /\ Len(s) = d + m /\ Behind(s, d, m)
  BY DEF LastMarked, Behind
<1> PICK l : l = d + m
  OBVIOUS
<1> PICK u : u = From(s, d)
  OBVIOUS
<1>1. u \in Seq(Commands) /\ Len(u) = m /\ \A i \in 1 .. m : u[i] = s[d + i]
  BY ONLY <1>0, u = From(s, d), FromIs
<1>2. l \in 1 .. l /\ m \in 1 .. m /\ l = Len(s)
  BY <1>0
<1>3. s[l] \in Commands /\ u[m] = s[l]
  BY <1>0, <1>1, <1>2, ElementOfSeq
<1>4. PICK w : w = [s[l] EXCEPT !.cut = TRUE]
  OBVIOUS
<1>5. w \in Commands
  BY <1>3, <1>4 DEF Commands
<1>6. t = [s EXCEPT ![l] = w]
  BY <1>4 DEF LastMarked, Marked
<1>7. t \in Seq(Commands) /\ Len(t) = l /\ t[l] = w /\ \A i \in 1 .. l : i # l => t[i] = s[i]
  BY <1>0, <1>2, <1>5, <1>6, ExceptSeq
<1> PICK v : v = From(t, d)
  OBVIOUS
<1>8. v \in Seq(Commands) /\ Len(v) = m /\ \A i \in 1 .. m : v[i] = t[d + i]
  <2>1. Behind(t, d, m)
    BY <1>0, <1>7 DEF Behind
  <2> QED
    BY ONLY <2>1, v = From(t, d), FromIs
<1>9. PICK x : x = [u EXCEPT ![m] = w]
  OBVIOUS
<1>10. x \in Seq(Commands) /\ Len(x) = m /\ x[m] = w /\ \A i \in 1 .. m : i # m => x[i] = u[i]
  BY <1>1, <1>2, <1>5, <1>9, ExceptSeq
<1>11. ASSUME NEW i \in 1 .. m PROVE v[i] = x[i]
  <2>1. CASE i = m
    BY <1>2, <1>7, <1>8, <1>10, <2>1
  <2>2. CASE i # m
    <3>1. d + i \in 1 .. l /\ d + i # l
      BY ONLY <1>0, l = d + m, i \in 1 .. m, <2>2
    <3> QED
      BY <1>1, <1>7, <1>8, <1>10, <2>2, <3>1
  <2> QED
    BY <2>1, <2>2
<1>12. v = x
  BY <1>8, <1>10, <1>11, SeqEqual
<1>13. Marked(u, m) = x
  BY <1>3, <1>4, <1>9 DEF Marked
<1> QED
  BY <1>12, <1>13

\* Some commands less.
SomeRead(s, d, l, e, n) ==
    Behind(s, d, l) /\ n \in Nat /\ e = d + n /\ \E k \in Nat : l = n + k

LEMMA FromRest ==
    ASSUME NEW s, NEW d, NEW l, NEW e, NEW n, SomeRead(s, d, l, e, n)
    PROVE  From(s, e) = From(From(s, d), n)
<1>0. PICK k \in Nat :
        /\ s \in Seq(Commands) /\ Len(s) = d + l /\ d \in Nat /\ n \in Nat /\ l \in Nat
        /\ l = n + k /\ e = d + n /\ Behind(s, d, l)
  BY DEF SomeRead, Behind
<1> PICK u : u = From(s, d)
  OBVIOUS
<1>1. u \in Seq(Commands) /\ Len(u) = l /\ \A i \in 1 .. l : u[i] = s[d + i]
  <2>1. Behind(s, d, l)
    BY <1>0
  <2> QED
    BY ONLY <2>1, u = From(s, d), FromIs
<1> PICK v : v = From(s, e)
  OBVIOUS
<1>2. v \in Seq(Commands) /\ Len(v) = k /\ \A i \in 1 .. k : v[i] = s[e + i]
  <2>1. Behind(s, e, k)
    BY <1>0 DEF Behind
  <2> QED
    BY ONLY <2>1, v = From(s, e), FromIs
<1> PICK x : x = From(u, n)
  OBVIOUS
<1>3. x \in Seq(Commands) /\ Len(x) = k /\ \A i \in 1 .. k : x[i] = u[n + i]
  <2>1. Behind(u, n, k)
    BY <1>0, <1>1 DEF Behind
  <2> QED
    BY ONLY <2>1, x = From(u, n), FromIs
<1>4. ASSUME NEW i \in 1 .. k PROVE v[i] = x[i]
  <2>1. n + i \in 1 .. l /\ d + (n + i) = e + i
    BY ONLY <1>0, i \in 1 .. k
  <2> QED
    BY <1>1, <1>2, <1>3, <2>1
<1>5. v = x
  BY <1>2, <1>3, <1>4, SeqEqual
<1> QED
  BY <1>5

\* No two whole commands have the same rank, nor has one that of none.
LEMMA RankUnique ==
    ASSUME NEW M, NEW i \in Nat, NEW j \in Nat, i > 0 => ~M[i].cut, j > 0 => ~M[j].cut,
           Rank(M, i) = Rank(M, j)
    PROVE  i = j
<1>1. Rank(M, i) \in Nat /\ Rank(M, j) \in Nat
  BY RankType
<1>2. ~(i < j)
  <2>1. SUFFICES ASSUME i < j PROVE FALSE
    OBVIOUS
  <2>2. i <= j /\ ~M[j].cut
    BY <2>1
  <2>3. Rank(M, i) < Rank(M, j)
    BY <2>1, <2>2, RankMonotone
  <2> QED
    BY <1>1, <2>3
<1>3. ~(j < i)
  <2>1. SUFFICES ASSUME j < i PROVE FALSE
    OBVIOUS
  <2>2. j <= i /\ ~M[i].cut
    BY <2>1
  <2>3. Rank(M, j) < Rank(M, i)
    BY <2>1, <2>2, RankMonotone
  <2> QED
    BY <1>1, <2>3
<1> QED
  BY <1>2, <1>3

\* Ender(n) is the whole command of that rank.
LEMMA EnderIs ==
    ASSUME meant \in Seq(Commands), NEW e \in 1 .. Len(meant), ~meant[e].cut
    PROVE  Ender(Rank(meant, e)) = e
<1>1. PICK L \in Nat : L = Len(meant) /\ DOMAIN meant = 1 .. L
  BY LenProperties
<1>2. Whole = {i \in 1 .. L : ~meant[i].cut}
  BY <1>1 DEF Whole
<1>3. ASSUME NEW i \in Whole PROVE Cardinality({k \in Whole : k <= i}) = Rank(meant, i)
  <2>1. i \in 1 .. L
    BY <1>2
  <2>2. {k \in Whole : k <= i} = WholeTo(meant, i)
    <3>1. \A k \in 1 .. i : k \in 1 .. L /\ k <= i
      BY <2>1
    <3>2. \A k \in 1 .. L : k <= i => k \in 1 .. i
      BY <2>1
    <3> QED
      BY <1>2, <3>1, <3>2 DEF WholeTo
  <2> QED
    BY <2>2 DEF Rank
<1>4. e \in Whole
  BY <1>1, <1>2
<1>5. ASSUME NEW i \in Whole, Rank(meant, i) = Rank(meant, e) PROVE i = e
  <2>1. i \in Nat /\ e \in Nat /\ ~meant[i].cut
    BY <1>1, <1>2
  <2> QED
    BY <1>5, <2>1, RankUnique
<1> QED
  BY <1>3, <1>4, <1>5 DEF Ender

\* The commands whose line has been read are those up to a whole one, or none, and what
\* is still to be handed over is of a later one.
DoneAt ==
    /\ meant \in Seq(Commands)
    /\ Done \in 0 .. Len(meant)
    /\ Done > 0 => ~meant[Done].cut
    /\ Rank(meant, Done) = Len(read)
    /\ todo # <<>> => Done < Len(meant) /\ ~meant[Len(meant)].cut

LEMMA DoneIs == TextInv => DoneAt
<1> SUFFICES ASSUME Typed, Placed PROVE DoneAt
  BY DEF TextInv
<1>1. PICK all, cut, m : Sent(all, cut, m) /\ Heard(all, cut, m)
  BY DEF Placed
<1>2. /\ meant \in Seq(Commands) /\ read \in Seq(Readable)
      /\ m \in 0 .. Len(meant) /\ (m > 0 => ~meant[m].cut)
      /\ todo # <<>> => m < Len(meant) /\ ~meant[Len(meant)].cut
  BY <1>1 DEF Sent, Typed
<1>3. Len(read) = Rank(meant, m)
  BY <1>1 DEF Heard
<1>4. Rank(meant, 0) = 0
  <2>1. WholeTo(meant, 0) = {}
    BY DEF WholeTo
  <2> QED
    BY <2>1, FS_EmptySet DEF Rank
<1>5. PICK L \in Nat : L = Len(meant)
  BY <1>2, LenProperties
<1>6. m \in Nat /\ 0 \in Nat
  BY <1>2
<1>7. Done = m
  <2>1. CASE read = <<>>
    <3>1. Rank(meant, m) = Rank(meant, 0)
      BY <1>3, <1>4, <2>1
    <3>2. m = 0
      BY <1>2, <1>6, <3>1, RankUnique
    <3> QED
      BY <2>1, <3>2 DEF Done
  <2>2. CASE read # <<>>
    <3>1. m # 0
      <4>1. Len(read) # 0
        BY <1>2, <2>2, EmptySeq
      <4> QED
        BY <1>3, <1>4, <4>1
    <3>2. m \in 1 .. Len(meant) /\ m > 0
      BY <1>2, <1>5, <3>1
    <3>3. Ender(Len(read)) = m
      BY <1>2, <1>3, <3>2, EnderIs
    <3> QED
      BY <2>2, <3>3 DEF Done
  <2> QED
    BY <2>1, <2>2
<1> QED
  BY <1>2, <1>3, <1>7 DEF DoneAt

LEMMA DoneNext == TextInv' => DoneAt'
BY DoneIs, PTL

\* What changes in later commands does not change which have been read.
LEMMA DoneSame ==
    ASSUME DoneAt, DoneAt', UNCHANGED read, \A i \in 1 .. Done : meant'[i].cut = meant[i].cut
    PROVE  Done' = Done
<1> PICK d \in Nat : d = Done
  <2>1. PICK L \in Nat : L = Len(meant)
    BY LenProperties DEF DoneAt
  <2>2. Done \in 0 .. L
    BY <2>1 DEF DoneAt
  <2> QED
    BY <2>2
<1> PICK e \in Nat : e = Done'
  <2>1. PICK L \in Nat : L = Len(meant')
    BY LenProperties DEF DoneAt
  <2>2. Done' \in 0 .. L
    BY <2>1 DEF DoneAt
  <2> QED
    BY <2>2
<1> PICK N : N = meant'
  OBVIOUS
<1>1. d > 0 => ~N[d].cut
  <2>1. d > 0 => ~meant[d].cut /\ d \in 1 .. d
    BY DEF DoneAt
  <2> QED
    BY <2>1
<1>2. Rank(N, d) = Len(read)
  <2>1. Rank(meant, d) = Len(read)
    BY DEF DoneAt
  <2>2. \A i \in 1 .. d : N[i].cut = meant[i].cut
    OBVIOUS
  <2>3. Rank(N, d) = Rank(meant, d)
    BY <2>2, RankSame
  <2> QED
    BY <2>1, <2>3
<1>3. (e > 0 => ~N[e].cut) /\ Rank(N, e) = Len(read)
  BY DEF DoneAt
<1>4. e = d
  BY <1>1, <1>2, <1>3, RankUnique
<1> QED
  BY <1>4

\* A line more: it is that of the commands up to the next whole one.
LEMMA DoneMore ==
    ASSUME DoneAt, DoneAt', UNCHANGED meant, Len(read') = Len(read) + 1
    PROVE  /\ Done < Done' /\ ~meant[Done'].cut
           /\ \A k \in Done + 1 .. Done' - 1 : meant[k].cut
<1>1. PICK L \in Nat : L = Len(meant)
  BY LenProperties DEF DoneAt
<1>2. PICK d \in Nat : d = Done /\ d <= L /\ Rank(meant, d) = Len(read)
  BY <1>1 DEF DoneAt
<1>3. PICK e \in Nat : e = Done' /\ e <= L /\ Rank(meant, e) = Len(read) + 1 /\ (e > 0 => ~meant[e].cut)
  BY <1>1 DEF DoneAt
<1>4. PICK r \in Nat : r = Len(read)
  BY <1>2, RankType
<1>5. d < e
  <2>1. SUFFICES ASSUME e <= d PROVE FALSE
    OBVIOUS
  <2>2. Rank(meant, e) <= Rank(meant, d)
    BY <2>1, RankMonotone
  <2>3. r + 1 <= r
    BY <1>2, <1>3, <1>4, <2>2
  <2> QED
    BY <2>3
<1>6. ASSUME NEW k \in d + 1 .. e - 1, ~meant[k].cut PROVE FALSE
  <2>1. k \in Nat /\ d < k /\ k < e /\ d <= k /\ k <= e /\ ~meant[e].cut
    <3>1. k \in Nat /\ d < k /\ k < e /\ d <= k /\ k <= e /\ e > 0
      BY ONLY d \in Nat, e \in Nat, k \in d + 1 .. e - 1
    <3> QED
      BY ONLY <1>3, <3>1
  <2>2. PICK x \in Nat : x = Rank(meant, k)
    BY <2>1, RankType
  <2>3. Rank(meant, d) < Rank(meant, k)
    BY <1>6, <2>1, RankMonotone
  <2>4. Rank(meant, k) < Rank(meant, e)
    BY <2>1, RankMonotone
  <2>5. r < x /\ x < r + 1
    BY <1>2, <1>3, <1>4, <2>2, <2>3, <2>4
  <2> QED
    BY <2>5
<1>7. ~meant[e].cut
  BY <1>3, <1>5
<1> QED
  BY <1>2, <1>3, <1>5, <1>6, <1>7

\* The commands a caller may write.
Known == EhloCommands \cup EverSent \cup OtherCommands

\* Every command but the doubtful ones is read as it was meant.
LEMMA ClearRead ==
    ASSUME NEW c \in Known, c \notin Doubtful
    PROVE  ReadCommand(Words(c)) = c
<1>1. CASE c \in EhloCommands
  BY <1>1, EhloReadBack DEF Doubtful
<1>2. CASE c \in EverSent
  BY <1>2, SendWellFormed, WellFormedRead, SendTwoDigits
<1>3. CASE c \in OtherCommands
  BY <1>3, WellFormedRead DEF Doubtful
<1> QED
  BY <1>1, <1>2, <1>3 DEF Known

\* Every command written is one of these.
LEMMA IssuedKnown == Issued => \A i \in 1 .. Len(meant) : meant[i].cmd \in Known
BY SendEverSent DEF Issued, Known

\* What was read last: the whole command, if its line is its own, and no command, if one
\* of `send` that was cut short is the first in it.
Newest ==
    read # <<>> => \A b \in 1 .. Done :
        ((\A k \in b .. Done - 1 : meant[k].cut) /\ (b = 1 \/ ~meant[b - 1].cut)) =>
            /\ (b = Done /\ meant[b].cmd \notin Doubtful) => read[Len(read)] = meant[b].cmd
            /\ (b < Done /\ meant[b].cmd \in EverSent) => read[Len(read)] = Unknown

LEMMA NewestRead == TextInv /\ Issued => Newest
<1> SUFFICES ASSUME TextInv, Issued, read # <<>>, NEW b \in 1 .. Done,
                    \A k \in b .. Done - 1 : meant[k].cut, b = 1 \/ ~meant[b - 1].cut
             PROVE  /\ (b = Done /\ meant[b].cmd \notin Doubtful) => read[Len(read)] = meant[b].cmd
                    /\ (b < Done /\ meant[b].cmd \in EverSent) => read[Len(read)] = Unknown
  BY DEF Newest
<1>1. Typed /\ Placed /\ DoneAt
  BY DoneIs DEF TextInv
<1>2. PICK L \in Nat : L = Len(meant)
  BY <1>1, LenProperties DEF DoneAt
<1>3. PICK n : n = Len(read)
  OBVIOUS
<1>4. n \in DOMAIN read
  <2>1. read \in Seq(Readable) /\ Len(read) \in Nat \ {0}
    BY <1>1, EmptySeq DEF Typed
  <2> QED
    BY <1>3, <2>1
<1>5. PICK all, cut, a, e : LineOf(all, cut, n, a, e)
  BY <1>1, <1>4, LineFound
<1>6. /\ a \in 1 .. L /\ e \in 1 .. L /\ a <= e /\ ~meant[e].cut
      /\ (\A k \in a .. e - 1 : meant[k].cut) /\ (a = 1 \/ ~meant[a - 1].cut)
      /\ Rank(meant, e) = n
  BY <1>2, <1>5 DEF LineOf
<1>7. e = Done
  <2>1. Done \in Nat /\ (Done > 0 => ~meant[Done].cut) /\ Rank(meant, Done) = Rank(meant, e)
    BY <1>1, <1>2, <1>3, <1>6 DEF DoneAt
  <2>2. e \in Nat /\ (e > 0 => ~meant[e].cut)
    BY <1>6
  <2> QED
    BY <2>1, <2>2, RankUnique
<1>8. b \in 1 .. e /\ \A k \in b .. e - 1 : meant[k].cut
  BY <1>7
<1>9. a = b
  <2>1. ~(a < b)
    <3>1. SUFFICES ASSUME a < b PROVE FALSE
      OBVIOUS
    <3>2. b # 1 /\ b - 1 \in a .. e - 1
      BY ONLY L \in Nat, <1>6, <1>8, <3>1
    <3> QED
      BY <1>6, <3>2
  <2>2. ~(b < a)
    <3>1. SUFFICES ASSUME b < a PROVE FALSE
      OBVIOUS
    <3>2. a # 1 /\ a - 1 \in b .. e - 1
      BY ONLY L \in Nat, <1>6, <1>8, <3>1
    <3> QED
      BY <1>6, <1>8, <3>2
  <2> QED
    BY ONLY L \in Nat, <1>6, <1>8, <2>1, <2>2
<1>10. ASSUME b = Done, meant[b].cmd \notin Doubtful PROVE read[n] = meant[b].cmd
  <2>1. read[n] = ReadCommand(Words(meant[e].cmd))
    BY <1>5, <1>7, <1>9, <1>10, LineOfOne
  <2>2. meant[e].cmd \in Known
    BY <1>2, <1>6, IssuedKnown
  <2> QED
    BY <1>7, <1>10, <2>1, <2>2, ClearRead
<1>11. ASSUME b < Done, meant[b].cmd \in EverSent PROVE read[n] = Unknown
  <2>1. meant[b].cmd \in Sendable
    BY <1>11, SendSendable
  <2>2. Joint(meant, all, cut, b, e)
    BY <1>5, <1>7, <1>9, <1>11, <2>1 DEF Joint, LineOf
  <2>3. Glued(meant[b].cmd, cut[b + 1] - cut[b], SubSeq(all, cut[b] + 1, cut[e + 1] - 2))
    BY <2>2, JointGlued
  <2>4. ReadCommand(SubSeq(all, cut[b] + 1, cut[e + 1] - 2)) = Unknown
    BY <2>3, CutUnknown
  <2> QED
    BY <1>5, <1>9, <2>4 DEF LineOf
<1> QED
  BY <1>3, <1>10, <1>11

LEMMA NewestReadNext == (TextInv /\ Issued)' => Newest'
BY NewestRead, PTL

\* The commands written and not yet read.
Waiting == From(meant, Done)

LEMMA WaitingIs ==
    ASSUME DoneAt
    PROVE  \E d, n \in Nat : /\ d = Done /\ meant \in Seq(Commands) /\ Behind(meant, d, n)
                             /\ Len(meant) = d + n /\ Len(Waiting) = n
                             /\ \A i \in 1 .. n : Waiting[i] = meant[d + i]
<1>1. PICK L \in Nat : L = Len(meant) /\ meant \in Seq(Commands)
  BY LenProperties DEF DoneAt
<1>2. PICK d \in Nat : d = Done /\ d <= L
  BY <1>1 DEF DoneAt
<1>3. PICK n \in Nat : L = d + n
  <2>1. L - d \in Nat /\ L = d + (L - d)
    BY <1>2
  <2> QED
    BY <2>1
<1>4. Behind(meant, d, n)
  BY <1>1, <1>3 DEF Behind
<1>5. Len(Waiting) = n /\ \A i \in 1 .. n : Waiting[i] = meant[d + i]
  <2>1. PICK u : u = From(meant, d)
    OBVIOUS
  <2>2. Len(u) = n /\ \A i \in 1 .. n : u[i] = meant[d + i]
    BY ONLY <1>4, <2>1, FromIs
  <2> QED
    BY <1>2, <2>1, <2>2 DEF Waiting
<1> QED
  BY <1>1, <1>2, <1>3, <1>4, <1>5

LEMMA WaitingTyped == DoneAt => Waiting \in Seq(Commands)
<1> SUFFICES ASSUME DoneAt PROVE Waiting \in Seq(Commands)
  OBVIOUS
<1>1. PICK d \in Nat, n \in Nat : d = Done /\ Behind(meant, d, n)
  BY WaitingIs
<1>2. PICK u : u = From(meant, d)
  OBVIOUS
<1>3. u \in Seq(Commands)
  BY ONLY <1>1, <1>2, FromIs
<1> QED
  BY <1>1, <1>2, <1>3 DEF Waiting

\* A command more is one more that waits.
LEMMA WriteStep ==
    ASSUME DoneAt, DoneAt', NEW cmd \in Known, Start(cmd), UNCHANGED read
    PROVE  Waiting' = Append(Waiting, [cmd |-> cmd, cut |-> FALSE])
<1> PICK w : w = [cmd |-> cmd, cut |-> FALSE]
  OBVIOUS
<1>1. w \in Commands
  <2>1. cmd \in Written
    BY EhloWritten, SendWritten, OtherWritten DEF Known
  <2> QED
    BY <2>1 DEF Commands
<1>2. PICK d \in Nat, n \in Nat :
        d = Done /\ meant \in Seq(Commands) /\ Behind(meant, d, n) /\ Len(meant) = d + n
  BY WaitingIs
<1>3. meant' = Append(meant, w)
  BY DEF Start
<1>4. Done' = Done
  <2>1. \A i \in 1 .. d + n : Append(meant, w)[i] = meant[i]
    BY <1>1, <1>2, AppendProperties
  <2>2. \A i \in 1 .. d : i \in 1 .. d + n
    OBVIOUS
  <2>3. \A i \in 1 .. Done : meant'[i].cut = meant[i].cut
    BY <1>2, <1>3, <2>1, <2>2
  <2> QED
    BY <2>3, DoneSame
<1>5. From(Append(meant, w), d) = Append(From(meant, d), w)
  BY ONLY <1>1, <1>2, FromMore
<1> QED
  BY <1>2, <1>3, <1>4, <1>5 DEF Waiting

\* A command whose write is abandoned is the last of those that wait.
LEMMA AbandonStep ==
    ASSUME DoneAt, DoneAt', Cut
    PROVE  /\ Waiting # <<>> /\ ~Waiting[Len(Waiting)].cut
           /\ \/ Waiting' = SubSeq(Waiting, 1, Len(Waiting) - 1)
              \/ Waiting' = Marked(Waiting, Len(Waiting))
<1>1. PICK d \in Nat, k \in Nat :
        /\ d = Done /\ meant \in Seq(Commands) /\ Behind(meant, d, k)
        /\ Len(meant) = d + k /\ Len(Waiting) = k
        /\ \A i \in 1 .. k : Waiting[i] = meant[d + i]
  BY WaitingIs
<1>2. Done < Len(meant) /\ ~meant[Len(meant)].cut /\ todo # <<>> /\ UNCHANGED read
  BY DEF DoneAt, Cut
<1>3. PICK n \in Nat : k = n + 1 /\ k - 1 = n /\ Len(meant) - 1 = d + n /\ k # 0 /\ k \in 1 .. k
  <2>1. k > 0
    BY <1>1, <1>2
  <2>2. k - 1 \in Nat /\ k = (k - 1) + 1 /\ d + k - 1 = d + (k - 1) /\ k # 0 /\ k \in 1 .. k
    BY <2>1
  <2> QED
    BY <1>1, <2>2
<1>4. Waiting # <<>> /\ ~Waiting[Len(Waiting)].cut
  BY <1>1, <1>2, <1>3
<1> PICK N : N = meant'
  OBVIOUS
<1>5. CASE N = SubSeq(meant, 1, d + n)
  <2>1. Done' = Done
    <3>1. \A i \in 1 .. d : N[i] = meant[i]
      BY <1>1, <1>3, <1>5
    <3> QED
      BY <1>1, <1>2, <3>1, DoneSame
  <2>2. From(N, d) = SubSeq(From(meant, d), 1, n)
    <3>1. LastTaken(meant, d, n, N)
      BY <1>1, <1>3, <1>5 DEF LastTaken
    <3> QED
      BY ONLY <3>1, FromLess
  <2>3. Waiting' = SubSeq(Waiting, 1, n)
    BY <1>1, <2>1, <2>2 DEF Waiting
  <2> QED
    BY <1>1, <1>3, <1>4, <2>3
<1>6. CASE N = Marked(meant, d + k)
  <2>1. Done' = Done
    <3>1. \A i \in 1 .. d : i # d + k
      BY <1>3
    <3>2. \A i \in 1 .. d : N[i] = meant[i]
      BY <1>1, <1>3, <1>6, <3>1 DEF Marked
    <3> QED
      BY <1>1, <1>2, <3>2, DoneSame
  <2>2. From(N, d) = Marked(From(meant, d), k)
    <3>1. LastMarked(meant, d, k, N)
      BY <1>1, <1>3, <1>6 DEF LastMarked
    <3> QED
      BY ONLY <3>1, FromShort
  <2>3. Waiting' = Marked(Waiting, k)
    BY <1>1, <2>1, <2>2 DEF Waiting
  <2> QED
    BY <1>1, <1>4, <2>3
<1>7. N = SubSeq(meant, 1, d + n) \/ N = Marked(meant, d + k)
  BY <1>1, <1>3 DEF Cut, Front, Marked
<1> QED
  BY <1>4, <1>5, <1>6, <1>7

\* What is read in the line of the first n commands that wait.
Reads(n, cmd) ==
    /\ (n = 1 /\ Waiting[1].cmd \notin Doubtful) => cmd = Waiting[1].cmd
    /\ (n > 1 /\ Waiting[1].cmd \in EverSent) => cmd = Unknown

\* A line is that of the commands up to the next whole one.
LEMMA ReadStep ==
    ASSUME Typed, Typed', DoneAt, DoneAt', Newest', ReadLine
    PROVE  \E n \in 1 .. Len(Waiting) :
              /\ ~Waiting[n].cut /\ \A i \in 1 .. n - 1 : Waiting[i].cut
              /\ Waiting' = SubSeq(Waiting, n + 1, Len(Waiting))
              /\ Len(read') = Len(read) + 1 /\ SubSeq(read', 1, Len(read') - 1) = read
              /\ Reads(n, read'[Len(read')])
<1>1. PICK d \in Nat, l \in Nat :
        /\ d = Done /\ meant \in Seq(Commands) /\ Behind(meant, d, l)
        /\ Len(meant) = d + l /\ Len(Waiting) = l
        /\ \A i \in 1 .. l : Waiting[i] = meant[d + i]
  BY WaitingIs
<1>2. UNCHANGED meant
  BY DEF ReadLine
<1>3. Len(read') = Len(read) + 1 /\ SubSeq(read', 1, Len(read') - 1) = read /\ read' # <<>>
  <2>1. PICK c : read' = Append(read, c)
    BY DEF ReadLine
  <2>2. PICK r \in Nat : r = Len(read) /\ read \in Seq(Readable \cup {c})
    <3>1. read \in Seq(Readable)
      BY DEF Typed
    <3>2. read \in Seq(Readable \cup {c})
      BY <3>1, SeqMonotonic
    <3> QED
      BY <3>2, LenProperties
  <2>3. PICK q : q = read'
    OBVIOUS
  <2>4. q \in Seq(Readable \cup {c}) /\ Len(q) = r + 1 /\ q # <<>> /\ \A i \in 1 .. r : q[i] = read[i]
    BY <2>1, <2>2, <2>3, AppendProperties
  <2>5. PICK x : x = SubSeq(q, 1, r)
    OBVIOUS
  <2>6. x \in Seq(Readable \cup {c}) /\ Len(x) = r /\ \A i \in 1 .. r : x[i] = q[i]
    BY <2>4, <2>5
  <2>7. x = read
    BY <2>2, <2>4, <2>6, SeqEqual
  <2>8. r + 1 - 1 = r
    OBVIOUS
  <2> QED
    BY <2>2, <2>3, <2>4, <2>5, <2>7, <2>8
<1>4. Done < Done' /\ ~meant[Done'].cut /\ \A k \in Done + 1 .. Done' - 1 : meant[k].cut
  BY <1>2, <1>3, DoneMore
<1>5. PICK e \in Nat : e = Done' /\ d < e /\ e <= d + l
  <2>1. Done' \in 0 .. d + l
    BY <1>1, <1>2 DEF DoneAt
  <2> QED
    BY <1>1, <1>4, <2>1
<1>6. PICK n \in Nat, k \in Nat : e = d + n /\ l = n + k /\ n > 0 /\ n \in 1 .. l
  <2>0. d < e /\ e <= d + l
    BY <1>5
  <2>1. e - d \in Nat /\ d + l - e \in Nat
    BY ONLY d \in Nat, l \in Nat, e \in Nat, <2>0
  <2>2. e = d + (e - d) /\ l = (e - d) + (d + l - e)
    BY ONLY d \in Nat, l \in Nat, e \in Nat
  <2>3. e - d > 0 /\ e - d \in 1 .. l
    BY ONLY d \in Nat, l \in Nat, e \in Nat, <2>0
  <2> QED
    BY <2>1, <2>2, <2>3
<1>7. Waiting' = SubSeq(Waiting, n + 1, l)
  <2>1. From(meant, e) = From(From(meant, d), n)
    <3>1. SomeRead(meant, d, l, e, n)
      BY <1>1, <1>6 DEF SomeRead
    <3> QED
      BY ONLY <3>1, FromRest
  <2>2. Waiting' = From(Waiting, n)
    BY <1>1, <1>2, <1>5, <2>1 DEF Waiting
  <2> QED
    BY <1>1, <2>2 DEF From
<1>8. ~Waiting[n].cut /\ \A i \in 1 .. n - 1 : Waiting[i].cut
  <2>1. ~Waiting[n].cut
    BY <1>1, <1>4, <1>5, <1>6
  <2>2. \A i \in 1 .. n - 1 : i \in 1 .. l /\ d + i \in d + 1 .. e - 1
    BY ONLY d \in Nat, n \in Nat, k \in Nat, <1>6
  <2>3. \A i \in 1 .. n - 1 : Waiting[i].cut
    BY <1>1, <1>4, <1>5, <2>2
  <2> QED
    BY <2>1, <2>3
<1>9. Reads(n, read'[Len(read')])
  <2>1. PICK b \in 1 .. e : b = d + 1
    BY <1>6
  <2>2. (\A i \in b .. e - 1 : meant[i].cut) /\ (b = 1 \/ ~meant[b - 1].cut)
    <3>1. \A i \in b .. e - 1 : meant[i].cut
      BY <1>1, <1>4, <1>5, <2>1
    <3>2. b - 1 = d /\ (d = 0 => b = 1)
      BY <2>1
    <3>3. d > 0 => ~meant[d].cut
      BY <1>1 DEF DoneAt
    <3> QED
      BY <3>1, <3>2, <3>3
  <2>3. /\ (b = e /\ meant[b].cmd \notin Doubtful) => read'[Len(read')] = meant[b].cmd
        /\ (b < e /\ meant[b].cmd \in EverSent) => read'[Len(read')] = Unknown
    BY <1>2, <1>3, <1>5, <2>1, <2>2 DEF Newest
  <2>4. Waiting[1] = meant[b]
    <3>1. 1 \in 1 .. l
      BY <1>6
    <3> QED
      BY <1>1, <2>1, <3>1
  <2>5. (n = 1 => b = e) /\ (n > 1 => b < e)
    BY <1>6, <2>1
  <2> QED
    BY <2>3, <2>4, <2>5 DEF Reads
<1> QED
  BY <1>1, <1>3, <1>6, <1>7, <1>8, <1>9

\* A step of the session is one of the stream of commands, or none.
LEMMA StepInOrder ==
    ASSUME TextInv, TextInv', Issued, Issued', [Next]_vars
    PROVE  \/ \E cmd \in Known : Waiting' = Append(Waiting, [cmd |-> cmd, cut |-> FALSE]) /\ UNCHANGED read
           \/ /\ Waiting # <<>> /\ ~Waiting[Len(Waiting)].cut
              /\ \/ Waiting' = SubSeq(Waiting, 1, Len(Waiting) - 1)
                 \/ Waiting' = Marked(Waiting, Len(Waiting))
              /\ UNCHANGED read
           \/ \E n \in 1 .. Len(Waiting) :
                 /\ ~Waiting[n].cut /\ \A i \in 1 .. n - 1 : Waiting[i].cut
                 /\ Waiting' = SubSeq(Waiting, n + 1, Len(Waiting))
                 /\ Len(read') = Len(read) + 1 /\ SubSeq(read', 1, Len(read') - 1) = read
                 /\ Reads(n, read'[Len(read')])
           \/ UNCHANGED <<Waiting, read>>
<1>1. DoneAt /\ DoneAt' /\ Typed /\ Typed'
  BY DoneIs, DoneNext DEF TextInv
<1>2. CASE Ehlo
  <2>1. PICK cmd \in Known : Start(cmd)
    BY <1>2 DEF Ehlo, Known
  <2>2. UNCHANGED read
    BY <1>2 DEF Ehlo
  <2> QED
    BY <1>1, <2>1, <2>2, WriteStep
<1>3. CASE Issue
  <2>1. PICK cmd \in Known : Start(cmd)
    BY <1>3, SendEverSent DEF Issue, Known
  <2>2. UNCHANGED read
    BY <1>3 DEF Issue
  <2> QED
    BY <1>1, <2>1, <2>2, WriteStep
<1>4. CASE Cut
  <2>1. UNCHANGED read
    BY <1>4 DEF Cut
  <2>2. /\ Waiting # <<>> /\ ~Waiting[Len(Waiting)].cut
        /\ \/ Waiting' = SubSeq(Waiting, 1, Len(Waiting) - 1)
           \/ Waiting' = Marked(Waiting, Len(Waiting))
    BY ONLY <1>1, <1>4, AbandonStep
  <2> QED
    BY ONLY <2>1, <2>2
<1>5. CASE ReadLine
  <2>1. Newest'
    BY NewestReadNext
  <2> QED
    BY <1>1, <1>5, <2>1, ReadStep
<1>6. CASE UNCHANGED <<meant, read>>
  <2>1. Done' = Done
    BY <1>6 DEF Done, Ender, Whole
  <2> QED
    BY <1>6, <2>1 DEF Waiting, From
<1>7. CASE ReadEhloReply \/ Flow \/ Finished \/ UNCHANGED vars
  BY <1>6, <1>7 DEF ReadEhloReply, Flow, Finished, vars
<1> QED
  BY <1>2, <1>3, <1>4, <1>5, <1>7 DEF Next

\* The commands up to the n-th that waits are a line, if it is the first whole one.
LEMMA LineWaits ==
    ASSUME NEW W \in Seq(Commands), NEW n \in 1 .. Len(W), ~W[n].cut, \A i \in 1 .. n - 1 : W[i].cut,
           NEW line, line = SubSeq(W, 1, n)
    PROVE  Len(line) = n /\ line[1] = W[1] /\ Stream!IsLine(line)
<1>1. line \in Seq(Commands) /\ Len(line) = n /\ \A i \in 1 .. n : line[i] = W[i]
  BY LenProperties
<1>2. n \in Nat /\ n \in 1 .. n /\ 1 \in 1 .. n /\ n # 0 /\ \A i \in 1 .. n - 1 : i \in 1 .. n
  BY LenProperties
<1>3. line # <<>>
  BY <1>1, <1>2, EmptySeq
<1>4. ~line[n].cut /\ line[1] = W[1] /\ \A i \in 1 .. n - 1 : line[i].cut
  BY <1>1, <1>2
<1> QED
  BY <1>1, <1>3, <1>4 DEF Stream!IsLine, Stream!Last

\* Whatever pieces the text is handed over in, wherever a write is abandoned and whatever
\* is written next, the server reads commands in the order in which they were written:
\* each line is that of one command, or of some abandoned ones and the next whole one.
\* A line of one command is read as that command, unless it is one a server may read as
\* another, and one that starts with an abandoned command of `send` is no command.  The
\* text that SmtpTransport writes implements the stream of commands SmtpServer reads from.
THEOREM CommandsInOrder == Spec => WholeCommands
<1>1. Init => Stream!Init
  <2> SUFFICES ASSUME Init PROVE Stream!Init
    OBVIOUS
  <2>1. meant = <<>> /\ read = <<>>
    BY DEF Init
  <2>2. Done = 0
    BY <2>1 DEF Done
  <2>3. Len(<<>>) = 0 /\ Done + 1 = 1
    BY <2>2, EmptySeq
  <2>4. SubSeq(meant, 1, 0) = <<>>
    BY SubSeqEmpty
  <2>5. SubSeq(meant, Done + 1, Len(meant)) = <<>>
    BY <2>1, <2>3, <2>4
  <2> QED
    BY <2>1, <2>5 DEF Stream!Init
<1>2. TextInv /\ TextInv' /\ Issued /\ Issued' /\ [Next]_vars => [Stream!Next]_(Stream!vars)
  <2> SUFFICES ASSUME TextInv, TextInv', Issued, Issued', [Next]_vars
               PROVE  [Stream!Next]_(Stream!vars)
    OBVIOUS
  <2>1. /\ Waiting = SubSeq(meant, Done + 1, Len(meant))
        /\ Waiting' = SubSeq(meant, Done + 1, Len(meant))'
    BY DEF Waiting, From
  <2>2. CASE \E cmd \in Known :
               Waiting' = Append(Waiting, [cmd |-> cmd, cut |-> FALSE]) /\ UNCHANGED read
    BY <2>1, <2>2, Zenon DEF Stream!Next, Stream!Write, Known
  <2>3. CASE /\ Waiting # <<>> /\ ~Waiting[Len(Waiting)].cut
             /\ \/ Waiting' = SubSeq(Waiting, 1, Len(Waiting) - 1)
                \/ Waiting' = Marked(Waiting, Len(Waiting))
             /\ UNCHANGED read
    BY <2>1, <2>3, Zenon DEF Stream!Next, Stream!Abandon, Stream!Front, Stream!Last, Marked
  <2>4. CASE \E n \in 1 .. Len(Waiting) :
               /\ ~Waiting[n].cut /\ \A i \in 1 .. n - 1 : Waiting[i].cut
               /\ Waiting' = SubSeq(Waiting, n + 1, Len(Waiting))
               /\ Len(read') = Len(read) + 1 /\ SubSeq(read', 1, Len(read') - 1) = read
               /\ Reads(n, read'[Len(read')])
    <3>1. PICK n \in 1 .. Len(Waiting) :
            /\ ~Waiting[n].cut /\ \A i \in 1 .. n - 1 : Waiting[i].cut
            /\ Waiting' = SubSeq(Waiting, n + 1, Len(Waiting))
            /\ Len(read') = Len(read) + 1 /\ SubSeq(read', 1, Len(read') - 1) = read
            /\ Reads(n, read'[Len(read')])
      BY <2>4
    <3>2. Waiting \in Seq(Commands)
      BY DoneIs, WaitingTyped
    <3>3. PICK line : line = SubSeq(Waiting, 1, n)
      OBVIOUS
    <3>4. Len(line) = n /\ line[1] = Waiting[1] /\ Stream!IsLine(line)
      BY <3>1, <3>2, <3>3, LineWaits
    <3>5. Stream!MayRead(line, Stream!Last(read'))
      BY <3>1, <3>4, Zenon DEF Reads, Stream!MayRead, Stream!Last
    <3>6. Stream!Front(read') = read
      BY <3>1 DEF Stream!Front
    <3>7. Stream!ReadLine
      BY <2>1, <3>1, <3>3, <3>4, <3>5, <3>6, Zenon DEF Stream!ReadLine
    <3> QED
      BY <3>7 DEF Stream!Next
  <2>5. CASE UNCHANGED <<Waiting, read>>
    BY <2>1, <2>5, Zenon DEF Stream!vars
  <2> QED
    BY <2>2, <2>3, <2>4, <2>5, StepInOrder
<1> QED
  BY <1>1, <1>2, InitText, InitIssued, TextKept, IssuedKept, PTL DEF Spec, WholeCommands, Stream!Spec

=============================================================================
