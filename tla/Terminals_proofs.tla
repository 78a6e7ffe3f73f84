--------------------------- MODULE Terminals_proofs ---------------------------
(***************************************************************************)
(* Proofs about what goes on at a terminal: tmux-warp, for any keys and    *)
(* number of matches; the job control of the launcher, for every number of *)
(* stops and every size of the channel; and the composition that TLC runs, *)
(* of these two and a restore.                                             *)
(***************************************************************************)
EXTENDS MCTerminals, RestorePanes_proofs, WellFoundedInduction, NaturalsInduction
-----------------------------------------------------------------------------
(* tmux-warp: every match has a label of its own, all of one length. *)

Less == {e \in Nat \X Nat : e[1] < e[2]}

LEMMA LessWellFounded == IsWellFoundedOn(Less, Nat)
  BY NatLessThanWellFounded DEF OpToRel, Less

LEMMA LeastExists ==
  ASSUME NEW S, S \subseteq Nat, S # {}
  PROVE  \E m \in S : \A k \in S : m <= k
<1>1. PICK m \in S : \A k \in S : ~(<<k, m>> \in Less)
  BY WFMin, LessWellFounded
<1>2. ASSUME NEW k \in Nat, NEW n \in Nat, k < n PROVE <<k, n>> \in Less
  BY <1>2 DEF Less
<1>3. \A k \in S : ~(k < m)
  BY <1>1, <1>2
<1> QED
  BY <1>3

\* Induction over a set of numbers.
LEMMA AllNumbers ==
  ASSUME NEW S, S \subseteq Nat, 0 \in S, \A n \in S : n + 1 \in S
  PROVE  S = Nat
<1> SUFFICES ASSUME Nat \ S # {} PROVE FALSE
  OBVIOUS
<1>1. PICK m \in Nat \ S : \A k \in Nat \ S : m <= k
  <2>1. Nat \ S \subseteq Nat
    OBVIOUS
  <2> QED
    BY <2>1, LeastExists
<1>2. m # 0 /\ m \in Nat
  BY <1>1
<1>3. m - 1 \in Nat /\ ~(m <= m - 1) /\ (m - 1) + 1 = m
  BY <1>2
<1>4. m - 1 \in S
  BY <1>1, <1>3
<1> QED
  BY <1>1, <1>3, <1>4

\* The loop of generateLabels, for its first n rounds.
Looped(g, n) ==
    DOMAIN g = 0..n /\ g[0] = Single /\ \A m \in 1..n : g[m] = Lengthen(g[m - 1])

LEMMA LoopedSame ==
  ASSUME NEW n \in Nat, NEW o \in Nat, NEW g, NEW h, Looped(g, n), Looped(h, o)
  PROVE  \A m \in Nat : m <= n /\ m <= o => g[m] = h[m]
<1> DEFINE S == {m \in Nat : m <= n /\ m <= o => g[m] = h[m]}
<1>1. 0 \in S
  BY DEF Looped
<1>2. ASSUME NEW m \in S PROVE m + 1 \in S
  <2> SUFFICES ASSUME m + 1 <= n, m + 1 <= o PROVE g[m + 1] = h[m + 1]
    OBVIOUS
  <2>1. m + 1 \in 1..n /\ m + 1 \in 1..o /\ (m + 1) - 1 = m /\ m <= n /\ m <= o
    OBVIOUS
  <2>2. g[m + 1] = Lengthen(g[m]) /\ h[m + 1] = Lengthen(h[m]) /\ g[m] = h[m]
    BY <2>1 DEF Looped
  <2> QED
    BY <2>2
<1>3. S \subseteq Nat
  OBVIOUS
<1> HIDE DEF S
<1>4. S = Nat
  BY <1>1, <1>2, <1>3, AllNumbers
<1> QED
  BY <1>4 DEF S

LEMMA LoopedSome == \A n \in Nat : \E g : Looped(g, n)
<1> DEFINE S == {n \in Nat : \E g : Looped(g, n)}
<1>1. 0 \in S
  <2>1. Looped([m \in 0..0 |-> Single], 0)
    BY DEF Looped
  <2> QED
    BY <2>1
<1>2. ASSUME NEW n \in S PROVE n + 1 \in S
  <2>1. PICK g : Looped(g, n)
    OBVIOUS
  <2> DEFINE h == [m \in 0..(n + 1) |-> IF m = n + 1 THEN Lengthen(g[n]) ELSE g[m]]
  <2>2. h[0] = Single /\ DOMAIN h = 0..(n + 1)
    BY <2>1 DEF Looped
  <2>3. ASSUME NEW m \in 1..(n + 1) PROVE h[m] = Lengthen(h[m - 1])
    <3>1. m - 1 \in 0..(n + 1) /\ m - 1 # n + 1 /\ m \in 0..(n + 1)
      OBVIOUS
    <3>2. h[m - 1] = g[m - 1]
      BY <3>1
    <3>3. CASE m = n + 1
      BY <3>1, <3>2, <3>3
    <3>4. CASE m # n + 1
      <4>1. m \in 1..n
        BY <3>4
      <4> QED
        BY <2>1, <3>1, <3>2, <3>4, <4>1 DEF Looped
    <3> QED
      BY <3>3, <3>4
  <2> HIDE DEF h
  <2>4. Looped(h, n + 1)
    BY <2>2, <2>3 DEF Looped
  <2> QED
    BY <2>4
<1>3. S \subseteq Nat
  OBVIOUS
<1> HIDE DEF S
<1>4. S = Nat
  BY <1>1, <1>2, <1>3, AllNumbers
<1> QED
  BY <1>4 DEF S

\* There is a function that Labels' equation is true of, so Labels is one.
LEMMA LoopExists == \E f : f = [r \in Nat |-> IF r = 0 THEN Single ELSE Lengthen(f[r - 1])]
<1> DEFINE G(n) == CHOOSE g : Looped(g, n)
           f == [n \in Nat |-> G(n)[n]]
<1>1. ASSUME NEW n \in Nat PROVE Looped(G(n), n)
  BY LoopedSome
<1>2. ASSUME NEW r \in Nat PROVE f[r] = IF r = 0 THEN Single ELSE Lengthen(f[r - 1])
  <2>1. CASE r = 0
    BY <1>1, <2>1 DEF Looped
  <2>2. CASE r # 0
    <3>1. r - 1 \in Nat /\ r \in 1..r /\ r - 1 <= r /\ r - 1 <= r - 1
      BY <2>2
    <3>2. G(r)[r] = Lengthen(G(r)[r - 1])
      BY <1>1, <3>1 DEF Looped
    <3>3. G(r)[r - 1] = G(r - 1)[r - 1]
      <4>1. Looped(G(r), r) /\ Looped(G(r - 1), r - 1)
        BY <1>1, <3>1
      <4> HIDE DEF G
      <4> QED
        BY <3>1, <4>1, LoopedSame
    <3> QED
      BY <2>2, <3>1, <3>2, <3>3
  <2> QED
    BY <2>1, <2>2
<1> HIDE DEF G
<1>3. f = [r \in Nat |-> IF r = 0 THEN Single ELSE Lengthen(f[r - 1])]
  BY <1>2
<1> QED
  BY <1>3

LEMMA LabelsLoop ==
  /\ Labels[0] = Single
  /\ \A r \in Nat : Labels[r + 1] = Lengthen(Labels[r])
<1>1. Labels = [r \in Nat |-> IF r = 0 THEN Single ELSE Lengthen(Labels[r - 1])]
  BY LoopExists DEF Labels
<1>2. ASSUME NEW r \in Nat PROVE Labels[r + 1] = Lengthen(Labels[r])
  <2>1. r + 1 \in Nat /\ r + 1 # 0 /\ (r + 1) - 1 = r
    OBVIOUS
  <2> QED
    BY <1>1, <2>1
<1> QED
  BY <1>1, <1>2

\* Labels of one length l, made of keys, and no two the same.
OneLength(s, l) ==
    /\ s \in Seq(Seq(Key))
    /\ \A i \in 1..Len(s) : Len(s[i]) = l
    /\ \A i, j \in 1..Len(s) : s[i] = s[j] => i = j

LEMMA AppendFacts ==
  ASSUME NEW S, NEW s \in Seq(S), NEW k \in S
  PROVE  /\ Append(s, k) \in Seq(S) /\ Len(Append(s, k)) = Len(s) + 1
         /\ \A j \in 1..Len(s) : Append(s, k)[j] = s[j]
         /\ Append(s, k)[Len(s) + 1] = k
  OBVIOUS

LEMMA AppendSame ==
  ASSUME NEW S, NEW s \in Seq(S), NEW t \in Seq(S), NEW j \in S, NEW k \in S,
         Append(s, j) = Append(t, k)
  PROVE  s = t /\ j = k
<1>1. Len(s) = Len(t) /\ Len(s) \in Nat
  <2>1. Len(s) + 1 = Len(t) + 1 /\ Len(s) \in Nat /\ Len(t) \in Nat
    BY AppendFacts
  <2> QED
    BY <2>1
<1>2. j = k
  BY <1>1, AppendFacts
<1>3. \A i \in 1..Len(s) : s[i] = t[i]
  BY <1>1, AppendFacts
<1> QED
  BY <1>1, <1>2, <1>3, SeqEqual

LEMMA KeyAt ==
  ASSUME NEW i \in 1..KeyCount
  PROVE  LabelKeys[i] \in Key
  BY DEF Key

LEMMA SingleLabels == OneLength(Single, 1) /\ Len(Single) = KeyCount
<1>1. KeyCount \in Nat
  BY WarpAssumption DEF KeyCount
<1>2. \A i \in 1..KeyCount : <<LabelKeys[i]>> \in Seq(Key)
  BY KeyAt
<1>3. Single \in Seq(Seq(Key)) /\ Len(Single) = KeyCount /\ \A i \in 1..KeyCount : Single[i] = <<LabelKeys[i]>>
  BY <1>1, <1>2 DEF Single
<1>4. ASSUME NEW i \in 1..KeyCount PROVE Len(Single[i]) = 1 /\ Single[i][1] = LabelKeys[i]
  <2>1. Single[i] = <<LabelKeys[i]>>
    BY <1>3
  <2>2. Len(<<LabelKeys[i]>>) = 1 /\ <<LabelKeys[i]>>[1] = LabelKeys[i]
    OBVIOUS
  <2> QED
    BY <2>1, <2>2, Zenon
<1>5. \A i, j \in 1..KeyCount : Single[i] = Single[j] => i = j
  BY <1>4, WarpAssumption
<1> QED
  BY <1>3, <1>4, <1>5 DEF OneLength

\* The ith of a round's labels, from what label and with what key.
LEMMA Places ==
  ASSUME NEW m \in Nat, NEW i \in 1..(m * KeyCount)
  PROVE  /\ ((i - 1) \div KeyCount) + 1 \in 1..m /\ ((i - 1) % KeyCount) + 1 \in 1..KeyCount
         /\ i = KeyCount * ((i - 1) \div KeyCount) + ((i - 1) % KeyCount) + 1
<1> DEFINE k == KeyCount
           q == (i - 1) \div k
           r == (i - 1) % k
<1>1. k \in Nat /\ k > 1
  BY WarpAssumption DEF KeyCount
<1>a. i \in 1..(m * k)
  OBVIOUS
<1> HIDE DEF k
<1>2. i - 1 \in Nat /\ i - 1 < m * k
  <2>1. m * k \in Nat
    BY <1>1
  <2> QED
    BY <1>a, <2>1
<1>3. q \in Nat /\ r \in 0..(k - 1) /\ i - 1 = k * q + r
  BY <1>1, <1>2
<1> HIDE DEF q, r
<1>4. q < m
  BY <1>1, <1>2, <1>3
<1>5. q + 1 \in 1..m /\ r + 1 \in 1..k /\ i = k * q + r + 1
  <2>1. k * q \in Nat
    BY <1>1, <1>3
  <2> HIDE DEF k
  <2> QED
    BY <1>1, <1>3, <1>4, <2>1
<1> QED
  BY <1>5 DEF k, q, r

LEMMA LengthenLabels ==
  ASSUME NEW s, NEW l \in Nat, OneLength(s, l)
  PROVE  OneLength(Lengthen(s), l + 1) /\ Len(Lengthen(s)) = Len(s) * KeyCount
<1> DEFINE t == Lengthen(s)
           n == Len(s) * KeyCount
           Of(i) == ((i - 1) \div KeyCount) + 1
           By(i) == ((i - 1) % KeyCount) + 1
<1>1. s \in Seq(Seq(Key)) /\ Len(s) \in Nat /\ KeyCount \in Nat /\ n \in Nat
  BY WarpAssumption DEF OneLength, KeyCount
<1>2. ASSUME NEW i \in 1..n
      PROVE  /\ Of(i) \in 1..Len(s) /\ By(i) \in 1..KeyCount
             /\ i = KeyCount * (Of(i) - 1) + (By(i) - 1) + 1
  <2>1. /\ Of(i) \in 1..Len(s) /\ By(i) \in 1..KeyCount
        /\ i = KeyCount * ((i - 1) \div KeyCount) + ((i - 1) % KeyCount) + 1
    BY <1>1, Places
  <2>2. Of(i) - 1 = (i - 1) \div KeyCount /\ By(i) - 1 = (i - 1) % KeyCount
    BY <1>1, <2>1
  <2> QED
    BY <2>1, <2>2
<1>3. \A i \in 1..n : s[Of(i)] \in Seq(Key) /\ Len(s[Of(i)]) = l /\ LabelKeys[By(i)] \in Key
  BY <1>1, <1>2, KeyAt DEF OneLength
<1>4. t = [i \in 1..n |-> Append(s[Of(i)], LabelKeys[By(i)])]
  BY DEF Lengthen
<1> HIDE DEF t, n, Of, By
<1>5. ASSUME NEW i \in 1..n
      PROVE  t[i] = Append(s[Of(i)], LabelKeys[By(i)]) /\ t[i] \in Seq(Key) /\ Len(t[i]) = l + 1
  BY <1>3, <1>4, AppendFacts
<1>6. t \in Seq(Seq(Key)) /\ Len(t) = n
  BY <1>1, <1>4, <1>5
<1>7. ASSUME NEW i \in 1..n, NEW j \in 1..n, t[i] = t[j] PROVE i = j
  <2>a. Append(s[Of(i)], LabelKeys[By(i)]) = Append(s[Of(j)], LabelKeys[By(j)])
    BY <1>5, <1>7
  <2>b. /\ s[Of(i)] \in Seq(Key) /\ s[Of(j)] \in Seq(Key)
        /\ LabelKeys[By(i)] \in Key /\ LabelKeys[By(j)] \in Key
    BY <1>3
  <2>1. s[Of(i)] = s[Of(j)] /\ LabelKeys[By(i)] = LabelKeys[By(j)]
    BY <2>a, <2>b, AppendSame
  <2>2. Of(i) = Of(j) /\ By(i) = By(j)
    BY <1>2, <2>1, WarpAssumption DEF OneLength
  <2> QED
    BY <1>2, <2>2
<1>8. OneLength(t, l + 1)
  BY <1>5, <1>6, <1>7 DEF OneLength
<1> QED
  BY <1>6, <1>8 DEF t, n

\* After r rounds the labels are r + 1 keys long, and there are more of them
\* than that.
LEMMA LabelsDiffer ==
  \A r \in Nat : OneLength(Labels[r], r + 1) /\ Len(Labels[r]) >= r + 2
<1> DEFINE S == {r \in Nat : OneLength(Labels[r], r + 1) /\ Len(Labels[r]) >= r + 2}
<1>1. 0 \in S
  <2>1. KeyCount \in Nat /\ KeyCount >= 2
    BY WarpAssumption DEF KeyCount
  <2>2. OneLength(Labels[0], 0 + 1) /\ Len(Labels[0]) = KeyCount
    BY LabelsLoop, SingleLabels
  <2> QED
    BY <2>1, <2>2
<1>2. ASSUME NEW r \in S PROVE r + 1 \in S
  <2>1. OneLength(Labels[r + 1], (r + 1) + 1) /\ Len(Labels[r + 1]) = Len(Labels[r]) * KeyCount
    <3>1. r \in Nat /\ r + 1 \in Nat /\ Labels[r + 1] = Lengthen(Labels[r])
      BY LabelsLoop
    <3> QED
      BY <3>1, LengthenLabels
  <2>2. Len(Labels[r]) \in Nat /\ Len(Labels[r]) >= r + 2 /\ KeyCount \in Nat /\ KeyCount >= 2 /\ r \in Nat
    BY WarpAssumption DEF OneLength, KeyCount
  <2>3. Len(Labels[r]) * KeyCount >= Len(Labels[r]) + 1
    <3> DEFINE m == Len(Labels[r])
               k == KeyCount
    <3>1. m \in Nat /\ k \in Nat /\ k >= 2 /\ m >= 1
      BY <2>2
    <3> HIDE DEF m, k
    <3>2. m * k >= m + 1
      BY <3>1
    <3> QED
      BY <3>2 DEF m, k
  <2>4. Len(Labels[r + 1]) >= (r + 1) + 2
    BY <2>1, <2>2, <2>3
  <2> QED
    BY <2>1, <2>4
<1>3. S \subseteq Nat
  OBVIOUS
<1> HIDE DEF S
<1>4. S = Nat
  BY <1>1, <1>2, <1>3, AllNumbers
<1> QED
  BY <1>4 DEF S

LEMMA RoundOf ==
  ASSUME NEW r \in Nat
  PROVE  OneLength(Labels[r], r + 1) /\ Len(Labels[r]) >= r + 2 /\ Len(Labels[r]) \in Nat
<1>1. OneLength(Labels[r], r + 1) /\ Len(Labels[r]) >= r + 2
  BY LabelsDiffer
<1>2. Labels[r] \in Seq(Seq(Key))
  BY <1>1 DEF OneLength
<1> QED
  BY <1>1, <1>2

\* The loop stops, and no later than when each label is as long as there are matches.
LEMMA RoundsEnough ==
  ASSUME NEW n \in Nat, n > 1
  PROVE  Rounds(n) \in Nat /\ Len(Labels[Rounds(n)]) >= n /\ Rounds(n) + 1 <= n
<1> DEFINE T == {r \in Nat : Len(Labels[r]) >= n}
<1>1. n \in T
  <2>1. Len(Labels[n]) >= n + 2 /\ Len(Labels[n]) \in Nat
    BY RoundOf
  <2> QED
    BY <2>1
<1>2. PICK r \in T : \A q \in T : r <= q
  <2>1. T \subseteq Nat /\ T # {}
    BY <1>1
  <2> HIDE DEF T
  <2> QED
    BY <2>1, LeastExists
<1>3. r \in 0..n /\ Len(Labels[r]) >= n
  BY <1>1, <1>2
<1>4. ASSUME NEW q \in 0..(r - 1) PROVE Len(Labels[q]) < n
  <2>1. q \in Nat /\ q \notin T
    BY <1>2, <1>3
  <2>2. Len(Labels[q]) \in Nat
    BY <2>1, RoundOf
  <2> QED
    BY <2>1, <2>2
<1>5. /\ Rounds(n) \in 0..n /\ Len(Labels[Rounds(n)]) >= n
      /\ \A q \in 0..(Rounds(n) - 1) : Len(Labels[q]) < n
  BY <1>3, <1>4 DEF Rounds
<1>6. Rounds(n) + 1 <= n
  <2>1. CASE Rounds(n) = 0
    BY <2>1
  <2>2. CASE Rounds(n) # 0
    <3> DEFINE q == Rounds(n) - 1
    <3>1. q \in 0..(Rounds(n) - 1) /\ q \in Nat /\ Rounds(n) = q + 1
      BY <1>5, <2>2
    <3>2. Len(Labels[q]) < n /\ Len(Labels[q]) >= q + 2 /\ Len(Labels[q]) \in Nat
      BY <1>5, <3>1, RoundOf
    <3> HIDE DEF q
    <3> QED
      BY <3>1, <3>2
  <2> QED
    BY <2>1, <2>2
<1> QED
  BY <1>5, <1>6

\* "All labels must be the same length so a single keypress never matches early":
\* of n matches, no two have the same label, and none is longer than n keys.
LEMMA OwnLabels ==
  ASSUME NEW n \in Nat, n > 1
  PROVE  \E l \in 1..n :
             /\ \A i \in 1..n : Label(i, n) \in Seq(Key) /\ Len(Label(i, n)) = l
             /\ \A i, j \in 1..n : Label(i, n) = Label(j, n) => i = j
<1> DEFINE r == Rounds(n)
           s == Labels[r]
<1>1. r \in Nat /\ Len(s) >= n /\ r + 1 <= n
  BY RoundsEnough
<1>2. OneLength(s, r + 1) /\ Len(s) \in Nat
  BY <1>1, RoundOf
<1>3. r + 1 \in 1..n /\ \A i \in 1..n : i \in 1..Len(s) /\ Label(i, n) = s[i]
  BY <1>1, <1>2 DEF Label
<1> HIDE DEF r, s
<1>4. \A i \in 1..n : Label(i, n) \in Seq(Key) /\ Len(Label(i, n)) = r + 1
  BY <1>2, <1>3 DEF OneLength
<1>5. \A i, j \in 1..n : Label(i, n) = Label(j, n) => i = j
  BY <1>2, <1>3 DEF OneLength
<1> QED
  BY <1>3, <1>4, <1>5
-----------------------------------------------------------------------------
(* tmux-warp: a run. *)

\* While a run collects a label, it holds less than one label, the first keys of the
\* one the user wants, and so does what it will read next; no key that is
\* older than its prompt is read.
RunInv ==
    wpc # "idle" =>
        /\ matches > 1 /\ want > 0 /\ jump = 0 /\ end = "none"
        /\ Len(label) < Len(Label(want, matches))
        /\ ~strayed => IsPrefix(label, Label(want, matches))
        /\ wpc = "poll" /\ option # NoKey /\ ~strayed =>
               IsPrefix(Append(label, option), Label(want, matches))
        /\ wpc \in {"unset", "open"} => ~prompt
        /\ wpc = "open" \/ (wpc = "poll" /\ prompt) => option = NoKey

WarpInv == WTypeOK /\ RunInv /\ LabelsLead

LEMMA PrefixWhole ==
  ASSUME NEW S, NEW s \in Seq(S), NEW t \in Seq(S), IsPrefix(s, t), Len(s) = Len(t)
  PROVE  s = t
<1>1. SubSeq(s, 1, Len(s)) = s /\ SubSeq(t, 1, Len(t)) = t
  BY SubSeqFull
<1> QED
  BY <1>1 DEF IsPrefix

LEMMA PrefixEmpty ==
  ASSUME NEW S, NEW t \in Seq(S)
  PROVE  IsPrefix(<<>>, t)
<1>1. Len(<<>>) = 0 /\ Len(t) \in Nat
  OBVIOUS
<1>2. SubSeq(<<>>, 1, 0) = <<>> /\ SubSeq(t, 1, 0) = <<>>
  BY SubSeqEmpty
<1> QED
  BY <1>1, <1>2 DEF IsPrefix

LEMMA WarpInit == WInit => WarpInv
<1> SUFFICES ASSUME WInit PROVE WarpInv
  OBVIOUS
<1>1. <<>> \in Seq(Key) /\ Len(<<>>) = 0 /\ MaxMatches \in Nat
  BY WarpAssumption
<1>2. WTypeOK
  <2>1. label \in Seq(Key) /\ Len(label) = 0
    BY <1>1 DEF WInit
  <2>2. Len(label) <= MaxMatches
    BY <1>1, <2>1
  <2>3. matches \in 0..MaxMatches /\ jump \in 0..matches /\ want \in 0..matches
    BY <1>1 DEF WInit
  <2> QED
    BY <2>1, <2>2, <2>3 DEF WInit, WTypeOK
<1> QED
  BY <1>2 DEF WInit, WarpInv, RunInv, LabelsLead

LEMMA QueryStep ==
  ASSUME WarpInv, NEW n \in 0..MaxMatches, NEW i \in 0..n, Query(n, i)
  PROVE  WarpInv'
<1>1. MaxMatches \in Nat /\ n \in Nat /\ n <= MaxMatches /\ <<>> \in Seq(Key) /\ Len(<<>>) = 0
  BY WarpAssumption
<1>2. /\ matches' = n /\ want' = i /\ label' = <<>> /\ strayed' = FALSE /\ prompt' = FALSE
      /\ jump' = (IF n = 1 THEN 1 ELSE 0) /\ option' = option
      /\ wpc' = (IF n > 1 THEN "unset" ELSE "idle")
      /\ end' = (IF n = 0 THEN "noMatch" ELSE IF n = 1 THEN "jumped" ELSE "none")
      /\ (n = 0 /\ i = 0) \/ i \in 1..n
  BY <1>1 DEF Query
<1>3. WTypeOK'
  <2>1. label' \in Seq(Key) /\ Len(label') = 0
    BY <1>1, <1>2
  <2>2. Len(label') <= MaxMatches
    BY <1>1, <2>1
  <2>3. matches' \in 0..MaxMatches /\ jump' \in 0..matches' /\ want' \in 0..matches'
    BY <1>1, <1>2
  <2>4. /\ wpc' \in {"idle", "unset"} /\ end' \in {"none", "jumped", "noMatch"}
        /\ prompt' \in BOOLEAN /\ strayed' \in BOOLEAN /\ option' \in Key \cup {NoKey}
    BY <1>2 DEF WTypeOK, WarpInv
  <2> QED
    BY <2>1, <2>2, <2>3, <2>4 DEF WTypeOK
<1>4. LabelsLead'
  BY <1>1, <1>2 DEF LabelsLead
<1>5. ASSUME n > 1 PROVE Len(<<>>) < Len(Label(i, n)) /\ IsPrefix(<<>>, Label(i, n))
  <2>1. i \in 1..n
    BY <1>2, <1>5
  <2>2. Label(i, n) \in Seq(Key) /\ Len(Label(i, n)) \in 1..n
    BY <1>1, <1>5, <2>1, OwnLabels
  <2> QED
    BY <1>1, <2>2, PrefixEmpty
<1>6. RunInv'
  BY <1>1, <1>2, <1>5 DEF RunInv
<1> QED
  BY <1>3, <1>4, <1>6 DEF WarpInv

\* A run reads a key.
LEMMA ReadStep ==
  ASSUME WarpInv, Pick \/ GoOn \/ NoMatch
  PROVE  WarpInv'
<1> DEFINE c == Append(label, option)
           n == matches
<1>1. /\ wpc = "poll" /\ option # NoKey /\ label' = c
      /\ n' = n /\ option' = option /\ prompt' = prompt /\ want' = want /\ strayed' = strayed
  BY DEF Pick, GoOn, NoMatch, ReadOption
<1>2. /\ n \in Nat /\ n <= MaxMatches /\ n > 1 /\ want \in 1..n /\ MaxMatches \in Nat
      /\ label \in Seq(Key) /\ option \in Key
      /\ ~prompt /\ jump = 0 /\ end = "none"
      /\ ~strayed => IsPrefix(c, Label(want, n))
  BY <1>1, WarpAssumption DEF WarpInv, WTypeOK, RunInv
<1>3. PICK l \in 1..n :
          /\ \A i \in 1..n : Label(i, n) \in Seq(Key) /\ Len(Label(i, n)) = l
          /\ \A i, j \in 1..n : Label(i, n) = Label(j, n) => i = j
  BY <1>2, OwnLabels
<1>4. c \in Seq(Key) /\ Len(c) = Len(label) + 1 /\ Len(label) \in Nat /\ Len(c) <= l
  <2>1. Len(label) < Len(Label(want, n)) /\ Len(Label(want, n)) = l
    BY <1>1, <1>2, <1>3 DEF WarpInv, RunInv
  <2> QED
    BY <1>2, <2>1, AppendFacts
<1>5. ASSUME NEW i \in 1..n, IsPrefix(c, Label(i, n)), c # Label(i, n) PROVE Len(c) < l
  <2>1. Len(c) # l
    BY <1>3, <1>4, <1>5, PrefixWhole
  <2> QED
    BY <1>3, <1>4, <2>1
<1>6. c \in Seq(Key) /\ Len(c) <= MaxMatches
  BY <1>2, <1>3, <1>4
<1>f. Found(label') = {i \in 1..n : Label(i, n) = c}
  BY <1>1 DEF Found
<1>b. Begun(label') = {i \in 1..n : IsPrefix(c, Label(i, n)) /\ c # Label(i, n)}
  BY <1>1 DEF Begun, IsStrictPrefix
<1>t. ASSUME wpc' \in {"idle", "unset"}, jump' \in 0..n, end' \in {"none", "jumped", "noMatch"} PROVE WTypeOK'
  BY <1>1, <1>2, <1>6, <1>t DEF WarpInv, WTypeOK
<1> HIDE DEF c
<1>7. CASE Pick
  <2>1. PICK a \in 1..n : Label(a, n) = c
    BY <1>7, <1>f DEF Pick
  <2>2. Found(label') = {a}
    BY <1>3, <1>f, <2>1
  <2>3. jump' = a /\ wpc' = "idle" /\ end' = "jumped"
    <3>1. jump' = CHOOSE i \in {a} : \A j \in {a} : i <= j
      BY <1>7, <2>2 DEF Pick
    <3> QED
      BY <1>7, <2>1, <3>1 DEF Pick
  <2>4. ~strayed => a = want
    <3> SUFFICES ASSUME ~strayed PROVE a = want
      OBVIOUS
    <3>1. IsPrefix(c, Label(want, n)) /\ Len(c) = Len(Label(want, n)) /\ Label(want, n) \in Seq(Key)
      BY <1>2, <1>3, <2>1
    <3>2. c = Label(want, n)
      BY <1>6, <3>1, PrefixWhole
    <3> QED
      BY <1>2, <1>3, <2>1, <3>2
  <2>5. WTypeOK'
    BY <1>2, <1>t, <2>1, <2>3
  <2> QED
    BY <1>1, <2>3, <2>4, <2>5 DEF WarpInv, RunInv, LabelsLead
<1>8. CASE GoOn
  <2>1. wpc' = "unset" /\ jump' = jump /\ end' = end
    BY <1>8 DEF GoOn
  <2>2. Len(c) < l
    <3>1. PICK b \in 1..n : IsPrefix(c, Label(b, n)) /\ c # Label(b, n)
      BY <1>8, <1>b DEF GoOn
    <3> QED
      BY <1>5, <3>1
  <2>3. Len(c) < Len(Label(want, n))
    BY <1>2, <1>3, <2>2
  <2>4. WTypeOK'
    BY <1>2, <1>t, <2>1
  <2>5. RunInv'
    BY <1>1, <1>2, <2>1, <2>3 DEF RunInv
  <2> QED
    BY <1>1, <1>2, <2>1, <2>4, <2>5 DEF WarpInv, LabelsLead
<1>9. CASE NoMatch
  <2>1. wpc' = "idle" /\ jump' = jump /\ end' = "noMatch"
    BY <1>9 DEF NoMatch
  <2>2. strayed
    <3>1. {i \in 1..n : Label(i, n) = c} = {} /\ {i \in 1..n : IsPrefix(c, Label(i, n)) /\ c # Label(i, n)} = {}
      BY <1>9, <1>f, <1>b DEF NoMatch
    <3> QED
      BY <1>2, <3>1
  <2>3. WTypeOK'
    BY <1>2, <1>t, <2>1
  <2> QED
    BY <1>1, <2>1, <2>2, <2>3 DEF WarpInv, RunInv, LabelsLead
<1> QED
  BY <1>7, <1>8, <1>9

LEMMA WarpStep == WarpInv /\ [WNext]_wvars => WarpInv'
<1> SUFFICES ASSUME WarpInv, [WNext]_wvars PROVE WarpInv'
  OBVIOUS
<1>1. ASSUME NEW n \in 0..MaxMatches, NEW i \in 0..n, Query(n, i) PROVE WarpInv'
  BY <1>1, QueryStep
<1>2. CASE Unset
  BY <1>2 DEF Unset, WarpInv, WTypeOK, RunInv, LabelsLead
<1>3. CASE OpenPrompt
  BY <1>3 DEF OpenPrompt, WarpInv, WTypeOK, RunInv, LabelsLead
<1>4. CASE Pick \/ GoOn \/ NoMatch
  BY <1>4, ReadStep
<1>5. CASE GiveUp
  BY <1>5 DEF GiveUp, WarpInv, WTypeOK, RunInv, LabelsLead
<1>6. ASSUME NEW k \in Key, Press(k) PROVE WarpInv'
  BY <1>6 DEF Press, WarpInv, WTypeOK, RunInv, LabelsLead
<1>7. CASE Dismiss
  BY <1>7 DEF Dismiss, WarpInv, WTypeOK, RunInv, LabelsLead
<1>8. CASE UNCHANGED wvars
  BY <1>8 DEF wvars, WarpInv, WTypeOK, RunInv, LabelsLead
<1> QED
  BY <1>1, <1>2, <1>3, <1>4, <1>5, <1>6, <1>7, <1>8 DEF WNext

LEMMA WarpInvariant == WSpec => []WarpInv
  BY WarpInit, WarpStep, PTL DEF WSpec

\* For any keys and any number of matches: a user who types the label of a match
\* gets to that match, whatever an earlier prompt left in the option.
THEOREM LabelsLeadToMatches == WSpec => []LabelsLead
<1>1. WarpInv => LabelsLead
  BY DEF WarpInv
<1> QED
  BY <1>1, WarpInvariant, PTL
-----------------------------------------------------------------------------
(* The launcher and its agent. *)

USE LaunchAssumption

\* Every variable of the launcher's job keeps its type.
THEOREM JobTypes == JSpec => []JTypeOK
<1>1. JInit => JTypeOK
  BY DEF JInit, JTypeOK
<1>2. JTypeOK /\ [JNext]_jvars => JTypeOK'
  <2> SUFFICES ASSUME JTypeOK, [JNext]_jvars PROVE JTypeOK'
    OBVIOUS
  <2> USE DEF JTypeOK, Runs, Stopped, Alive, Life, Fate, History
  <2>1. CASE AgentStops BY <2>1 DEF AgentStops
  <2>2. CASE CtrlZ BY <2>2 DEF CtrlZ, JobStops
  <2>3. CASE AgentReads BY <2>3 DEF AgentReads, JobStops
  <2>4. CASE AgentExits BY <2>4 DEF AgentExits
  <2>5. CASE KillAgent BY <2>5 DEF KillAgent, Ended
  <2>6. CASE Hangup BY <2>6 DEF Hangup, Caught
  <2>7. CASE KillLauncher BY <2>7 DEF KillLauncher, Caught
  <2>8. CASE StrayToLauncher BY <2>8 DEF StrayToLauncher
  <2>9. CASE StrayToAgent BY <2>9 DEF StrayToAgent, Continued
  <2>10. CASE ShellTakes BY <2>10 DEF ShellTakes
  <2>11. CASE Fg BY <2>11 DEF Fg, Continued
  <2>12. CASE Kernel BY <2>12 DEF Kernel, LauncherHalts, AgentHalts
  <2>13. CASE Pass BY <2>13 DEF Pass, Ended
  <2>14. CASE Launcher
    BY <2>14 DEF Launcher, Step, WaitStopped, WaitEnded, Check, IsStopped, StopSelf, ContinueAgent, Continued, Reap,
                 Drain, FinishRun
  <2>15. CASE UNCHANGED jvars BY <2>15 DEF jvars
  <2> QED
    BY <2>1, <2>2, <2>3, <2>4, <2>5, <2>6, <2>7, <2>8, <2>9, <2>10, <2>11, <2>12, <2>13, <2>14, <2>15 DEF JNext
<1> QED
  BY <1>1, <1>2, PTL DEF JSpec
-----------------------------------------------------------------------------
(***************************************************************************)
(* A hangup that ends the agent leaves its signal in the channel, and a    *)
(* signal that is passed on leaves killed; the launcher finishes only with *)
(* the channel empty.                                                      *)
(***************************************************************************)
AgentHere == Alive => step \in {"wait", "check", "stop", "continue"}

Told ==
    /\ (ending = "passed" \/ cause = "passed") => killed = "yes"
    /\ cause = "hangup" /\ step # "over" => killed = "yes" \/ sigs > 0
    /\ step = "finish" => sigs = 0
    /\ record # "none" => step = "over"

KillInv == AgentHere /\ Told /\ HangupIsKill

\* "SIGTERM and SIGHUP are passed on: a kill": an agent that its pane's end or
\* a signal passed on has ended is recorded as killed.
THEOREM HangupRecorded == JSpec => []HangupIsKill
<1>1. JInit => KillInv
  BY DEF JInit, KillInv, AgentHere, Alive, Runs, Stopped, Told, HangupIsKill
<1>2. JTypeOK /\ KillInv /\ [JNext]_jvars => KillInv'
  <2> SUFFICES ASSUME JTypeOK, KillInv, [JNext]_jvars PROVE KillInv'
    OBVIOUS
  <2> USE DEF JTypeOK, Runs, Stopped, Alive, Life, Fate, History, KillInv, AgentHere, Told, HangupIsKill
  <2>1. CASE AgentStops BY <2>1 DEF AgentStops
  <2>2. CASE CtrlZ BY <2>2 DEF CtrlZ, JobStops
  <2>3. CASE AgentReads BY <2>3 DEF AgentReads, JobStops
  <2>4. CASE AgentExits BY <2>4 DEF AgentExits
  <2>5. CASE KillAgent BY <2>5 DEF KillAgent, Ended
  <2>6. CASE Hangup BY <2>6 DEF Hangup, Caught
  <2>7. CASE KillLauncher BY <2>7 DEF KillLauncher, Caught
  <2>8. CASE StrayToLauncher BY <2>8 DEF StrayToLauncher
  <2>9. CASE StrayToAgent BY <2>9 DEF StrayToAgent, Continued
  <2>10. CASE ShellTakes BY <2>10 DEF ShellTakes
  <2>11. CASE Fg BY <2>11 DEF Fg, Continued
  <2>12. CASE Kernel BY <2>12 DEF Kernel, LauncherHalts, AgentHalts
  <2>13. CASE Pass BY <2>13 DEF Pass, Ended
  <2>14. CASE Launcher
    <3>1. CASE WaitStopped \/ WaitEnded BY <3>1 DEF WaitStopped, WaitEnded
    <3>2. CASE Check \/ StopSelf BY <3>2 DEF Step, Check, IsStopped, StopSelf
    <3>3. CASE ContinueAgent BY <3>3 DEF Step, ContinueAgent, Continued
    <3>4. CASE Reap \/ Drain BY <3>4 DEF Step, Reap, Drain
    <3>5. CASE FinishRun BY <3>5 DEF Step, FinishRun
    <3> QED BY <2>14, <3>1, <3>2, <3>3, <3>4, <3>5 DEF Launcher
  <2>15. CASE UNCHANGED jvars BY <2>15 DEF jvars
  <2> QED
    BY <2>1, <2>2, <2>3, <2>4, <2>5, <2>6, <2>7, <2>8, <2>9, <2>10, <2>11, <2>12, <2>13, <2>14, <2>15 DEF JNext
<1>3. KillInv => HangupIsKill
  BY DEF KillInv
<1> QED
  BY <1>1, <1>2, <1>3, JobTypes, PTL DEF JSpec
-----------------------------------------------------------------------------
(***************************************************************************)
(* Each stop that someone asked for and the shell has not answered yet     *)
(* still has the launcher stop at most once.  A launcher that runs stops   *)
(* for the agent's stop; one that is stopped, or about to be, has that     *)
(* stop ahead of it too when it was already past its check.                *)
(***************************************************************************)
AgentAsks == agent \in {"halting", "stopped"} \/ (agent = "read" /\ step = "check")

Owed ==
    IF launcher \in {"stopped", "halting"}
    THEN (IF tty = "job" THEN 1 ELSE 0) + (IF step = "stop" THEN 1 ELSE 0)
    ELSE IF step = "stop" \/ AgentAsks THEN 1 ELSE 0

StopInv ==
    strays = 0 =>
        /\ taken <= asked
        /\ tty = "shell" => launcher = "stopped"
        /\ tty # "gone" => taken + Owed <= asked

\* fg is not undone: the shell takes the terminal at most once for each time
\* someone stopped the agent or the job, unless others continue them.
THEOREM FgHolds == JSpec => []FgSticks
<1>1. JInit => StopInv
  BY DEF JInit, StopInv, Owed, AgentAsks
<1>2. JTypeOK /\ StopInv /\ [JNext]_jvars => StopInv'
  <2> SUFFICES ASSUME JTypeOK, StopInv, [JNext]_jvars PROVE StopInv'
    OBVIOUS
  <2> USE DEF JTypeOK, Runs, Stopped, Alive, Life, Fate, History, StopInv, Owed, AgentAsks
  <2>1. CASE AgentStops BY <2>1 DEF AgentStops
  <2>2. CASE CtrlZ BY <2>2 DEF CtrlZ, JobStops
  <2>3. CASE AgentReads BY <2>3 DEF AgentReads, JobStops
  <2>4. CASE AgentExits BY <2>4 DEF AgentExits
  <2>5. CASE KillAgent BY <2>5 DEF KillAgent, Ended
  <2>6. CASE Hangup BY <2>6 DEF Hangup, Caught
  <2>7. CASE KillLauncher BY <2>7 DEF KillLauncher, Caught
  <2>8. CASE StrayToLauncher BY <2>8 DEF StrayToLauncher
  <2>9. CASE StrayToAgent BY <2>9 DEF StrayToAgent
  <2>10. CASE ShellTakes BY <2>10 DEF ShellTakes
  <2>11. CASE Fg BY <2>11 DEF Fg, Continued
  <2>12. CASE Kernel BY <2>12 DEF Kernel, LauncherHalts, AgentHalts
  <2>13. CASE Pass BY <2>13 DEF Pass, Ended
  <2>14. CASE Launcher
    <3>1. CASE WaitStopped \/ WaitEnded BY <3>1 DEF WaitStopped, WaitEnded
    <3>2. CASE Check BY <3>2 DEF Step, Check, IsStopped
    <3>3. CASE StopSelf BY <3>3 DEF Step, StopSelf
    <3>4. CASE ContinueAgent BY <3>4 DEF Step, ContinueAgent, Continued
    <3>5. CASE Reap \/ Drain \/ FinishRun BY <3>5 DEF Step, Reap, Drain, FinishRun
    <3> QED BY <2>14, <3>1, <3>2, <3>3, <3>4, <3>5 DEF Launcher
  <2>15. CASE UNCHANGED jvars BY <2>15 DEF jvars
  <2> QED
    BY <2>1, <2>2, <2>3, <2>4, <2>5, <2>6, <2>7, <2>8, <2>9, <2>10, <2>11, <2>12, <2>13, <2>14, <2>15 DEF JNext
<1>3. StopInv => FgSticks
  BY DEF StopInv, FgSticks
<1> QED
  BY <1>1, <1>2, <1>3, JobTypes, PTL DEF JSpec
-----------------------------------------------------------------------------
(* The composition. *)

\* Each part of the composition behaves as its own specification says, so what is
\* proved of the parts is true of the run.
THEOREM PartsAreTheirOwn == MSpec => RSpec /\ JSpec /\ WSpec
<1>1. MInit => RInit /\ JInit /\ WInit
  BY DEF MInit
<1>2. [MNext]_<<part, vars, typing, jvars, wvars>> =>
          [RNext]_<<vars, typing>> /\ [JNext]_jvars /\ [WNext]_wvars
  BY DEF MNext
<1> QED
  BY <1>1, <1>2, PTL DEF MSpec, RSpec, JSpec, WSpec

\* Every variable of the three models keeps its type.
THEOREM TerminalTypes == MSpec => []TypesOK
<1>1. WarpInv => WTypeOK
  BY DEF WarpInv
<1>2. (TypeOK /\ TTypeOK) /\ JTypeOK /\ WTypeOK => TypesOK
  BY DEF TypesOK
<1> QED
  BY <1>1, <1>2, PartsAreTheirOwn, RestoreTypes, JobTypes, WarpInvariant, PTL
=============================================================================
