-------------------------- MODULE RestorePanes_proofs --------------------------
(***************************************************************************)
(* Proofs about a restore: about CreateWindows, for every number of        *)
(* commands, and about Typing on the panes it made.                        *)
(***************************************************************************)
EXTENDS RestorePanes, SequenceTheorems, TLAPS

\* What the lines so far say of the commands they stand for.
LinesTrue ==
    \A i \in 1..Len(lines) :
        /\ lines[i] \in {None, i}
        /\ lines[i] = i => made[i] = 1
        /\ lines[i] = None /\ calls = "answered" => i \in refused

\* The lines RunAll has printed follow those that are known.
OutFollows ==
    /\ Len(lines) + Len(out) <= N
    /\ \A i \in 1..Len(out) : out[i] = Len(lines) + i /\ made[Len(lines) + i] = 1

\* What has not run yet, and what may still run.
NotYet ==
    /\ \A i \in Commands : made[i] \in {0, 1}
    /\ phase = "all" =>
         /\ at = Len(lines) + Len(out) + 1
         /\ \A i \in Commands : i >= at => made[i] = 0
    /\ phase \in {"refused", "alone"} =>
         \A i \in Commands : i > Len(lines) + Len(out) => made[i] = 0
    /\ phase \in {"all", "refused", "alone"} => left[1] > left[2] /\ calls = "answered"
    /\ phase \in {"lost", "done"} => \A i \in Commands : i >= left[1] /\ i <= left[2] => made[i] = 0
    /\ phase = "lost" => calls = "lost"
    /\ phase \in {"alone", "done"} => Len(out) = 0
    /\ phase = "alone" => Len(lines) < N
    /\ phase = "done" => Len(lines) = N

\* The inductive invariant: TypeOK, and that what is known, has run and may
\* run are three ranges of commands that do not overlap.
IInv == TypeOK /\ LinesTrue /\ OutFollows /\ NotYet

USE CreateAssumption

\* A run of commands, as a sequence of lines.
LEMMA RunSeq ==
    ASSUME NEW a \in 1..(N + 1), NEW b \in (a - 1)..N
    PROVE  /\ Run(a, b) \in Seq(Commands)
           /\ Len(Run(a, b)) = b + 1 - a
           /\ \A i \in 1..(b + 1 - a) : Run(a, b)[i] = a + i - 1
<1>1. b + 1 - a \in Nat
  OBVIOUS
<1>2. \A i \in 1..(b + 1 - a) : a + i - 1 \in Commands
  BY DEF Commands
<1> QED
  BY <1>1, <1>2 DEF Run

\* What a sequence of lines is with more lines after it.
LEMMA Longer ==
    ASSUME NEW S, NEW s \in Seq(S), NEW t \in Seq(S)
    PROVE  /\ s \o t \in Seq(S) /\ Len(s \o t) = Len(s) + Len(t)
           /\ \A i \in 1..Len(s) : (s \o t)[i] = s[i]
           /\ \A i \in 1..Len(t) : (s \o t)[Len(s) + i] = t[i]
<1>1. /\ s \o t \in Seq(S) /\ Len(s \o t) = Len(s) + Len(t)
      /\ \A i \in 1..(Len(s) + Len(t)) :
             (s \o t)[i] = IF i <= Len(s) THEN s[i] ELSE t[i - Len(s)]
  BY ConcatProperties
<1>2. Len(s) \in Nat /\ Len(t) \in Nat
  OBVIOUS
<1>3. ASSUME NEW i \in 1..Len(s)
      PROVE  (s \o t)[i] = s[i]
  BY <1>1, <1>2
<1>4. ASSUME NEW i \in 1..Len(t)
      PROVE  (s \o t)[Len(s) + i] = t[i]
  <2>1. /\ Len(s) + i \in 1..(Len(s) + Len(t)) /\ ~(Len(s) + i <= Len(s))
        /\ (Len(s) + i) - Len(s) = i
    BY <1>2
  <2> QED
    BY <1>1, <2>1
<1> QED
  BY <1>1, <1>3, <1>4

\* The lines of a run that goes on from a to c.
LEMMA RunOn ==
    ASSUME NEW s \in Seq(Commands), NEW a \in 1..(N + 1), NEW c \in (a - 1)..N
    PROVE  /\ s \o Run(a, c) \in Seq(Commands)
           /\ Len(s \o Run(a, c)) = Len(s) + (c + 1 - a)
           /\ \A i \in 1..Len(s) : (s \o Run(a, c))[i] = s[i]
           /\ \A i \in 1..(c + 1 - a) : (s \o Run(a, c))[Len(s) + i] = a + i - 1
<1> DEFINE r == Run(a, c)
<1>1. /\ r \in Seq(Commands) /\ Len(r) = c + 1 - a
      /\ \A i \in 1..(c + 1 - a) : r[i] = a + i - 1
  BY RunSeq
<1> HIDE DEF r
<1>2. /\ s \o r \in Seq(Commands) /\ Len(s \o r) = Len(s) + Len(r)
      /\ \A i \in 1..Len(s) : (s \o r)[i] = s[i]
      /\ \A i \in 1..Len(r) : (s \o r)[Len(s) + i] = r[i]
  <2>1. r \in Seq(Commands)
    BY <1>1
  <2> QED
    BY <2>1, Longer, SMTT(30)
<1>3. Len(s \o r) = Len(s) + (c + 1 - a)
  BY <1>1, <1>2
<1>4. \A i \in 1..(c + 1 - a) : (s \o r)[Len(s) + i] = a + i - 1
  BY <1>1, <1>2
<1> QED
  BY <1>2, <1>3, <1>4 DEF r

\* Parts of the invariant that a longer run of RunAll needs, of the
\* commands a to b that it ran and the first c of them whose lines came.
LEMMA RanMore ==
    ASSUME IInv, phase = "all", at <= N,
           NEW b \in (at - 1)..N, NEW c \in (at - 1)..b,
           out' = out \o Run(at, c), made' = Made(at, b),
           lines' = lines, refused' = refused, calls' \in {calls, "lost"}
    PROVE  /\ out' \in Seq(Commands) /\ Len(out') = c - Len(lines)
           /\ made' \in [Commands -> Nat]
           /\ LinesTrue' /\ OutFollows'
           /\ \A i \in Commands : made'[i] \in {0, 1} /\ (i > b => made'[i] = 0)
<1> DEFINE k == Len(lines)
<1>0. /\ TypeOK /\ LinesTrue /\ OutFollows /\ NotYet
      /\ out \in Seq(Commands) /\ lines \in Seq(0..N) /\ made \in [Commands -> Nat]
  BY DEF IInv, TypeOK
<1>1. /\ at = k + Len(out) + 1 /\ at \in 1..(N + 1) /\ k \in Nat /\ Len(out) \in Nat
      /\ \A i \in Commands : made[i] \in {0, 1} /\ (i >= at => made[i] = 0)
  BY <1>0 DEF NotYet, TypeOK
<1>3. /\ out' \in Seq(Commands) /\ Len(out') = Len(out) + (c + 1 - at)
      /\ \A i \in 1..Len(out) : out'[i] = out[i]
      /\ \A i \in 1..(c + 1 - at) : out'[Len(out) + i] = at + i - 1
  <2>1. at \in 1..(N + 1) /\ c \in (at - 1)..N
    BY <1>1
  <2>2. out \in Seq(Commands)
    BY <1>0
  <2>3. /\ out \o Run(at, c) \in Seq(Commands)
        /\ Len(out \o Run(at, c)) = Len(out) + (c + 1 - at)
        /\ \A i \in 1..Len(out) : (out \o Run(at, c))[i] = out[i]
        /\ \A i \in 1..(c + 1 - at) : (out \o Run(at, c))[Len(out) + i] = at + i - 1
    BY <2>1, <2>2, RunOn, Zenon
  <2> QED
    BY <2>3
<1>4. Len(out') = c - k
  <2>1. Len(out') = Len(out) + (c + 1 - at) /\ at = k + Len(out) + 1
    BY <1>1, <1>3
  <2>2. c \in Int /\ Len(out) \in Nat /\ k \in Nat
    BY <1>1
  <2>3. Len(out) + (c + 1 - (k + Len(out) + 1)) = c - k
    BY <2>2
  <2> QED
    BY <2>1, <2>3
<1>5. /\ made' \in [Commands -> Nat]
      /\ \A i \in Commands : made'[i] = IF i \in at..b THEN made[i] + 1 ELSE made[i]
  BY <1>0 DEF Made
<1>6. \A i \in Commands : /\ made'[i] \in {0, 1}
                          /\ i > b => made'[i] = 0
                          /\ i < at => made'[i] = made[i]
                          /\ i \in at..b => made'[i] = 1
  <2> SUFFICES ASSUME NEW i \in Commands
               PROVE  /\ made'[i] \in {0, 1}
                      /\ i > b => made'[i] = 0
                      /\ i < at => made'[i] = made[i]
                      /\ i \in at..b => made'[i] = 1
    OBVIOUS
  <2>1. i \in Nat /\ at \in Nat /\ b \in Int /\ at <= b + 1
    BY <1>1 DEF Commands
  <2>2. made[i] \in {0, 1} /\ (i >= at => made[i] = 0)
    BY <1>1
  <2>3. CASE i \in at..b
    BY <1>5, <2>1, <2>2, <2>3
  <2>4. CASE i \notin at..b
    BY <1>5, <2>1, <2>2, <2>4
  <2> QED
    BY <2>3, <2>4
<1>7. LinesTrue'
  <2>1. \A i \in 1..k : i \in Commands /\ i < at
    BY <1>1 DEF Commands
  <2> QED
    BY <1>0, <2>1, <1>6 DEF LinesTrue
<1>8. OutFollows'
  <2>1. k' = k /\ k + Len(out') <= N
    BY <1>1, <1>4
  <2>2. ASSUME NEW i \in 1..Len(out') PROVE out'[i] = k + i /\ made'[k + i] = 1
    <3>1. CASE i <= Len(out)
      <4>1. i \in 1..Len(out) /\ k + i \in Commands /\ k + i < at
        BY <3>1, <1>1 DEF Commands
      <4> QED
        BY <1>0, <4>1, <1>3, <1>6 DEF OutFollows
    <3>2. CASE i > Len(out)
      <4>1. i - Len(out) \in 1..(c + 1 - at) /\ k + i \in at..b /\ k + i \in Commands
            /\ Len(out) + (i - Len(out)) = i /\ at + (i - Len(out)) - 1 = k + i
        BY <3>2, <1>1, <1>3 DEF Commands
      <4>2. out'[Len(out) + (i - Len(out))] = at + (i - Len(out)) - 1
        BY <4>1, <1>3
      <4> QED
        BY <4>1, <4>2, <1>6
    <3> QED
      BY <3>1, <3>2, <1>1, <1>3
  <2> QED
    BY <2>1, <2>2 DEF OutFollows
<1> QED
  BY <1>3, <1>4, <1>5, <1>6, <1>7, <1>8

\* Before the first call nothing is known and nothing has run.
LEMMA Initially == Init => IInv
<1> SUFFICES ASSUME Init PROVE IInv
  OBVIOUS
<1>1. TypeOK
  BY DEF Init, TypeOK, Commands
<1> QED
  BY <1>1 DEF Init, IInv, LinesTrue, OutFollows, NotYet, Commands

\* A step that appends one line for the command run alone keeps what is
\* known of the lines before it.
LEMMA KnowsMore ==
    ASSUME IInv, phase = "alone", NEW x \in {None, Current},
           lines' = lines \o <<x>>,
           made' = Made(Current, Current) \/ (x = None /\ made' = made),
           refused' = refused \/ refused' = refused \cup {Current},
           x = None => Current \in refused',
           out' = out, calls' = calls
    PROVE  /\ Current \in Commands
           /\ lines' \in Seq(0..N) /\ Len(lines') = Current
           /\ made' \in [Commands -> Nat] /\ refused' \subseteq Commands
           /\ LinesTrue' /\ OutFollows'
           /\ \A i \in Commands : made'[i] \in {0, 1} /\ (i > Current => made'[i] = 0)
<1>0. /\ TypeOK /\ LinesTrue /\ OutFollows /\ NotYet
      /\ lines \in Seq(0..N) /\ made \in [Commands -> Nat] /\ refused \subseteq Commands
      /\ Len(lines) < N /\ Len(out) = 0 /\ calls = "answered"
  BY DEF IInv, TypeOK, NotYet
<1>1. /\ Current \in Commands /\ Current \in Nat /\ Current = Len(lines) + 1 /\ Len(lines) \in Nat
      /\ x \in 0..N
  BY <1>0 DEF Current, Commands, None
<1>2. /\ lines' \in Seq(0..N) /\ Len(lines') = Current /\ lines'[Current] = x
      /\ \A i \in 1..Len(lines) : lines'[i] = lines[i]
  BY <1>0, <1>1
<1>3. /\ \A i \in Commands : made[i] \in {0, 1} /\ (i >= Current => made[i] = 0)
  BY <1>0, <1>1 DEF NotYet, Commands
<1>4. /\ made' \in [Commands -> Nat]
      /\ \A i \in Commands : i # Current => made'[i] = made[i]
      /\ made'[Current] \in {0, 1} /\ (x = Current => made'[Current] = 1)
  <2>1. CASE made' = Made(Current, Current)
    <3>1. \A i \in Commands : made'[i] = IF i \in Current..Current THEN made[i] + 1 ELSE made[i]
      BY <2>1, <1>0 DEF Made
    <3>2. \A i \in Commands : made'[i] = IF i = Current THEN made[i] + 1 ELSE made[i]
      BY <3>1, <1>1 DEF Commands
    <3>3. made' \in [Commands -> Nat]
      BY <2>1, <1>0 DEF Made
    <3>4. made[Current] = 0
      BY <1>1, <1>3
    <3> QED
      BY <1>1, <3>2, <3>3, <3>4
  <2>2. CASE x = None /\ made' = made
    BY <2>2, <1>0, <1>1, <1>3 DEF None
  <2> QED
    BY <2>1, <2>2
<1>5. LinesTrue'
  <2>1. ASSUME NEW i \in 1..Len(lines')
        PROVE  /\ lines'[i] \in {None, i}
               /\ lines'[i] = i => made'[i] = 1
               /\ lines'[i] = None => i \in refused'
    <3>1. CASE i = Current
      BY <3>1, <1>1, <1>2, <1>4 DEF None
    <3>2. CASE i # Current
      <4>1. i \in 1..Len(lines) /\ i \in Commands
        BY <3>2, <1>0, <1>1, <1>2 DEF Commands
      <4> QED
        BY <3>2, <4>1, <1>0, <1>2, <1>4 DEF LinesTrue
    <3> QED
      BY <3>1, <3>2
  <2> QED
    BY <2>1 DEF LinesTrue
<1>6. OutFollows'
  BY <1>0, <1>1, <1>2 DEF OutFollows, Commands
<1>7. \A i \in Commands : made'[i] \in {0, 1} /\ (i > Current => made'[i] = 0)
  <2> SUFFICES ASSUME NEW i \in Commands PROVE made'[i] \in {0, 1} /\ (i > Current => made'[i] = 0)
    OBVIOUS
  <2>1. CASE i = Current
    BY <2>1, <1>1, <1>4
  <2>2. CASE i # Current
    <3>1. made'[i] = made[i] /\ made[i] \in {0, 1}
      BY <2>2, <1>3, <1>4
    <3>2. i > Current => made[i] = 0
      BY <1>1, <1>3 DEF Commands
    <3> QED
      BY <3>1, <3>2
  <2> QED
    BY <2>1, <2>2
<1>8. refused' \subseteq Commands
  BY <1>0, <1>1
<1> QED
  BY <1>1, <1>2, <1>4, <1>5, <1>6, <1>7, <1>8

\* Padding keeps what is known; the places it adds are not answered for.
LEMMA PadSeq ==
    ASSUME NEW s \in Seq(0..N), Len(s) <= N
    PROVE  /\ Pad(s) \in Seq(0..N) /\ Len(Pad(s)) = N
           /\ \A i \in Commands : Pad(s)[i] = IF i <= Len(s) THEN s[i] ELSE None
<1>1. \A i \in 1..N : (IF i <= Len(s) THEN s[i] ELSE None) \in 0..N
  BY DEF None
<1> QED
  BY <1>1 DEF Pad, Commands

\* What is known once RunAll is over.
LEMMA Collected ==
    ASSUME IInv, phase \in {"all", "refused", "lost"}
    PROVE  /\ lines \o out \in Seq(0..N) /\ Len(lines \o out) = Len(lines) + Len(out)
           /\ Len(lines \o out) <= N
           /\ \A i \in 1..Len(lines \o out) :
                 /\ (lines \o out)[i] \in {None, i}
                 /\ (lines \o out)[i] = i => made[i] = 1
                 /\ (lines \o out)[i] = None /\ calls = "answered" => i \in refused
<1>0. /\ LinesTrue /\ OutFollows
      /\ out \in Seq(0..N) /\ lines \in Seq(0..N)
  BY DEF IInv, TypeOK, Commands
<1> DEFINE s == lines \o out
<1>1. /\ s \in Seq(0..N) /\ Len(s) = Len(lines) + Len(out) /\ Len(s) <= N
      /\ \A i \in 1..Len(lines) : s[i] = lines[i]
      /\ \A i \in 1..Len(out) : s[Len(lines) + i] = out[i]
  BY <1>0 DEF OutFollows
<1>2. ASSUME NEW i \in 1..Len(s)
      PROVE  /\ s[i] \in {None, i}
             /\ s[i] = i => made[i] = 1
             /\ s[i] = None /\ calls = "answered" => i \in refused
  <2>1. CASE i <= Len(lines)
    BY <2>1, <1>0, <1>1 DEF LinesTrue
  <2>2. CASE i > Len(lines)
    <3>1. i - Len(lines) \in 1..Len(out) /\ Len(lines) + (i - Len(lines)) = i
      BY <2>2, <1>0, <1>1
    <3>2. s[i] = i /\ made[i] = 1
      BY <3>1, <1>0, <1>1 DEF OutFollows
    <3> QED
      BY <3>2 DEF None
  <2> QED
    BY <2>1, <2>2, <1>0, <1>1
<1> QED
  BY <1>1, <1>2

\* Every step keeps the invariant.
LEMMA Inductive == IInv /\ [Next]_vars => IInv'
<1> SUFFICES ASSUME IInv, [Next]_vars PROVE IInv'
  OBVIOUS
<1>0. /\ TypeOK /\ LinesTrue /\ OutFollows /\ NotYet
      /\ at \in 1..(N + 1) /\ out \in Seq(Commands) /\ lines \in Seq(0..N)
      /\ made \in [Commands -> Nat] /\ left \in (1..(N + 1)) \X (0..N)
      /\ refused \subseteq Commands /\ calls \in {"answered", "lost"}
      /\ Len(lines) \in Nat /\ Len(out) \in Nat
  BY DEF IInv, TypeOK
<1>1. ASSUME NEW k \in 0..N, Batch(k) PROVE IInv'
  <2>1. /\ phase = "all" /\ at <= N /\ k \in (at - 1)..N /\ k \in (at - 1)..k
        /\ out' = out \o Run(at, k) /\ made' = Made(at, k) /\ at' = k + 1
        /\ phase' = phase /\ lines' = lines /\ left' = left /\ refused' = refused /\ calls' = calls
    BY <1>0, <1>1 DEF Batch
  <2>a. /\ left[1] > left[2] /\ calls = "answered" /\ at = Len(lines) + Len(out) + 1
        /\ k \in Nat /\ k <= N
    BY <1>0, <2>1 DEF NotYet
  <2>2. /\ out' \in Seq(Commands) /\ Len(out') = k - Len(lines)
        /\ made' \in [Commands -> Nat]
        /\ LinesTrue' /\ OutFollows'
        /\ \A i \in Commands : made'[i] \in {0, 1} /\ (i > k => made'[i] = 0)
    BY <2>1, RanMore
  <2>3. TypeOK'
    BY <1>0, <2>1, <2>2 DEF TypeOK
  <2>4. NotYet'
    <3>1. Len(lines') = Len(lines) /\ Len(lines) \in Nat
      BY <1>0, <2>1
    <3>2. at' = Len(lines') + Len(out') + 1 /\ \A m \in Commands : m >= at' => made'[m] = 0
      <4>1. at' = k + 1 /\ Len(out') = k - Len(lines)
        BY <2>1, <2>2
      <4>2. \A m \in Commands : m >= k + 1 => m > k
        BY <2>a DEF Commands
      <4>3. Len(lines') + Len(out') + 1 = k + 1
        BY <2>a, <3>1, <4>1
      <4> QED
        BY <2>2, <4>1, <4>2, <4>3
    <3>3. phase' = "all" /\ left'[1] > left'[2] /\ calls' = "answered"
      BY <2>1, <2>a
    <3> QED
      BY <2>2, <3>2, <3>3 DEF NotYet
  <2> QED
    BY <2>2, <2>3, <2>4 DEF IInv
<1>2. ASSUME NEW j \in 0..N, Refuse(j) PROVE IInv'
  <2>1. /\ phase = "all" /\ at <= N /\ j \in (at - 1)..N /\ j \in (at - 1)..j
        /\ out' = out \o Run(at, j) /\ made' = Made(at, j) /\ at' = at
        /\ phase' = "refused" /\ lines' = lines /\ left' = left /\ refused' = refused /\ calls' = calls
    BY <1>0, <1>2 DEF Refuse
  <2>a. left[1] > left[2] /\ calls = "answered" /\ at = Len(lines) + Len(out) + 1
    BY <1>0, <2>1 DEF NotYet
  <2>2. /\ out' \in Seq(Commands) /\ Len(out') = j - Len(lines)
        /\ made' \in [Commands -> Nat]
        /\ LinesTrue' /\ OutFollows'
        /\ \A i \in Commands : made'[i] \in {0, 1} /\ (i > j => made'[i] = 0)
    BY <2>1, RanMore
  <2>3. TypeOK'
    BY <1>0, <2>1, <2>2 DEF TypeOK
  <2>4. NotYet'
    <3>1. Len(lines') = Len(lines) /\ Len(lines) \in Nat
      BY <1>0, <2>1
    <3>2. \A m \in Commands : m > Len(lines') + Len(out') => made'[m] = 0
      BY <2>1, <2>2, <3>1 DEF Commands
    <3>3. phase' = "refused" /\ left'[1] > left'[2] /\ calls' = "answered"
      BY <2>1, <2>a
    <3> QED
      BY <2>2, <3>2, <3>3 DEF NotYet
  <2> QED
    BY <2>2, <2>3, <2>4 DEF IInv
<1>3. ASSUME NEW i \in 0..N, NEW j \in 0..N, NEW k \in 0..N, Lose(i, j, k) PROVE IInv'
  <2>1. /\ phase = "all" /\ at <= N /\ k \in at..N /\ j \in (at - 1)..N /\ i \in (at - 1)..j
        /\ out' = out \o Run(at, i) /\ made' = Made(at, j) /\ at' = at
        /\ phase' = "lost" /\ lines' = lines /\ left' = <<j + 1, k>> /\ refused' = refused
        /\ calls' = "lost" /\ j <= k
    BY <1>0, <1>3 DEF Lose
  <2>2. /\ out' \in Seq(Commands) /\ Len(out') = i - Len(lines)
        /\ made' \in [Commands -> Nat]
        /\ LinesTrue' /\ OutFollows'
        /\ \A m \in Commands : made'[m] \in {0, 1} /\ (m > j => made'[m] = 0)
    BY <2>1, RanMore
  <2>3. TypeOK'
    <3>1. left' \in (1..(N + 1)) \X (0..N)
      BY <1>0, <2>1
    <3>2. Len(lines') <= N /\ Len(out') <= N
      <4>1. Len(lines) <= N /\ Len(lines) \in Nat
        BY <1>0 DEF TypeOK
      <4> QED
        BY <2>1, <2>2, <4>1
    <3>3. /\ phase' = "lost" /\ calls' = "lost" /\ at' \in 1..(N + 1)
          /\ lines' \in Seq(0..N) /\ refused' \subseteq Commands
      BY <1>0, <2>1
    <3> QED
      BY <2>2, <3>1, <3>2, <3>3 DEF TypeOK
  <2>4. NotYet'
    <3>1. left'[1] = j + 1 /\ phase' = "lost" /\ calls' = "lost"
      BY <2>1
    <3>2. \A m \in Commands : m >= left'[1] /\ m <= left'[2] => made'[m] = 0
      BY <2>2, <3>1 DEF Commands
    <3> QED
      BY <2>2, <3>1, <3>2 DEF NotYet
  <2> QED
    BY <2>2, <2>3, <2>4 DEF IInv
<1>4. CASE Leftover
  <2>1. /\ left[1] <= left[2] /\ left' = <<left[1] + 1, left[2]>>
        /\ phase' = phase /\ at' = at /\ out' = out /\ lines' = lines
        /\ refused' = refused /\ calls' = calls
        /\ left[1] \in 1..(N + 1) /\ left[2] \in 0..N
    BY <1>0, <1>4 DEF Leftover
  <2>2. phase \in {"lost", "done"}
    BY <1>0, <2>1 DEF NotYet, TypeOK
  <2>3. left[1] \in Commands /\ made[left[1]] = 0
    <3>1. left[1] \in Commands /\ left[1] >= left[1]
      BY <2>1 DEF Commands
    <3>2. \A m \in Commands : m >= left[1] /\ m <= left[2] => made[m] = 0
      BY <1>0, <2>2 DEF NotYet
    <3> QED
      BY <2>1, <3>1, <3>2
  <2>4. /\ made' \in [Commands -> Nat]
        /\ \A m \in Commands : made'[m] = IF m = left[1] THEN 1 ELSE made[m]
    <3>1. /\ made' = Made(left[1], left[1]) /\ made' \in [Commands -> Nat]
      BY <1>0, <1>4 DEF Leftover, Made
    <3>2. \A m \in Commands : made'[m] = IF m \in left[1]..left[1] THEN made[m] + 1 ELSE made[m]
      BY <3>1 DEF Made
    <3>3. \A m \in Commands : m \in left[1]..left[1] <=> m = left[1]
      BY <2>1 DEF Commands
    <3> QED
      BY <2>3, <3>1, <3>2, <3>3
  <2>5. left' \in (1..(N + 1)) \X (0..N) /\ left'[1] = left[1] + 1 /\ left'[2] = left[2]
    BY <2>1
  <2>6. TypeOK'
    BY <1>0, <2>1, <2>4, <2>5 DEF TypeOK
  <2>7. LinesTrue'
    <3>1. \A m \in 1..Len(lines) : m \in Commands
      BY <1>0 DEF TypeOK, Commands
    <3> QED
      BY <1>0, <2>1, <2>4, <3>1 DEF LinesTrue
  <2>8. OutFollows'
    <3>1. \A m \in 1..Len(out) : Len(lines) + m \in Commands
      <4>1. Len(lines) + Len(out) <= N /\ Len(lines) \in Nat /\ Len(out) \in Nat
        BY <1>0 DEF OutFollows
      <4> QED
        BY <4>1 DEF Commands
    <3> QED
      BY <1>0, <2>1, <2>4, <3>1 DEF OutFollows
  <2>9. NotYet'
    <3>1. \A m \in Commands : m >= left'[1] /\ m <= left'[2] => made'[m] = 0
      <4>1. \A m \in Commands : m >= left[1] /\ m <= left[2] => made[m] = 0
        BY <1>0, <2>2 DEF NotYet
      <4>2. left'[1] = left[1] + 1 /\ left'[2] = left[2] /\ left[1] \in Nat
        BY <2>1, <2>5
      <4> QED
        BY <4>1, <4>2, <2>4 DEF Commands
    <3>2. \A m \in Commands : made'[m] \in {0, 1}
      BY <1>0, <2>4 DEF NotYet
    <3>3. /\ phase = "lost" => calls = "lost"
          /\ phase = "done" => Len(out) = 0 /\ Len(lines) = N
      BY <1>0 DEF NotYet
    <3> QED
      BY <2>1, <2>2, <3>1, <3>2, <3>3 DEF NotYet
  <2> QED
    BY <2>6, <2>7, <2>8, <2>9 DEF IInv
<1>5. CASE Collect
  <2> DEFINE s == lines \o out
  <2>1. /\ phase \in {"all", "refused", "lost"} /\ out' = <<>>
        /\ at' = at /\ made' = made /\ left' = left /\ refused' = refused /\ calls' = calls
        /\ Len(out') = 0 /\ out' \in Seq(Commands)
    BY <1>5 DEF Collect
  <2>2. /\ s \in Seq(0..N) /\ Len(s) = Len(lines) + Len(out) /\ Len(s) <= N
        /\ \A i \in 1..Len(s) :
              /\ s[i] \in {None, i}
              /\ s[i] = i => made[i] = 1
              /\ s[i] = None /\ calls = "answered" => i \in refused
    BY <2>1, Collected
  <2>3. CASE phase' = "done" /\ lines' = Pad(s) /\ (phase # "refused" \/ Len(s) = N)
    <3> HIDE DEF s
    <3>1. /\ lines' \in Seq(0..N) /\ Len(lines') = N
          /\ \A i \in Commands : lines'[i] = IF i <= Len(s) THEN s[i] ELSE None
      BY <2>2, <2>3, PadSeq
    <3>2. TypeOK'
      BY <1>0, <2>1, <2>3, <3>1 DEF TypeOK
    <3>3. calls = "answered" => Len(s) = N
      <4>1. CASE phase = "all"
        BY <4>1, <1>0, <1>5, <2>2 DEF NotYet, Collect
      <4>2. CASE phase = "lost"
        BY <4>2, <1>0 DEF NotYet
      <4>3. CASE phase = "refused"
        BY <4>3, <2>3
      <4> QED
        BY <2>1, <4>1, <4>2, <4>3
    <3>4. LinesTrue'
      <4>1. ASSUME NEW i \in 1..N
            PROVE  /\ lines'[i] \in {None, i}
                   /\ lines'[i] = i => made[i] = 1
                   /\ lines'[i] = None /\ calls = "answered" => i \in refused
        BY <2>2, <3>1, <3>3 DEF Commands, None
      <4> QED
        BY <2>1, <3>1, <4>1 DEF LinesTrue
    <3>5. OutFollows'
      BY <2>1, <3>1 DEF OutFollows
    <3>6. NotYet'
      <4>1. \A m \in Commands : made[m] \in {0, 1} /\ (m >= left[1] /\ m <= left[2] => made[m] = 0)
        <5>1. CASE phase = "lost"
          BY <5>1, <1>0 DEF NotYet
        <5>2. CASE phase # "lost"
          <6>1. left[1] > left[2] /\ left[1] \in Nat /\ left[2] \in Nat
            BY <5>2, <1>0, <2>1 DEF NotYet
          <6>2. \A m \in Commands : ~(m >= left[1] /\ m <= left[2])
            BY <6>1 DEF Commands
          <6> QED
            BY <6>2, <1>0 DEF NotYet
        <5> QED
          BY <5>1, <5>2
      <4> QED
        BY <2>1, <2>3, <3>1, <4>1 DEF NotYet
    <3> QED
      BY <3>2, <3>4, <3>5, <3>6 DEF IInv
  <2>4. CASE phase' = "alone" /\ lines' = s /\ phase = "refused" /\ Len(s) # N
    <3> HIDE DEF s
    <3>1. TypeOK'
      BY <1>0, <2>1, <2>2, <2>4 DEF TypeOK
    <3>2. LinesTrue'
      BY <2>1, <2>2, <2>4 DEF LinesTrue
    <3>3. OutFollows'
      BY <2>1, <2>2, <2>4 DEF OutFollows
    <3>4. NotYet'
      <4>1. /\ \A i \in Commands : made[i] \in {0, 1}
            /\ \A i \in Commands : i > Len(lines) + Len(out) => made[i] = 0
            /\ left[1] > left[2] /\ calls = "answered"
        BY <1>0, <2>4 DEF NotYet
      <4>2. Len(lines') = Len(lines) + Len(out) /\ Len(lines') \in Nat /\ Len(lines') < N
        BY <1>0, <2>2, <2>4
      <4>3. \A i \in Commands : i > Len(lines') + Len(out') => made'[i] = 0
        BY <2>1, <4>1, <4>2
      <4> QED
        BY <2>1, <2>4, <4>1, <4>2, <4>3 DEF NotYet
    <3> QED
      BY <3>1, <3>2, <3>3, <3>4 DEF IInv
  <2> QED
    BY <1>5, <2>3, <2>4 DEF Collect
<1>6. CASE Alone
  <2>1. /\ phase = "alone" /\ lines' = lines \o <<Current>> /\ made' = Made(Current, Current)
        /\ refused' = refused /\ out' = out /\ left' = left /\ calls' = calls
        /\ at' = Current + 1 /\ phase' = IF Current = N THEN "done" ELSE "all"
        /\ Current # None
    BY <1>0, <1>6 DEF Alone, Continue, Current, None
  <2>2. /\ Current \in Commands
        /\ lines' \in Seq(0..N) /\ Len(lines') = Current
        /\ made' \in [Commands -> Nat]
        /\ LinesTrue' /\ OutFollows'
        /\ \A i \in Commands : made'[i] \in {0, 1} /\ (i > Current => made'[i] = 0)
    BY <2>1, KnowsMore
  <2>a. /\ left[1] > left[2] /\ calls = "answered" /\ Len(out) = 0
        /\ Current \in Nat /\ 1 <= Current /\ Current <= N
    BY <1>0, <2>1, <2>2 DEF NotYet, Commands
  <2>3. TypeOK'
    <3>1. at' \in 1..(N + 1) /\ Len(lines') <= N /\ Len(out') <= N
      BY <2>1, <2>2, <2>a
    <3>2. phase' \in {"all", "done"} /\ out' \in Seq(Commands) /\ refused' \subseteq Commands
      BY <1>0, <2>1, <2>2
    <3> QED
      BY <1>0, <2>1, <2>2, <3>1, <3>2 DEF TypeOK
  <2>4. NotYet'
    <3>1. at' = Len(lines') + Len(out') + 1
      BY <2>1, <2>2, <2>a
    <3>2. \A i \in Commands : i >= at' => made'[i] = 0
      <4>1. \A i \in Commands : i >= at' => i > Current
        BY <2>1, <2>a DEF Commands
      <4> QED
        BY <2>2, <4>1
    <3>3. phase' = "done" => \A i \in Commands : ~(i >= left'[1] /\ i <= left'[2])
      <4>1. left[1] \in Nat /\ left[2] \in Nat
        BY <1>0
      <4> QED
        BY <2>1, <2>a, <4>1 DEF Commands
    <3>4. phase' \in {"all", "done"} /\ (phase' = "done" => Len(lines') = N)
      BY <2>1, <2>2
    <3> QED
      BY <2>1, <2>2, <2>a, <3>1, <3>2, <3>3, <3>4 DEF NotYet
  <2> QED
    BY <2>2, <2>3, <2>4 DEF IInv
<1>7. CASE AloneRefused
  <2>1. /\ phase = "alone" /\ lines' = lines \o <<None>> /\ made' = made
        /\ refused' = refused \cup {Current} /\ out' = out /\ left' = left /\ calls' = calls
        /\ at' = Current + 1 /\ phase' = IF Current = N THEN "done" ELSE "all"
    BY <1>7 DEF AloneRefused, Continue
  <2>2. /\ Current \in Commands
        /\ lines' \in Seq(0..N) /\ Len(lines') = Current
        /\ made' \in [Commands -> Nat] /\ refused' \subseteq Commands
        /\ LinesTrue' /\ OutFollows'
        /\ \A i \in Commands : made'[i] \in {0, 1} /\ (i > Current => made'[i] = 0)
    BY <2>1, KnowsMore
  <2>a. /\ left[1] > left[2] /\ calls = "answered" /\ Len(out) = 0
        /\ Current \in Nat /\ 1 <= Current /\ Current <= N
    BY <1>0, <2>1, <2>2 DEF NotYet, Commands
  <2>3. TypeOK'
    <3>1. at' \in 1..(N + 1) /\ Len(lines') <= N /\ Len(out') <= N
      BY <2>1, <2>2, <2>a
    <3>2. phase' \in {"all", "done"} /\ out' \in Seq(Commands) /\ refused' \subseteq Commands
      BY <1>0, <2>1, <2>2
    <3> QED
      BY <1>0, <2>1, <2>2, <3>1, <3>2 DEF TypeOK
  <2>4. NotYet'
    <3>1. at' = Len(lines') + Len(out') + 1
      BY <2>1, <2>2, <2>a
    <3>2. \A i \in Commands : i >= at' => made'[i] = 0
      <4>1. \A i \in Commands : i >= at' => i > Current
        BY <2>1, <2>a DEF Commands
      <4> QED
        BY <2>2, <4>1
    <3>3. phase' = "done" => \A i \in Commands : ~(i >= left'[1] /\ i <= left'[2])
      <4>1. left[1] \in Nat /\ left[2] \in Nat
        BY <1>0
      <4> QED
        BY <2>1, <2>a, <4>1 DEF Commands
    <3>4. phase' \in {"all", "done"} /\ (phase' = "done" => Len(lines') = N)
      BY <2>1, <2>2
    <3> QED
      BY <2>1, <2>2, <2>a, <3>1, <3>2, <3>3, <3>4 DEF NotYet
  <2> QED
    BY <2>2, <2>3, <2>4 DEF IInv
<1>8. CASE AloneLost
  <2>1. /\ phase = "alone" /\ phase' = "done" /\ calls' = "lost"
        /\ at' = at /\ out' = out /\ refused' = refused /\ Len(out) = 0
        /\ Len(lines) < N /\ left[1] > left[2]
        /\ \A i \in Commands : i > Len(lines) => made[i] = 0
        /\ \A i \in Commands : made[i] \in {0, 1}
    BY <1>0, <1>8 DEF AloneLost, NotYet
  <2>2. Current \in Commands /\ Current = Len(lines) + 1
    BY <1>0, <2>1 DEF Current, Commands
  <2>a. Len(lines) \in Nat /\ Current \in Nat
    BY <1>0, <2>2
  <2>3. /\ \A i \in 1..Len(lines) : lines[i] \in {None, i} /\ (lines[i] = i => made[i] = 1)
        /\ \A i \in 1..Len(lines) : i \in Commands
    BY <1>0, <2>1 DEF LinesTrue, Commands
  <2>4. ASSUME NEW known \in {None, Current},
               lines' = Pad(lines \o <<known>>), made' = Made(Current, Current), left' = left
        PROVE  IInv'
    <3> DEFINE s == lines \o <<known>>
    <3>1. known \in 0..N
      BY <2>2 DEF None, Commands
    <3>2. /\ s \in Seq(0..N) /\ Len(s) = Len(lines) + 1 /\ Len(s) <= N /\ s[Current] = known
          /\ \A i \in 1..Len(lines) : s[i] = lines[i]
      BY <1>0, <2>1, <2>2, <3>1
    <3>3. lines' = Pad(s)
      BY <2>4
    <3> HIDE DEF s
    <3>4. /\ lines' \in Seq(0..N) /\ Len(lines') = N
          /\ \A i \in Commands : lines'[i] = IF i <= Len(s) THEN s[i] ELSE None
      BY <3>2, <3>3, PadSeq
    <3>5. /\ made' \in [Commands -> Nat]
          /\ \A i \in Commands : made'[i] = IF i = Current THEN 1 ELSE made[i]
      <4>1. /\ made' \in [Commands -> Nat]
            /\ \A i \in Commands : made'[i] = IF i \in Current..Current THEN made[i] + 1 ELSE made[i]
        BY <1>0, <2>4 DEF Made
      <4>2. \A i \in Commands : i \in Current..Current <=> i = Current
        BY <2>2 DEF Commands
      <4>3. made[Current] = 0
        BY <1>0, <2>1, <2>2
      <4> QED
        BY <4>1, <4>2, <4>3
    <3>6. TypeOK'
      <4>1. Len(lines') <= N /\ Len(out') <= N /\ out' \in Seq(Commands)
        BY <1>0, <2>1, <3>4
      <4>2. left' \in (1..(N + 1)) \X (0..N) /\ at' \in 1..(N + 1) /\ refused' \subseteq Commands
        BY <1>0, <2>1, <2>4
      <4> QED
        BY <2>1, <3>4, <3>5, <4>1, <4>2 DEF TypeOK
    <3>7. LinesTrue'
      <4>1. ASSUME NEW i \in 1..N
            PROVE  lines'[i] \in {None, i} /\ (lines'[i] = i => made'[i] = 1)
        <5>1. CASE i = Current
          BY <5>1, <2>2, <3>2, <3>4, <3>5 DEF Commands, None
        <5>2. CASE i < Current
          <6>1. i \in 1..Len(lines) /\ i \in Commands /\ i <= Len(s) /\ i # Current
            BY <5>2, <2>a, <2>2, <3>2 DEF Commands
          <6>2. lines'[i] = lines[i] /\ made'[i] = made[i]
            BY <6>1, <3>2, <3>4, <3>5
          <6> QED
            BY <6>1, <6>2, <2>3
        <5>3. CASE i > Current
          BY <5>3, <1>0, <2>2, <3>2, <3>4 DEF Commands, None
        <5> QED
          BY <2>2, <5>1, <5>2, <5>3 DEF Commands
      <4> QED
        BY <2>1, <3>4, <4>1 DEF LinesTrue
    <3>8. OutFollows'
      BY <2>1, <3>4 DEF OutFollows
    <3>9. NotYet'
      BY <1>0, <2>1, <2>4, <3>4, <3>5 DEF NotYet, Commands
    <3> QED
      BY <3>6, <3>7, <3>8, <3>9 DEF IInv
  <2>5. ASSUME lines' = Pad(lines), left' = <<Current, Current>>, made' = made
        PROVE  IInv'
    <3>1. /\ lines' \in Seq(0..N) /\ Len(lines') = N
          /\ \A i \in Commands : lines'[i] = IF i <= Len(lines) THEN lines[i] ELSE None
      <4>1. lines \in Seq(0..N) /\ Len(lines) <= N
        BY <1>0, <2>1
      <4> QED
        BY <2>5, <4>1, PadSeq
    <3>2. left' \in (1..(N + 1)) \X (0..N) /\ left'[1] = Current /\ left'[2] = Current
      BY <2>2, <2>5 DEF Commands
    <3>3. TypeOK'
      BY <1>0, <2>1, <2>5, <3>1, <3>2 DEF TypeOK
    <3>4. LinesTrue'
      <4>1. ASSUME NEW i \in 1..N
            PROVE  lines'[i] \in {None, i} /\ (lines'[i] = i => made'[i] = 1)
        <5>1. lines'[i] = (IF i <= Len(lines) THEN lines[i] ELSE None) /\ i # None
          BY <3>1 DEF Commands, None
        <5>2. CASE i <= Len(lines)
          <6>1. i \in 1..Len(lines)
            BY <5>2, <1>0
          <6> QED
            BY <2>3, <2>5, <5>1, <5>2, <6>1
        <5> QED
          BY <5>1, <5>2
      <4> QED
        BY <2>1, <3>1, <4>1 DEF LinesTrue
    <3>5. OutFollows'
      BY <2>1, <3>1 DEF OutFollows
    <3>6. NotYet'
      BY <1>0, <2>1, <2>2, <2>5, <3>1, <3>2 DEF NotYet, Commands
    <3> QED
      BY <3>3, <3>4, <3>5, <3>6 DEF IInv
  <2> QED
    BY <1>8, <2>4, <2>5 DEF AloneLost
<1>9. CASE UNCHANGED vars
  BY <1>0, <1>9 DEF vars, IInv, TypeOK, LinesTrue, OutFollows, NotYet
<1> QED
  BY <1>1, <1>2, <1>3, <1>4, <1>5, <1>6, <1>7, <1>8, <1>9 DEF Next

\* The invariant holds in every reachable state.
LEMMA Invariant == Spec => []IInv
  BY Initially, Inductive, PTL DEF Spec

\* Every variable keeps its type, for every number of commands.
THEOREM TypeCorrect == Spec => []TypeOK
<1>1. IInv => TypeOK
  BY DEF IInv
<1> QED
  BY <1>1, Invariant, PTL

LEMMA CreateMeans == IInv => MadeOnce /\ LinesMatch /\ RefusedCostsItself
<1>1. IInv => MadeOnce
  BY DEF IInv, NotYet, MadeOnce
<1>2. IInv => LinesMatch
  BY DEF IInv, LinesTrue, LinesMatch
<1>3. IInv => RefusedCostsItself
  <2> SUFFICES ASSUME IInv, phase = "done", calls = "answered", NEW i \in Commands
               PROVE  lines[i] = i \/ i \in refused
    BY DEF RefusedCostsItself
  <2>1. Len(lines) = N
    BY DEF IInv, NotYet
  <2> QED
    BY <2>1 DEF IInv, LinesTrue, Commands
<1> QED
  BY <1>1, <1>2, <1>3

\* However many windows a restore makes, and whatever tmux refuses or loses,
\* create makes none of them twice.
THEOREM NothingMadeTwice == Spec => []MadeOnce
  BY CreateMeans, Invariant, PTL

\* Each line that create returns belongs to the command in its place.
THEOREM LinesBelong == Spec => []LinesMatch
  BY CreateMeans, Invariant, PTL

\* A command that tmux refuses costs no other command its window.
THEOREM OthersAreMade == Spec => []RefusedCostsItself
  BY CreateMeans, Invariant, PTL
-----------------------------------------------------------------------------
(* The keys a pane is sent. *)

\* The keys of a task, and how they follow each other: a text is cleared before
\* the next one, and Enter is the last.
FirstHalf(i) == <<i, "head">>
LastHalf(i) == <<i, "tail">>
Keys(i) == {FirstHalf(i), LastHalf(i), ClearLine(i), Enter(i)}
Follows(i, a, b) ==
    \/ a = FirstHalf(i) /\ b = LastHalf(i)
    \/ a = LastHalf(i) /\ b \in {ClearLine(i), Enter(i)}
    \/ a = ClearLine(i) /\ b = FirstHalf(i)

Begins(s, k) == Len(s) > 0 /\ s[1] = k
Ends(s, k) == Len(s) > 0 /\ s[Len(s)] = k

\* A line that holds l, and the keys s yet to be read.
Sent(i, l, s) ==
    /\ s \in Seq(Keys(i)) /\ l \in {<<>>, <<FirstHalf(i)>>, <<LastHalf(i)>>, Whole(i)}
    /\ \A k \in 1..(Len(s) - 1) : Follows(i, s[k], s[k + 1])
    /\ ~Ends(s, FirstHalf(i))
    /\ l = <<FirstHalf(i)>> => Begins(s, LastHalf(i))
    /\ l \in {<<LastHalf(i)>>, Whole(i)} =>
           s = <<>> \/ Begins(s, ClearLine(i)) \/ Begins(s, Enter(i))

\* The line holds, or will hold, a text that lost its first half.
Half(i, l, s) == l = <<LastHalf(i)>> \/ (l = <<>> /\ Begins(s, LastHalf(i)))

LEMMA KeyFacts ==
  ASSUME NEW i
  PROVE  /\ FirstHalf(i) # LastHalf(i) /\ FirstHalf(i) # ClearLine(i) /\ FirstHalf(i) # Enter(i)
         /\ LastHalf(i) # ClearLine(i) /\ LastHalf(i) # Enter(i) /\ ClearLine(i) # Enter(i)
         /\ \A k \in Keys(i) : (k[2] = "Enter" <=> k = Enter(i)) /\ (k[2] = "C-u" <=> k = ClearLine(i))
  BY DEF Keys, FirstHalf, LastHalf, ClearLine, Enter

LEMMA LineFacts ==
  ASSUME NEW i
  PROVE  /\ <<>> # <<FirstHalf(i)>> /\ <<>> # <<LastHalf(i)>> /\ <<>> # Whole(i)
         /\ <<FirstHalf(i)>> # <<LastHalf(i)>> /\ <<FirstHalf(i)>> # Whole(i) /\ <<LastHalf(i)>> # Whole(i)
         /\ Held(<<>>, FirstHalf(i)) = <<FirstHalf(i)>> /\ Held(<<>>, LastHalf(i)) = <<LastHalf(i)>>
         /\ Held(<<FirstHalf(i)>>, LastHalf(i)) = Whole(i)
         /\ \A l : Held(l, ClearLine(i)) = <<>>
<1>w. Whole(i) = <<FirstHalf(i), LastHalf(i)>> /\ FirstHalf(i) # LastHalf(i)
  BY DEF Whole, FirstHalf, LastHalf
<1>1. ASSUME NEW x, NEW y, x # y
      PROVE  <<>> # <<x>> /\ <<>> # <<x, y>> /\ <<x>> # <<y>> /\ <<x>> # <<x, y>> /\ <<y>> # <<x, y>>
  <2>1. Len(<<>>) = 0 /\ Len(<<x>>) = 1 /\ Len(<<y>>) = 1 /\ Len(<<x, y>>) = 2
    OBVIOUS
  <2>2. <<x>>[1] = x /\ <<y>>[1] = y
    OBVIOUS
  <2> QED
    BY <1>1, <2>1, <2>2
<1>a. ASSUME NEW x, NEW y PROVE Append(<<>>, x) = <<x>> /\ Append(<<x>>, y) = <<x, y>>
  <2>1. /\ <<>> \in Seq({x, y}) /\ <<x>> \in Seq({x, y}) /\ <<x, y>> \in Seq({x, y})
        /\ Len(<<>>) = 0 /\ Len(<<x>>) = 1 /\ Len(<<x, y>>) = 2
        /\ <<x>>[1] = x /\ <<x, y>>[1] = x /\ <<x, y>>[2] = y
    OBVIOUS
  <2>2. Append(<<>>, x) = <<x>>
    <3>1. /\ Append(<<>>, x) \in Seq({x, y}) /\ Len(Append(<<>>, x)) = 1 /\ Append(<<>>, x)[1] = x
      BY <2>1, AppendProperties
    <3>2. \A j \in 1..1 : Append(<<>>, x)[j] = <<x>>[j]
      BY <2>1, <3>1
    <3> QED
      BY <2>1, <3>1, <3>2, SeqEqual
  <2>3. Append(<<x>>, y) = <<x, y>>
    <3>1. /\ Append(<<x>>, y) \in Seq({x, y}) /\ Len(Append(<<x>>, y)) = 2
          /\ Append(<<x>>, y)[1] = x /\ Append(<<x>>, y)[2] = y
      BY <2>1, AppendProperties
    <3>2. \A j \in 1..2 : Append(<<x>>, y)[j] = <<x, y>>[j]
      BY <2>1, <3>1
    <3> QED
      BY <2>1, <3>1, <3>2, SeqEqual
  <2> QED
    BY <2>2, <2>3
<1>2. /\ Append(<<>>, FirstHalf(i)) = <<FirstHalf(i)>> /\ Append(<<>>, LastHalf(i)) = <<LastHalf(i)>>
      /\ Append(<<FirstHalf(i)>>, LastHalf(i)) = Whole(i)
  BY <1>w, <1>a
<1>3. FirstHalf(i)[2] # "C-u" /\ LastHalf(i)[2] # "C-u" /\ ClearLine(i)[2] = "C-u"
  BY DEF FirstHalf, LastHalf, ClearLine
<1>4. /\ <<>> # <<FirstHalf(i)>> /\ <<>> # <<LastHalf(i)>> /\ <<>> # Whole(i)
      /\ <<FirstHalf(i)>> # <<LastHalf(i)>> /\ <<FirstHalf(i)>> # Whole(i) /\ <<LastHalf(i)>> # Whole(i)
  BY <1>w, <1>1
<1> QED
  BY <1>2, <1>3, <1>4 DEF Held

\* More keys after those a pane was sent.
LEMMA SendMore ==
  ASSUME NEW i, NEW l, NEW s, Sent(i, l, s), NEW t \in Seq(Keys(i)), Len(t) > 0,
         \A k \in 1..(Len(t) - 1) : Follows(i, t[k], t[k + 1]), ~Ends(t, FirstHalf(i)),
         Len(s) > 0 => Follows(i, s[Len(s)], t[1]),
         s = <<>> => l = <<>> \/ t[1] \in {ClearLine(i), Enter(i)}
  PROVE  /\ Sent(i, l, s \o t) /\ \A k : Ends(s \o t, k) <=> Ends(t, k)
         /\ s \o t # <<>>
         /\ \A k : Begins(s \o t, k) <=> IF s = <<>> THEN Begins(t, k) ELSE Begins(s, k)
<1> DEFINE u == s \o t
<1>1. s \in Seq(Keys(i)) /\ Len(s) \in Nat /\ Len(t) \in Nat /\ (s = <<>> <=> Len(s) = 0)
  BY EmptySeq DEF Sent
<1>2. /\ u \in Seq(Keys(i)) /\ Len(u) = Len(s) + Len(t)
      /\ \A k \in 1..Len(s) : u[k] = s[k]
      /\ \A k \in 1..Len(t) : u[Len(s) + k] = t[k]
  BY <1>1, Longer
<1> HIDE DEF u
<1>3. \A k : Ends(u, k) <=> Ends(t, k)
  BY <1>1, <1>2 DEF Ends
<1>4. \A k : Begins(u, k) <=> IF s = <<>> THEN Begins(t, k) ELSE Begins(s, k)
  <2>1. CASE s = <<>>
    BY <1>1, <1>2, <2>1 DEF Begins
  <2>2. CASE s # <<>>
    BY <1>1, <1>2, <2>2 DEF Begins
  <2> QED
    BY <2>1, <2>2
<1>5. u # <<>>
  BY <1>1, <1>2
<1>6. ASSUME NEW k \in 1..(Len(u) - 1) PROVE Follows(i, u[k], u[k + 1])
  <2>1. CASE k < Len(s)
    <3>1. k \in 1..(Len(s) - 1) /\ u[k] = s[k] /\ u[k + 1] = s[k + 1]
      BY <1>1, <1>2, <2>1
    <3> QED
      BY <3>1 DEF Sent
  <2>2. CASE k = Len(s)
    BY <1>1, <1>2, <2>2
  <2>3. CASE k > Len(s)
    <3> DEFINE m == k - Len(s)
    <3>1. m \in 1..Len(t) /\ m + 1 \in 1..Len(t) /\ m \in 1..(Len(t) - 1)
      BY <1>1, <1>2, <2>3
    <3>2. Len(s) + m = k /\ Len(s) + (m + 1) = k + 1
      BY <1>1
    <3> HIDE DEF m
    <3>3. u[k] = t[m] /\ u[k + 1] = t[m + 1]
      BY <1>2, <3>1, <3>2
    <3> QED
      BY <3>1, <3>3
  <2> QED
    BY <1>1, <2>1, <2>2, <2>3
<1>7. l = <<FirstHalf(i)>> => Begins(u, LastHalf(i))
  <2> SUFFICES ASSUME l = <<FirstHalf(i)>> PROVE Begins(u, LastHalf(i))
    OBVIOUS
  <2>1. Begins(s, LastHalf(i))
    BY DEF Sent
  <2>2. s # <<>>
    BY <1>1, <2>1 DEF Begins
  <2> QED
    BY <1>4, <2>1, <2>2
<1>8. l \in {<<LastHalf(i)>>, Whole(i)} => Begins(u, ClearLine(i)) \/ Begins(u, Enter(i))
  BY <1>1, <1>4, LineFacts DEF Sent, Begins
<1> QED
  BY <1>2, <1>3, <1>4, <1>5, <1>6, <1>7, <1>8 DEF u, Sent

\* The first keys are gone from what an empty line is yet to read.
LEMMA DropSome ==
  ASSUME NEW i, NEW s, Sent(i, <<>>, s), NEW k \in 0..Len(s)
  PROVE  LET t == SubSeq(s, k + 1, Len(s)) IN
         /\ Sent(i, <<>>, t) /\ \A x : Ends(t, x) => Ends(s, x)
         /\ \A x : Ends(s, x) => Ends(t, x) \/ t = <<>>
         /\ s = <<>> => t = <<>>
<1> DEFINE t == SubSeq(s, k + 1, Len(s))
<1>1. s \in Seq(Keys(i)) /\ Len(s) \in Nat /\ k \in Nat
  BY DEF Sent
<1>2. \A j \in (k + 1)..Len(s) : s[j] \in Keys(i)
  BY <1>1, ElementOfSeq
<1>3. /\ t \in Seq(Keys(i)) /\ Len(t) = Len(s) - k
      /\ \A j \in 1..(Len(s) - k) : t[j] = s[k + j]
  <2>1. /\ t \in Seq(Keys(i)) /\ Len(t) = IF k + 1 <= Len(s) THEN Len(s) - (k + 1) + 1 ELSE 0
        /\ \A j \in 1..(Len(s) - (k + 1) + 1) : t[j] = s[k + 1 + j - 1]
    BY <1>1, <1>2, SubSeqProperties
  <2> HIDE DEF t
  <2>2. \A j \in 1..(Len(s) - k) : j \in 1..(Len(s) - (k + 1) + 1) /\ k + 1 + j - 1 = k + j
    BY <1>1
  <2>3. Len(t) = Len(s) - k
    BY <1>1, <2>1
  <2> QED
    BY <2>1, <2>2, <2>3
<1> HIDE DEF t
<1>0. s = <<>> <=> Len(s) = 0
  BY <1>1, EmptySeq
<1>e. t = <<>> <=> Len(t) = 0
  BY <1>3, EmptySeq
<1>4. /\ \A x : Ends(t, x) => Ends(s, x)
      /\ \A x : Ends(s, x) => Ends(t, x) \/ t = <<>>
      /\ s = <<>> => t = <<>>
  BY <1>0, <1>1, <1>3, <1>e DEF Ends
<1>5. ASSUME NEW j \in 1..(Len(t) - 1) PROVE Follows(i, t[j], t[j + 1])
  <2>1. k + j \in 1..(Len(s) - 1) /\ t[j] = s[k + j] /\ t[j + 1] = s[k + (j + 1)] /\ k + (j + 1) = (k + j) + 1
    BY <1>1, <1>3
  <2> QED
    BY <2>1 DEF Sent
<1> QED
  BY <1>3, <1>4, <1>5, LineFacts DEF Sent, t

\* A key other than Enter is read.
LEMMA ReadOne ==
  ASSUME NEW i, NEW l, NEW s, Sent(i, l, s), s # <<>>, Head(s) # Enter(i)
  PROVE  /\ Sent(i, Held(l, Head(s)), Tail(s))
         /\ \A x : Ends(Tail(s), x) => Ends(s, x)
         /\ \A x : Ends(s, x) => Ends(Tail(s), x) \/ (Tail(s) = <<>> /\ Head(s) = x)
         /\ Half(i, Held(l, Head(s)), Tail(s)) => Half(i, l, s)
         /\ Head(s) = ClearLine(i) => Held(l, Head(s)) = <<>>
<1> DEFINE h == Head(s)
           t == Tail(s)
<1>s. s \in Seq(Keys(i))
  BY DEF Sent
<1>1. /\ Len(s) \in Nat \ {0} /\ h = s[1] /\ h \in Keys(i)
      /\ t \in Seq(Keys(i)) /\ Len(t) = Len(s) - 1 /\ \A j \in 1..Len(t) : t[j] = s[j + 1]
      /\ (t = <<>> <=> Len(t) = 0)
  <2>1. Len(s) \in Nat \ {0} /\ h = s[1]
    BY <1>s, EmptySeq
  <2>2. h \in Keys(i) /\ t \in Seq(Keys(i)) /\ Len(t) = Len(s) - 1 /\ \A j \in 1..Len(t) : t[j] = s[j + 1]
    BY <1>s, HeadTailProperties
  <2>3. t = <<>> <=> Len(t) = 0
    BY <2>2, EmptySeq
  <2> QED
    BY <2>1, <2>2, <2>3
<1> HIDE DEF h, t
<1>2. /\ \A x : Ends(t, x) => Ends(s, x)
      /\ \A x : Ends(s, x) => Ends(t, x) \/ (t = <<>> /\ h = x)
  BY <1>1 DEF Ends
<1>3. ASSUME NEW j \in 1..(Len(t) - 1) PROVE Follows(i, t[j], t[j + 1])
  <2>1. j + 1 \in 1..(Len(s) - 1) /\ t[j] = s[j + 1] /\ t[j + 1] = s[(j + 1) + 1]
    BY <1>1
  <2> QED
    BY <2>1 DEF Sent
<1>4. t # <<>> => Follows(i, h, t[1]) /\ Len(t) > 0
  <2> SUFFICES ASSUME t # <<>> PROVE Follows(i, h, t[1]) /\ Len(t) > 0
    OBVIOUS
  <2>1. Len(t) > 0 /\ 1 \in 1..(Len(s) - 1) /\ t[1] = s[1 + 1]
    BY <1>1
  <2> QED
    BY <1>1, <2>1 DEF Sent
<1>5. /\ t \in Seq(Keys(i)) /\ ~Ends(t, FirstHalf(i))
      /\ \A j \in 1..(Len(t) - 1) : Follows(i, t[j], t[j + 1])
  BY <1>1, <1>2, <1>3 DEF Sent
<1>e. ~Ends(s, FirstHalf(i))
  BY DEF Sent
<1>6. CASE h = FirstHalf(i)
  <2>1. l = <<>>
    BY <1>1, <1>6, KeyFacts DEF Sent, Begins
  <2>2. Begins(t, LastHalf(i))
    <3>1. t # <<>>
      <4> SUFFICES ASSUME t = <<>> PROVE FALSE
        OBVIOUS
      <4>1. Len(s) = 1
        BY <1>1
      <4>2. s[1] = FirstHalf(i)
        BY <1>1, <1>6
      <4> QED
        BY <4>1, <4>2, <1>e DEF Ends
    <3> QED
      BY <1>4, <1>6, <3>1, KeyFacts DEF Follows, Begins
  <2>3. Held(l, h) = <<FirstHalf(i)>>
    BY <1>6, <2>1, LineFacts
  <2> QED
    BY <1>2, <1>5, <1>6, <2>2, <2>3, LineFacts, KeyFacts DEF h, t, Sent, Half
<1>7. CASE h = LastHalf(i)
  <2>1. l = <<>> \/ l = <<FirstHalf(i)>>
    BY <1>1, <1>7, KeyFacts DEF Sent, Begins
  <2>2. t = <<>> \/ Begins(t, ClearLine(i)) \/ Begins(t, Enter(i))
    BY <1>4, <1>7, KeyFacts DEF Follows, Begins
  <2>3. Held(l, h) = IF l = <<>> THEN <<LastHalf(i)>> ELSE Whole(i)
    BY <1>7, <2>1, LineFacts
  <2>4. l = <<>> => Half(i, l, s)
    BY <1>1, <1>7 DEF Half, Begins
  <2> QED
    BY <1>2, <1>5, <1>7, <2>1, <2>2, <2>3, <2>4, LineFacts, KeyFacts DEF h, t, Sent, Half
<1>8. CASE h = ClearLine(i)
  <2>1. Held(l, h) = <<>>
    BY <1>8, LineFacts
  <2>2. t # <<>> => t[1] = FirstHalf(i)
    BY <1>4, <1>8, KeyFacts DEF Follows
  <2>3. ~Begins(t, LastHalf(i))
    BY <1>1, <2>2, KeyFacts DEF Begins
  <2> QED
    BY <1>2, <1>5, <1>8, <2>1, <2>3, LineFacts DEF h, t, Sent, Half
<1> QED
  BY <1>1, <1>6, <1>7, <1>8 DEF h, Keys

\* Enter is the last key, and what it runs is a whole text, or nothing.
LEMMA EnterLast ==
  ASSUME NEW i, NEW l, NEW s, Sent(i, l, s), s # <<>>, Head(s) = Enter(i)
  PROVE  Tail(s) = <<>> /\ Ends(s, Enter(i)) /\ (Half(i, l, s) \/ l \in {<<>>, Whole(i)})
<1>s. s \in Seq(Keys(i))
  BY DEF Sent
<1>1. /\ Len(s) \in Nat \ {0} /\ Head(s) = s[1]
      /\ Tail(s) \in Seq(Keys(i)) /\ Len(Tail(s)) = Len(s) - 1
      /\ (Tail(s) = <<>> <=> Len(Tail(s)) = 0)
  <2>1. Len(s) \in Nat \ {0} /\ Head(s) = s[1]
    BY <1>s, EmptySeq
  <2>2. Tail(s) \in Seq(Keys(i)) /\ Len(Tail(s)) = Len(s) - 1
    BY <1>s, HeadTailProperties
  <2>3. Tail(s) = <<>> <=> Len(Tail(s)) = 0
    BY <2>2, EmptySeq
  <2> QED
    BY <2>1, <2>2, <2>3
<1>2. Len(s) = 1
  <2> SUFFICES ASSUME Len(s) > 1 PROVE FALSE
    BY <1>1
  <2>1. Follows(i, s[1], s[1 + 1])
    BY <1>1 DEF Sent
  <2> QED
    BY <1>1, <2>1, KeyFacts DEF Follows
<1> QED
  BY <1>1, <1>2, KeyFacts DEF Ends, Sent, Half, Begins
-----------------------------------------------------------------------------
(* Typing: one pane and the task that types into it. *)

\* What its line l, the keys s on their way, what it ran (r), where its task is
\* (c) and its shell (sh) have to do with each other.  A text that lost its
\* first half can only be that of a shell that drops and reads by now, and Enter
\* is not sent while it is there, unless the text seemed to show.
PaneOk(i, l, s, r, c, sh) ==
    /\ Sent(i, l, s)
    /\ i \notin Misread => r \in {<<>>, <<Whole(i)>>}
    /\ r # <<>> => s = <<>> /\ c \in {"start", "typed", "failed"}
    /\ Ends(s, Enter(i)) => c \in {"start", "typed", "failed"}
    /\ c \in {"none", "queued", "control"} => l = <<>> /\ s = <<>>
    /\ c \in {"prompt", "send", "notTyped"} => Ends(s, ClearLine(i)) \/ (s = <<>> /\ l = <<>>)
    /\ c \in {"echo", "clear", "enter"} => s = <<>> \/ Ends(s, LastHalf(i))
    /\ Half(i, l, s) => i \in Drops /\ sh \notin {"tmux", "early"}
    /\ Half(i, l, s) /\ i \notin Misread => c # "enter" /\ ~Ends(s, Enter(i))
    /\ sh \in {"tmux", "early"} => l = <<>>
    /\ sh \in {"tmux", "early"} /\ i \in Drops \ Misread => c # "enter" /\ ~Ends(s, Enter(i))

\* The task goes on without a key.
LEMMA TaskMoves ==
  ASSUME NEW i, NEW l, NEW s, NEW r, NEW c, NEW sh, PaneOk(i, l, s, r, c, sh), NEW d,
         \/ <<c, d>> \in {<<"none", "queued">>, <<"queued", "control">>, <<"queued", "prompt">>,
                          <<"prompt", "send">>, <<"echo", "clear">>, <<"start", "typed">>}
         \/ c \in {"prompt", "send", "enter", "clear"} /\ d = "failed"
         \/ /\ c = "echo" /\ d = "enter"
            /\ i \in Misread \/ (~Half(i, l, s) /\ (i \in Drops => sh \notin {"tmux", "early"}))
  PROVE  PaneOk(i, l, s, r, d, sh)
  BY DEF PaneOk

\* It sends keys.
LEMMA TaskSends ==
  ASSUME NEW i, NEW l, NEW s, NEW r, NEW c, NEW sh, PaneOk(i, l, s, r, c, sh), NEW t, NEW d,
         \/ c = "send" /\ t = Whole(i) /\ d \in {"echo", "failed"}
         \/ c = "enter" /\ t = <<Enter(i)>> /\ d \in {"start", "failed"}
         \/ c = "clear" /\ t = <<ClearLine(i)>> /\ d \in {"prompt", "notTyped", "failed"}
  PROVE  PaneOk(i, l, s \o t, r, d, sh)
<1> DEFINE u == s \o t
           Grown(k) == Sent(i, l, u) /\ Ends(u, k) /\ (\A x : Ends(u, x) => x = k) /\ u # <<>>
                       /\ (Half(i, l, u) => Half(i, l, s))
<1>1. /\ Whole(i) \in Seq(Keys(i)) /\ Len(Whole(i)) = 2
      /\ Whole(i)[1] = FirstHalf(i) /\ Whole(i)[2] = LastHalf(i)
  BY DEF Whole, Keys, FirstHalf, LastHalf
<1>2. \A k \in Keys(i) : <<k>> \in Seq(Keys(i)) /\ Len(<<k>>) = 1 /\ <<k>>[1] = k
  OBVIOUS
<1>3. s \in Seq(Keys(i)) /\ (s = <<>> <=> Len(s) = 0) /\ Len(s) \in Nat
  BY EmptySeq DEF PaneOk, Sent
<1>4. Sent(i, l, s)
  BY DEF PaneOk
<1> HIDE DEF u
<1>5. CASE c = "send" /\ t = Whole(i) /\ d \in {"echo", "failed"}
  <2>1. Ends(s, ClearLine(i)) \/ (s = <<>> /\ l = <<>>)
    BY <1>5 DEF PaneOk
  <2>2. /\ \A k \in 1..(Len(t) - 1) : Follows(i, t[k], t[k + 1])
        /\ ~Ends(t, FirstHalf(i)) /\ Len(t) > 0 /\ t \in Seq(Keys(i))
    <3>1. t \in Seq(Keys(i)) /\ Len(t) = 2 /\ t[1] = FirstHalf(i) /\ t[2] = LastHalf(i)
      BY <1>1, <1>5
    <3>2. \A k \in 1..(Len(t) - 1) : k = 1 /\ k + 1 = 2
      BY <3>1
    <3>3. \A k \in 1..(Len(t) - 1) : Follows(i, t[k], t[k + 1])
      BY <3>1, <3>2 DEF Follows
    <3> QED
      BY <3>1, <3>3, KeyFacts DEF Ends
  <2>3. Len(s) > 0 => Follows(i, s[Len(s)], t[1])
    BY <1>1, <1>3, <1>5, <2>1 DEF Follows, Ends
  <2>4. s = <<>> => l = <<>>
    BY <1>3, <2>1 DEF Ends
  <2>5. /\ Sent(i, l, u) /\ u # <<>> /\ \A k : Ends(u, k) <=> Ends(t, k)
        /\ \A k : Begins(u, k) <=> IF s = <<>> THEN Begins(t, k) ELSE Begins(s, k)
    BY <1>4, <2>2, <2>3, <2>4, SendMore DEF u
  <2>6. Grown(LastHalf(i))
    <3>1. t[1] = FirstHalf(i) /\ \A x : Ends(t, x) <=> x = LastHalf(i)
      <4>1. Len(t) = 2 /\ t[1] = FirstHalf(i) /\ t[2] = LastHalf(i)
        BY <1>1, <1>5
      <4> QED
        BY <4>1 DEF Ends
    <3>2. Begins(u, LastHalf(i)) => Begins(s, LastHalf(i))
      BY <2>5, <3>1, KeyFacts DEF Begins
    <3> QED
      BY <2>5, <3>1, <3>2 DEF Half
  <2> QED
    BY <1>5, <2>6, KeyFacts DEF PaneOk, u
<1>6. ASSUME NEW k \in {ClearLine(i), Enter(i)}, t = <<k>>, c \in {"clear", "enter"} PROVE Grown(k)
  <2>1. s = <<>> \/ Ends(s, LastHalf(i))
    BY <1>6 DEF PaneOk
  <2>2. /\ \A j \in 1..(Len(t) - 1) : Follows(i, t[j], t[j + 1])
        /\ ~Ends(t, FirstHalf(i)) /\ Len(t) > 0 /\ t \in Seq(Keys(i)) /\ t[1] = k /\ Len(t) = 1
    BY <1>2, <1>6, KeyFacts DEF Keys, Ends
  <2>3. Len(s) > 0 => Follows(i, s[Len(s)], t[1])
    BY <1>3, <1>6, <2>1, <2>2 DEF Follows, Ends
  <2>5. /\ Sent(i, l, u) /\ u # <<>> /\ \A x : Ends(u, x) <=> Ends(t, x)
        /\ \A x : Begins(u, x) <=> IF s = <<>> THEN Begins(t, x) ELSE Begins(s, x)
    BY <1>4, <1>6, <2>2, <2>3, SendMore DEF u
  <2> QED
    BY <1>6, <2>2, <2>5, KeyFacts DEF Ends, Begins, Half
<1>7. CASE c = "enter" /\ t = <<Enter(i)>> /\ d \in {"start", "failed"}
  <2>1. Grown(Enter(i))
    BY <1>6, <1>7
  <2> QED
    BY <1>7, <2>1, KeyFacts DEF PaneOk, u
<1>8. CASE c = "clear" /\ t = <<ClearLine(i)>> /\ d \in {"prompt", "notTyped", "failed"}
  <2>1. Grown(ClearLine(i))
    BY <1>6, <1>8
  <2> QED
    BY <1>8, <2>1, KeyFacts DEF PaneOk, u
<1> QED
  BY <1>5, <1>7, <1>8

\* The shell is another, its line and keys the same.
LEMMA ShellMoves ==
  ASSUME NEW i, NEW l, NEW s, NEW r, NEW c, NEW sh, PaneOk(i, l, s, r, c, sh), NEW th,
         th \in {"tmux", "early"} => sh \in {"tmux", "early"}
  PROVE  PaneOk(i, l, s, r, c, th)
  BY DEF PaneOk

\* A shell that drops begins to read, without what came first.
LEMMA ShellDrops ==
  ASSUME NEW i, NEW l, NEW s, NEW r, NEW c, PaneOk(i, l, s, r, c, "early"), i \in Drops,
         NEW k \in 0..Len(s)
  PROVE  PaneOk(i, l, SubSeq(s, k + 1, Len(s)), r, c, "reading")
<1> DEFINE t == SubSeq(s, k + 1, Len(s))
<1>1. l = <<>> /\ Sent(i, <<>>, s)
  BY DEF PaneOk
<1>2. /\ Sent(i, <<>>, t) /\ \A x : Ends(t, x) => Ends(s, x)
      /\ \A x : Ends(s, x) => Ends(t, x) \/ t = <<>>
      /\ s = <<>> => t = <<>>
  BY <1>1, DropSome
<1> HIDE DEF t
<1> QED
  BY <1>1, <1>2 DEF PaneOk, t

\* It reads a key.
LEMMA ShellReads ==
  ASSUME NEW i, NEW l, NEW s, NEW r, NEW c, PaneOk(i, l, s, r, c, "reading"), s # <<>>
  PROVE  IF Head(s) # Enter(i)
         THEN PaneOk(i, Held(l, Head(s)), Tail(s), r, c, "reading")
         ELSE IF l = <<>> THEN PaneOk(i, <<>>, Tail(s), r, c, "reading")
              ELSE PaneOk(i, <<>>, Tail(s), Append(r, l), c, "running")
<1> DEFINE t == Tail(s)
           m == Held(l, Head(s))
<1>1. Sent(i, l, s) /\ r = <<>>
  BY DEF PaneOk
<1>2. CASE Head(s) # Enter(i)
  <2>1. /\ Sent(i, m, t)
        /\ \A x : Ends(t, x) => Ends(s, x)
        /\ \A x : Ends(s, x) => Ends(t, x) \/ (t = <<>> /\ Head(s) = x)
        /\ Half(i, m, t) => Half(i, l, s)
        /\ Head(s) = ClearLine(i) => m = <<>>
    BY <1>1, <1>2, ReadOne
  <2> HIDE DEF t, m
  <2>2. PaneOk(i, m, t, r, c, "reading")
    BY <1>1, <1>2, <2>1 DEF PaneOk
  <2> QED
    BY <1>2, <2>2 DEF t, m
<1>3. CASE Head(s) = Enter(i)
  <2>1. t = <<>> /\ Ends(s, Enter(i)) /\ (Half(i, l, s) \/ l \in {<<>>, Whole(i)})
    BY <1>1, <1>3, EnterLast
  <2>2. (i \notin Misread => ~Half(i, l, s)) /\ c \in {"start", "typed", "failed"}
    BY <2>1 DEF PaneOk
  <2>3. Sent(i, <<>>, <<>>) /\ ~Half(i, <<>>, <<>>) /\ \A x : ~Ends(<<>>, x)
    BY LineFacts, EmptySeq DEF Sent, Half, Ends, Begins
  <2>4. Append(r, l) = <<l>>
    BY <1>1
  <2>5. l # <<>> /\ i \notin Misread => <<l>> = <<Whole(i)>>
    BY <2>1, <2>2
  <2> HIDE DEF t
  <2> QED
    BY <1>1, <1>3, <2>1, <2>2, <2>3, <2>4, <2>5 DEF PaneOk, t
<1> QED
  BY <1>2, <1>3
-----------------------------------------------------------------------------
(* Typing: all tasks and panes. *)

PaneInv(i) == PaneOk(i, line[i], keys[i], ran[i], pc[i], shell[i])

\* A task types into its own pane, and no newline.
TaskInv(i) ==
    /\ pane[i] = i \/ (pane[i] = Nobody /\ pc[i] = "none")
    /\ i \in Control => pc[i] \in {"none", "queued", "control"}

TypingTypes ==
    /\ pane \in [Tasks -> Tasks \cup {Nobody}]
    /\ pc \in [Tasks -> Working \cup Answers \cup {"none", "queued"}]
    /\ attempt \in [Tasks -> 0..Attempts]
    /\ shell \in [Tasks -> {"tmux", "early", "reading", "running", "closed"}]
    /\ DOMAIN keys = Tasks /\ DOMAIN line = Tasks /\ DOMAIN ran = Tasks

TypingInv == TypingTypes /\ \A i \in Tasks : PaneInv(i) /\ TaskInv(i)

LEMMA NothingTyped ==
  ASSUME NEW i, NEW c, c \in {"none", "queued"}
  PROVE  PaneOk(i, <<>>, <<>>, <<>>, c, "tmux")
<1>1. Sent(i, <<>>, <<>>) /\ ~Half(i, <<>>, <<>>) /\ \A x : ~Ends(<<>>, x)
  BY LineFacts, EmptySeq DEF Sent, Half, Ends, Begins
<1> QED
  BY <1>1 DEF PaneOk

LEMMA TypingInit == TInit => TypingInv
<1> SUFFICES ASSUME TInit PROVE TypingInv
  OBVIOUS
<1>1. TypingTypes
  BY TypingAssumption DEF TInit, TypingTypes
<1>2. ASSUME NEW i \in Tasks PROVE PaneInv(i) /\ TaskInv(i)
  BY NothingTyped DEF TInit, PaneInv, TaskInv
<1> QED
  BY <1>1, <1>2 DEF TypingInv

LEMMA TypesStep ==
  ASSUME TypingTypes, TNext
  PROVE  TypingTypes'
<1> USE DEF TypingTypes
<1>1. ASSUME NEW i \in Tasks, TypeInto(i) PROVE TypingTypes'
  <2>1. pane' = pane /\ shell' = shell /\ line' = line /\ ran' = ran
    BY <1>1 DEF TypeInto, Start, Prompt, SendText, Echo, NoEcho, SendEnter, Started, Clear, Fail,
                FailSent, Send, Terminals
  <2>2. DOMAIN keys' = Tasks
    BY <1>1 DEF TypeInto, Start, Prompt, SendText, Echo, NoEcho, SendEnter, Started, Clear, Fail,
                FailSent, Send
  <2>3. pc' \in [Tasks -> Working \cup Answers \cup {"none", "queued"}]
    <3>1. \E d \in Working \cup Answers : pc' = [pc EXCEPT ![i] = d]
      BY <1>1 DEF TypeInto, Start, Prompt, SendText, Echo, NoEcho, SendEnter, Started, Clear, Fail,
                  FailSent, Send, Goto, Working, Answers
    <3> QED
      BY <3>1
  <2>4. attempt' \in [Tasks -> 0..Attempts]
    <3>1. CASE Start(i)
      BY <3>1, TypingAssumption DEF Start
    <3>2. CASE Clear(i)
      BY <3>2, TypingAssumption DEF Clear
    <3>3. CASE ~Start(i) /\ ~Clear(i)
      BY <1>1, <3>3 DEF TypeInto, Prompt, SendText, Echo, NoEcho, SendEnter, Started, Fail, FailSent
    <3> QED
      BY <3>1, <3>2, <3>3
  <2> QED
    BY <2>1, <2>2, <2>3, <2>4
<1>2. ASSUME NEW p \in Tasks, Shell(p) \/ CommandEnds(p) \/ Close(p) PROVE TypingTypes'
  <2>1. pane' = pane /\ pc' = pc /\ attempt' = attempt
    BY <1>2 DEF Shell, ShellStarts, Reads, ReadKey, CommandEnds, Close, Programs
  <2>2. shell' \in [Tasks -> {"tmux", "early", "reading", "running", "closed"}]
    BY <1>2 DEF Shell, ShellStarts, Reads, ReadKey, CommandEnds, Close
  <2>3. DOMAIN keys' = Tasks /\ DOMAIN line' = Tasks /\ DOMAIN ran' = Tasks
    BY <1>2 DEF Shell, ShellStarts, Reads, ReadKey, CommandEnds, Close
  <2> QED
    BY <2>1, <2>2, <2>3
<1> QED
  BY <1>1, <1>2 DEF TNext

\* A text that shows nowhere else shows on a line that holds it.
LEMMA ShownWhole ==
  ASSUME NEW i \in Tasks, pane[i] = i, PaneInv(i), i \in Drops \ Apparent, Shows(i)
  PROVE  shell[i] = "reading" /\ line[i] = Whole(i)
<1>1. shell[i] = "reading" \/ Shown(i) = <<>>
  BY DEF Shown
<1>2. Len(Shown(i)) # 0 /\ Len(Shown(i)) # 1
  <2>1. PICK k : k \in 1..(Len(Shown(i)) - 1)
    BY DEF Shows
  <2>2. ASSUME NEW n \in {0, 1} PROVE k \notin 1..(n - 1)
    BY <2>2
  <2> QED
    BY <2>1, <2>2, Zenon
<1>3. shell[i] = "reading" /\ Shown(i) = line[i]
  <2>1. Len(<<>>) = 0
    OBVIOUS
  <2> QED
    BY <1>1, <1>2, <2>1 DEF Shown
<1>4. line[i] \in {<<>>, <<FirstHalf(i)>>, <<LastHalf(i)>>, Whole(i)}
  BY DEF PaneInv, PaneOk, Sent
<1>5. Len(line[i]) # 0 /\ Len(line[i]) # 1
  BY <1>2, <1>3, Zenon
<1>6. Len(<<>>) = 0 /\ Len(<<FirstHalf(i)>>) = 1 /\ Len(<<LastHalf(i)>>) = 1
  OBVIOUS
<1>7. line[i] # <<>> /\ line[i] # <<FirstHalf(i)>> /\ line[i] # <<LastHalf(i)>>
  BY <1>5, <1>6, Zenon
<1> QED
  BY <1>3, <1>4, <1>7

LEMMA TypingStep ==
  ASSUME TypingInv, TNext
  PROVE  TypingInv'
<1>t. TypingTypes /\ TypingTypes'
  BY TypesStep DEF TypingInv
<1>i. \A i \in Tasks : PaneInv(i) /\ TaskInv(i)
  BY DEF TypingInv
\* The other tasks and panes are as they were.
<1>1. ASSUME NEW i \in Tasks, pane' = pane, PaneInv(i)', TaskInv(i)',
             \A j \in Tasks \ {i} : /\ line'[j] = line[j] /\ keys'[j] = keys[j] /\ ran'[j] = ran[j]
                                    /\ pc'[j] = pc[j] /\ shell'[j] = shell[j]
      PROVE  TypingInv'
  <2>1. ASSUME NEW j \in Tasks \ {i} PROVE PaneInv(j)' /\ TaskInv(j)'
    BY <1>i, <1>1, <2>1 DEF PaneInv, TaskInv
  <2> QED
    BY <1>t, <1>1, <2>1 DEF TypingInv
<1>2. ASSUME NEW i \in Tasks, TypeInto(i) PROVE TypingInv'
  <2>1. pane' = pane /\ shell' = shell /\ line' = line /\ ran' = ran
    BY <1>2 DEF TypeInto, Start, Prompt, SendText, Echo, NoEcho, SendEnter, Started, Clear, Fail,
                FailSent, Send, Terminals
  <2>2. pane[i] = i
    <3>1. pc[i] # "none"
      BY <1>2 DEF TypeInto, Start, Prompt, SendText, Echo, NoEcho, SendEnter, Started, Clear, Fail,
                  FailSent
    <3> QED
      BY <1>i, <3>1 DEF TaskInv
  <2>a. PaneOk(i, line[i], keys[i], ran[i], pc[i], shell[i])
    BY <1>i DEF PaneInv
  <2>3. ASSUME NEW d, NEW s, pc' = [pc EXCEPT ![i] = d],
             (keys' = keys /\ s = keys[i]) \/ keys' = [keys EXCEPT ![i] = s],
               PaneOk(i, line[i], s, ran[i], d, shell[i]),
               i \in Control => d = "control"
        PROVE  TypingInv'
    <3>1. pc'[i] = d /\ keys'[i] = s
      BY <1>t, <2>3 DEF TypingTypes
    <3>2. PaneInv(i)' /\ TaskInv(i)'
      BY <2>1, <2>2, <2>3, <3>1 DEF PaneInv, TaskInv
    <3>3. ASSUME NEW j \in Tasks \ {i} PROVE pc'[j] = pc[j] /\ keys'[j] = keys[j]
      BY <1>t, <2>3 DEF TypingTypes
    <3> QED
      BY <1>1, <2>1, <3>2, <3>3
  <2>c. pc[i] # "queued" => i \notin Control \/ pc[i] \in {"none", "control"}
    BY <1>i DEF TaskInv
  <2>4. CASE Start(i)
    <3> DEFINE d == IF i \in Control THEN "control" ELSE "prompt"
    <3>1. pc[i] = "queued" /\ pc' = [pc EXCEPT ![i] = d] /\ keys' = keys
      BY <2>4 DEF Start, Goto
    <3>2. PaneOk(i, line[i], keys[i], ran[i], d, shell[i])
      BY <2>a, <3>1, TaskMoves
    <3> QED
      BY <2>3, <3>1, <3>2
  <2>5. CASE Prompt(i)
    <3>1. pc[i] = "prompt" /\ pc' = [pc EXCEPT ![i] = "send"] /\ keys' = keys
      BY <2>5 DEF Prompt, Goto
    <3>2. PaneOk(i, line[i], keys[i], ran[i], "send", shell[i])
      BY <2>a, <3>1, TaskMoves
    <3> QED
      BY <2>3, <2>c, <3>1, <3>2
  <2>6. CASE NoEcho(i)
    <3>1. pc[i] = "echo" /\ pc' = [pc EXCEPT ![i] = "clear"] /\ keys' = keys
      BY <2>6 DEF NoEcho, Goto
    <3>2. PaneOk(i, line[i], keys[i], ran[i], "clear", shell[i])
      BY <2>a, <3>1, TaskMoves
    <3> QED
      BY <2>3, <2>c, <3>1, <3>2
  <2>7. CASE Started(i)
    <3>1. pc[i] = "start" /\ pc' = [pc EXCEPT ![i] = "typed"] /\ keys' = keys
      BY <2>7 DEF Started, Goto
    <3>2. PaneOk(i, line[i], keys[i], ran[i], "typed", shell[i])
      BY <2>a, <3>1, TaskMoves
    <3> QED
      BY <2>3, <2>c, <3>1, <3>2
  <2>8. CASE Fail(i)
    <3>1. pc[i] \in {"prompt", "send", "enter", "clear"} /\ pc' = [pc EXCEPT ![i] = "failed"] /\ keys' = keys
      BY <2>8 DEF Fail, Goto
    <3>2. PaneOk(i, line[i], keys[i], ran[i], "failed", shell[i])
      BY <2>a, <3>1, TaskMoves
    <3> QED
      BY <2>3, <2>c, <3>1, <3>2
  <2>9. CASE Echo(i)
    <3>1. pc[i] = "echo" /\ pc' = [pc EXCEPT ![i] = "enter"] /\ keys' = keys /\ Shows(i)
      BY <2>9 DEF Echo, Goto
    <3>2. i \in Drops \ Misread => shell[i] = "reading" /\ line[i] = Whole(i)
      BY <1>i, <2>2, <3>1, ShownWhole DEF Misread
    <3>3. i \notin Misread => ~Half(i, line[i], keys[i])
      BY <2>a, <3>2, LineFacts DEF PaneOk, Half
    <3>4. PaneOk(i, line[i], keys[i], ran[i], "enter", shell[i])
      BY <2>a, <3>1, <3>2, <3>3, TaskMoves
    <3> QED
      BY <2>3, <2>c, <3>1, <3>4
  <2>10. CASE SendText(i) \/ SendEnter(i) \/ Clear(i) \/ FailSent(i)
    <3>1. \E t, d :
             /\ \/ pc[i] = "send" /\ t = Whole(i) /\ d \in {"echo", "failed"}
                \/ pc[i] = "enter" /\ t = <<Enter(i)>> /\ d \in {"start", "failed"}
                \/ pc[i] = "clear" /\ t = <<ClearLine(i)>> /\ d \in {"prompt", "notTyped", "failed"}
             /\ pc' = [pc EXCEPT ![i] = d] /\ keys' = [keys EXCEPT ![i] = keys[i] \o t]
      <4>1. pc[i] = "send" => Text(i) = Whole(i)
        BY <2>c DEF Text
      <4> QED
        BY <2>2, <2>10, <4>1 DEF SendText, SendEnter, Clear, FailSent, Send, Goto
    <3>2. PICK t, d :
             /\ \/ pc[i] = "send" /\ t = Whole(i) /\ d \in {"echo", "failed"}
                \/ pc[i] = "enter" /\ t = <<Enter(i)>> /\ d \in {"start", "failed"}
                \/ pc[i] = "clear" /\ t = <<ClearLine(i)>> /\ d \in {"prompt", "notTyped", "failed"}
             /\ pc' = [pc EXCEPT ![i] = d] /\ keys' = [keys EXCEPT ![i] = keys[i] \o t]
      BY <3>1
    <3>3. PaneOk(i, line[i], keys[i] \o t, ran[i], d, shell[i])
      BY <2>a, <3>2, TaskSends
    <3> QED
      BY <2>3, <2>c, <3>2, <3>3
  <2> QED
    BY <1>2, <2>4, <2>5, <2>6, <2>7, <2>8, <2>9, <2>10 DEF TypeInto
<1>3. ASSUME NEW p \in Tasks, Shell(p) \/ CommandEnds(p) \/ Close(p) PROVE TypingInv'
  <2>1. pane' = pane /\ pc' = pc
    BY <1>3 DEF Shell, ShellStarts, Reads, ReadKey, CommandEnds, Close, Programs
  <2>2. TaskInv(p)'
    BY <1>i, <2>1 DEF TaskInv
  <2>a. PaneOk(p, line[p], keys[p], ran[p], pc[p], shell[p])
    BY <1>i DEF PaneInv
  <2>3. ASSUME NEW j \in Tasks \ {p}
        PROVE  line'[j] = line[j] /\ keys'[j] = keys[j] /\ ran'[j] = ran[j] /\ shell'[j] = shell[j]
    <3>1. CASE ShellStarts(p) \/ CommandEnds(p) \/ Close(p)
      BY <1>t, <3>1 DEF ShellStarts, CommandEnds, Close, TypingTypes
    <3>2. CASE Reads(p)
      BY <1>t, <3>2 DEF Reads, TypingTypes
    <3>3. CASE ReadKey(p)
      BY <1>t, <3>3 DEF ReadKey, TypingTypes
    <3> QED
      BY <1>3, <3>1, <3>2, <3>3 DEF Shell
  <2>4. PaneInv(p)'
    <3>1. CASE ShellStarts(p) \/ CommandEnds(p) \/ Close(p)
      <4>1. /\ line' = line /\ keys' = keys /\ ran' = ran
            /\ shell'[p] \in {"tmux", "early"} => shell[p] \in {"tmux", "early"}
        BY <1>t, <3>1 DEF ShellStarts, CommandEnds, Close, TypingTypes
      <4> QED
        BY <2>1, <2>a, <4>1, ShellMoves DEF PaneInv
    <3>2. CASE Reads(p)
      <4>1. /\ line' = line /\ ran' = ran /\ shell[p] = "early" /\ shell'[p] = "reading"
            /\ \E k \in 0..(IF p \in Drops THEN Len(keys[p]) ELSE 0) :
                   keys'[p] = SubSeq(keys[p], k + 1, Len(keys[p]))
        BY <1>t, <3>2 DEF Reads, TypingTypes
      <4>2. CASE p \in Drops
        BY <2>1, <2>a, <4>1, <4>2, ShellDrops DEF PaneInv
      <4>3. CASE p \notin Drops
        <5>1. keys'[p] = SubSeq(keys[p], 1, Len(keys[p]))
          BY <4>1, <4>3
        <5>2. keys'[p] = keys[p]
          BY <2>a, <5>1, SubSeqFull DEF PaneOk, Sent
        <5> QED
          BY <2>1, <2>a, <4>1, <5>2, ShellMoves DEF PaneInv
      <4> QED
        BY <4>2, <4>3
    <3>3. CASE ReadKey(p)
      <4>1. shell[p] = "reading" /\ keys[p] # <<>> /\ keys'[p] = Tail(keys[p])
        BY <1>t, <3>3 DEF ReadKey, TypingTypes
      <4>2. Head(keys[p]) \in Keys(p)
        BY <2>a, <4>1, HeadTailProperties DEF PaneOk, Sent
      <4>3. CASE Head(keys[p]) # Enter(p)
        <5>1. /\ line'[p] = Held(line[p], Head(keys[p])) /\ ran' = ran /\ shell' = shell
          BY <1>t, <3>3, <4>2, <4>3, KeyFacts DEF ReadKey, TypingTypes
        <5> QED
          BY <2>1, <2>a, <4>1, <4>3, <5>1, ShellReads DEF PaneInv
      <4>4. CASE Head(keys[p]) = Enter(p)
        <5>1. /\ line'[p] = <<>>
              /\ IF line[p] = <<>> THEN ran' = ran /\ shell' = shell
                 ELSE ran'[p] = Append(ran[p], line[p]) /\ shell'[p] = "running"
          BY <1>t, <3>3, <4>2, <4>4, KeyFacts DEF ReadKey, TypingTypes
        <5> QED
          BY <2>1, <2>a, <4>1, <4>4, <5>1, ShellReads DEF PaneInv
      <4> QED
        BY <4>3, <4>4
    <3> QED
      BY <1>3, <3>1, <3>2, <3>3 DEF Shell
  <2> QED
    BY <1>1, <2>1, <2>2, <2>3, <2>4
<1> QED
  BY <1>2, <1>3 DEF TNext
-----------------------------------------------------------------------------
(* A restore. *)

\* create's lines are handed on, and its state is of no more use.
HandedOn ==
    /\ TypeOK /\ phase = "done" /\ lines = <<>> /\ left = <<1, 0>>
    /\ made = [i \in Commands |-> 0] /\ calls = "lost"

\* Nothing is typed before that.
CreateInv == HandedOn \/ (IInv /\ \A i \in Tasks : pc[i] = "none")

RInv == CreateInv /\ TypingInv

LEMMA NothingFollows ==
  ASSUME HandedOn, Next
  PROVE  FALSE
<1>1. phase = "done" /\ ~(left[1] <= left[2])
  BY DEF HandedOn
<1> QED
  BY <1>1 DEF Next, Batch, Refuse, Lose, Leftover, Collect, Alone, AloneRefused, AloneLost

\* finish hands on lines that are each the pane of their own command.
LEMMA TypeMadeStep ==
  ASSUME RInv, TypeMade
  PROVE  RInv'
<1>1. /\ phase = "done" /\ Len(lines) = N /\ Tasks = Commands /\ Nobody = None
      /\ phase' = phase /\ out' = out /\ lines' = <<>> /\ left' = <<1, 0>>
  BY RestoreAssumption DEF TypeMade
<1>2. IInv
  <2>1. lines # <<>>
    <3>1. Len(<<>>) = 0
      OBVIOUS
    <3> QED
      BY <1>1, <3>1, CreateAssumption
  <2> QED
    BY <2>1 DEF RInv, CreateInv, HandedOn
<1>3. HandedOn'
  <2>1. TypeOK'
    <3>1. /\ at' = N + 1 /\ made' = [i \in Commands |-> 0] /\ refused' = {} /\ calls' = "lost"
          /\ lines' \in Seq(0..N) /\ Len(lines') = 0
      BY <1>1 DEF TypeMade
    <3>2. left' \in (1..(N + 1)) \X (0..N)
      BY <1>1, CreateAssumption
    <3>3. out' \in Seq(Commands) /\ Len(out') <= N /\ phase' = "done"
      BY <1>1, <1>2 DEF IInv, TypeOK
    <3>4. at' \in 1..(N + 1) /\ made' \in [Commands -> Nat] /\ Len(lines') <= N
      BY <3>1, CreateAssumption
    <3> QED
      BY <3>1, <3>2, <3>3, <3>4 DEF TypeOK
  <2> QED
    BY <1>1, <2>1 DEF HandedOn, TypeMade
<1>4. TypingTypes /\ \A i \in Tasks : PaneInv(i) /\ TaskInv(i)
  BY DEF RInv, TypingInv
<1>5. PICK s \in Saves : TypeAll([i \in Commands |-> IF i \in s THEN lines[i] ELSE None])
  BY DEF TypeMade
<1>6. ASSUME NEW i \in Tasks
      PROVE  \/ pane'[i] = Nobody /\ pc'[i] = "none"
             \/ pane'[i] = i /\ pc'[i] = "queued"
  <2>1. lines[i] \in {None, i} /\ i # None
    BY <1>1, <1>2 DEF IInv, LinesTrue, Commands, None
  <2>2. pane'[i] = IF i \in s THEN lines[i] ELSE None
    BY <1>1, <1>5 DEF TypeAll
  <2>3. pc'[i] = IF pane'[i] = Nobody THEN "none" ELSE "queued"
    BY <1>5 DEF TypeAll
  <2> QED
    BY <1>1, <2>1, <2>2, <2>3
<1>7. /\ pane' = [i \in Tasks |-> IF i \in s THEN lines[i] ELSE None]
      /\ pc' = [i \in Tasks |-> IF pane'[i] = Nobody THEN "none" ELSE "queued"]
      /\ attempt' = attempt /\ shell' = shell /\ keys' = keys /\ line' = line /\ ran' = ran
      /\ \A i \in Tasks : pc[i] = "none"
  BY <1>1, <1>5 DEF TypeAll
<1>8. TypingTypes'
  <2>1. pane' \in [Tasks -> Tasks \cup {Nobody}]
    <3>1. \A i \in Tasks : pane'[i] \in Tasks \cup {Nobody}
      BY <1>6
    <3> QED
      BY <1>7, <3>1
  <2>2. pc' \in [Tasks -> Working \cup Answers \cup {"none", "queued"}]
    BY <1>7
  <2> QED
    BY <1>4, <1>7, <2>1, <2>2 DEF TypingTypes
<1>9. ASSUME NEW i \in Tasks PROVE PaneInv(i)' /\ TaskInv(i)'
  <2>1. PaneOk(i, line[i], keys[i], ran[i], "none", shell[i])
    BY <1>4, <1>7 DEF PaneInv
  <2>2. PaneOk(i, line[i], keys[i], ran[i], pc'[i], shell[i])
    BY <1>6, <2>1, TaskMoves
  <2> QED
    BY <1>6, <1>7, <2>2 DEF PaneInv, TaskInv
<1> QED
  BY <1>3, <1>8, <1>9 DEF RInv, CreateInv, TypingInv

LEMMA RestoreStep == RInv /\ [RNext]_<<vars, typing>> => RInv'
<1> SUFFICES ASSUME RInv, [RNext]_<<vars, typing>> PROVE RInv'
  OBVIOUS
<1>1. ASSUME UNCHANGED typing PROVE TypingInv' /\ \A i \in Tasks : pc'[i] = pc[i]
  <2>1. /\ pane' = pane /\ pc' = pc /\ attempt' = attempt /\ shell' = shell
        /\ keys' = keys /\ line' = line /\ ran' = ran
    BY <1>1 DEF typing
  <2> QED
    BY <2>1 DEF RInv, TypingInv, TypingTypes, PaneInv, TaskInv
<1>2. ASSUME UNCHANGED vars PROVE (HandedOn => HandedOn') /\ (IInv => IInv')
  <2>1. IInv => IInv'
    BY <1>2, Inductive
  <2>2. HandedOn => HandedOn'
    BY <1>2 DEF vars, HandedOn, TypeOK
  <2> QED
    BY <2>1, <2>2
<1>3. CASE Next /\ UNCHANGED typing
  <2>1. IInv /\ \A i \in Tasks : pc[i] = "none"
    BY <1>3, NothingFollows DEF RInv, CreateInv
  <2>2. IInv'
    BY <1>3, <2>1, Inductive
  <2> QED
    BY <1>1, <1>3, <2>1, <2>2 DEF RInv, CreateInv
<1>4. CASE TypeMade
  BY <1>4, TypeMadeStep
<1>5. CASE TNext /\ UNCHANGED vars
  <2>1. TypingInv'
    BY <1>5, TypingStep DEF RInv
  <2>2. ASSUME \A i \in Tasks : pc[i] = "none" PROVE pc' = pc
    <3>1. ASSUME NEW i \in Tasks, TypeInto(i) PROVE FALSE
      BY <2>2, <3>1 DEF TypeInto, Start, Prompt, SendText, Echo, NoEcho, SendEnter, Started, Clear,
                        Fail, FailSent
    <3> QED
      BY <1>5, <3>1 DEF TNext, Shell, ShellStarts, Reads, ReadKey, CommandEnds, Close, Programs
  <2> QED
    BY <1>2, <1>5, <2>1, <2>2 DEF RInv, CreateInv
<1>6. CASE UNCHANGED <<vars, typing>>
  BY <1>1, <1>2, <1>6 DEF RInv, CreateInv
<1> QED
  BY <1>3, <1>4, <1>5, <1>6 DEF RNext

LEMMA RestoreInvariant == RSpec => []RInv
<1>1. RInit => RInv
  BY Initially, TypingInit DEF RInit, RInv, CreateInv, TInit
<1> QED
  BY <1>1, RestoreStep, PTL DEF RSpec

\* create's variables and those of typing keep their types, in a whole restore.
THEOREM RestoreTypes == RSpec => [](TypeOK /\ TTypeOK)
<1>1. RInv => TypeOK
  BY DEF RInv, CreateInv, HandedOn, IInv
<1>2. RInv => TTypeOK
  <2> SUFFICES ASSUME RInv PROVE TTypeOK
    OBVIOUS
  <2>1. TypingTypes /\ \A p \in Tasks : Sent(p, line[p], keys[p])
    BY DEF RInv, TypingInv, PaneInv, PaneOk
  <2>2. ASSUME NEW p \in Tasks
        PROVE  /\ keys[p] \in Seq(Tasks \X {"head", "tail", "C-u", "Enter"})
               /\ line[p] \in Seq(Tasks \X {"head", "tail", "C-u", "Enter"})
    <3> DEFINE K == Tasks \X {"head", "tail", "C-u", "Enter"}
    <3>1. FirstHalf(p) \in K /\ LastHalf(p) \in K /\ ClearLine(p) \in K /\ Enter(p) \in K
      BY DEF FirstHalf, LastHalf, ClearLine, Enter
    <3>2. Keys(p) \subseteq K
      BY <3>1 DEF Keys
    <3> HIDE DEF K
    <3>3. Whole(p) = <<FirstHalf(p), LastHalf(p)>>
      BY DEF Whole, FirstHalf, LastHalf
    <3>4. /\ <<>> \in Seq(K) /\ <<FirstHalf(p)>> \in Seq(K) /\ <<LastHalf(p)>> \in Seq(K)
          /\ <<FirstHalf(p), LastHalf(p)>> \in Seq(K)
      BY <3>1
    <3>5. keys[p] \in Seq(Keys(p)) /\ line[p] \in {<<>>, <<FirstHalf(p)>>, <<LastHalf(p)>>, Whole(p)}
      BY <2>1 DEF Sent
    <3>6. keys[p] \in Seq(K)
      BY <3>2, <3>5
    <3> QED
      BY <3>3, <3>4, <3>5, <3>6 DEF K
  <2>3. \A p \in Tasks : \A s \in {keys[p], line[p]} :
            s \in Seq(Tasks \X {"head", "tail", "C-u", "Enter"})
    BY <2>2
  <2> QED
    BY <2>1, <2>3 DEF TypingTypes, TTypeOK
<1> QED
  BY <1>1, <1>2, RestoreInvariant, PTL

\* What create promises stays true while its panes are typed into.
THEOREM CreateKeepsItsWord == RSpec => [](MadeOnce /\ LinesMatch /\ RefusedCostsItself)
<1>1. HandedOn => MadeOnce /\ LinesMatch /\ RefusedCostsItself
  <2> SUFFICES ASSUME HandedOn PROVE MadeOnce /\ LinesMatch /\ RefusedCostsItself
    OBVIOUS
  <2>1. Len(lines) = 0
    BY DEF HandedOn
  <2>2. \A i \in Commands : made[i] = 0
    BY DEF HandedOn
  <2>3. LinesMatch
    BY <2>1 DEF LinesMatch
  <2> QED
    BY <2>2, <2>3 DEF HandedOn, MadeOnce, RefusedCostsItself
<1>2. IInv => MadeOnce /\ LinesMatch /\ RefusedCostsItself
  BY CreateMeans
<1>3. RInv => MadeOnce /\ LinesMatch /\ RefusedCostsItself
  BY <1>1, <1>2 DEF RInv, CreateInv
<1> QED
  BY <1>3, RestoreInvariant, PTL

\* In whatever order shells start, lose keys, close, and calls are lost, a shell
\* runs nothing but the whole command of its pane, and that once; and one that
\* never showed it is left with an empty line.  A shell that may lose a text its
\* prompt shows may run a part of it (Misread).
THEOREM WholeCommandsRun == RSpec => []OnlyWholeCommands
<1>1. RInv => OnlyWholeCommands
  <2> SUFFICES ASSUME RInv, NEW i \in Tasks
               PROVE  /\ i \notin Misread => ran[i] \in {<<>>, <<Whole(i)>>}
                      /\ pc[i] = "notTyped" /\ shell[pane[i]] = "reading" /\ keys[pane[i]] = <<>> =>
                             line[pane[i]] = <<>> /\ ran[pane[i]] = <<>>
    BY DEF OnlyWholeCommands
  <2>1. PaneOk(i, line[i], keys[i], ran[i], pc[i], shell[i]) /\ TaskInv(i)
    BY DEF RInv, TypingInv, PaneInv
  <2>2. ~Ends(<<>>, ClearLine(i))
    BY EmptySeq DEF Ends
  <2>3. pc[i] = "notTyped" => pane[i] = i
    BY <2>1 DEF TaskInv
  <2> QED
    BY <2>1, <2>2, <2>3 DEF PaneOk
<1> QED
  BY <1>1, RestoreInvariant, PTL
=============================================================================
