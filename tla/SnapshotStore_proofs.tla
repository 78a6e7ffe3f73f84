------------------------ MODULE SnapshotStore_proofs ------------------------
(***************************************************************************)
(* Proofs about SnapshotStore, for any panes, any number of snapshots to   *)
(* keep and any bound of the clock.                                        *)
(***************************************************************************)
EXTENDS StoreHistory, FiniteSetTheorems, WellFoundedInduction, TLAPS

\* The names of the files have a bound, so one of them is the newest, and a
\* file about to be made has a time for its name.
Bounded ==
    /\ \E n \in Nat : \A t \in Entries : t <= n
    /\ saver.pc = "rename" => clock > 0

\* While the clock goes forward, the snapshot written last has the latest
\* name, whatever the save in progress has come to.
NewestInv ==
    /\ Entries \subseteq 1..clock
    /\ last.path = NoFile => Entries = {}
    /\ last.path # NoFile =>
           last.path \in Entries /\ (\A t \in Entries : t <= last.path) /\ files[last.path] = last.snap
    /\ saver.pc = "rename" => clock \notin Entries
    /\ saver.pc \in {"remove", "prune"} => saver.path = last.path /\ last.path # NoFile
    /\ saver.pc = "prune" => saver.todo = Entries

\* A capture knows of every live pane that has a scrollback file, and once it
\* has loaded the snapshots, of every pane in one that was there before.
CaptureInv ==
    /\ capture.pc # "idle" => scroll \cap live.panes \subseteq capture.live
    /\ capture.pc = "write" => capture.todo \subseteq capture.live
    /\ capture.pc = "load" /\ ~crossed =>
           \A t \in Entries : t \in capture.todo \/ files[t].panes \subseteq capture.keep
    /\ capture.pc = "remove" => capture.todo \cap live.panes = {}
    /\ capture.pc = "remove" /\ ~crossed => \A t \in Entries : files[t].panes \cap capture.todo = {}
-----------------------------------------------------------------------------
(* Facts about sets of naturals. *)

Less == {e \in Nat \X Nat : e[1] < e[2]}

LEMMA LessWellFounded == IsWellFoundedOn(Less, Nat)
  BY NatLessThanWellFounded DEF OpToRel, Less

LEMMA LeastExists ==
  ASSUME NEW S, S \subseteq Nat, S # {}
  PROVE  \E m \in S : \A k \in S : m <= k
<1>1. PICK m \in S : \A k \in S : ~(<<k, m>> \in Less)
  BY WFMin, LessWellFounded
<1>2. ASSUME NEW k \in Nat, NEW n \in Nat, k < n PROVE <<k, n>> \in Less
  BY <1>2 DEF Less
<1>3. \A k \in S : ~(k < m)
  BY <1>1, <1>2
<1> QED
  BY <1>3

LEMMA MinIsLeast ==
  ASSUME NEW S, S \subseteq Nat, S # {}
  PROVE  Min(S) \in S /\ \A k \in S : Min(S) <= k
  BY LeastExists DEF Min

\* The least bound of a bounded set is its greatest element.
LEMMA MaxIsGreatest ==
  ASSUME NEW S, S \subseteq Nat, S # {}, NEW n \in Nat, \A k \in S : k <= n
  PROVE  Max(S) \in S /\ \A k \in S : k <= Max(S)
<1> DEFINE T == {k \in Nat : \A j \in S : j <= k}
<1>1. PICK t \in T : \A k \in T : t <= k
  <2>1. T # {} /\ T \subseteq Nat
    OBVIOUS
  <2> HIDE DEF T
  <2> QED
    BY <2>1, LeastExists
<1>2. t \in S
  <2> SUFFICES ASSUME t \notin S PROVE FALSE
    OBVIOUS
  <2>1. \A j \in S : j < t
    BY <1>1
  <2>2. PICK j \in S : TRUE
    OBVIOUS
  <2>3. t \in Nat /\ t > 0
    BY <2>1, <2>2
  <2>4. t - 1 \in T
    BY <2>1, <2>3
  <2>5. ~(t <= t - 1)
    BY <2>3
  <2> QED
    BY <1>1, <2>4, <2>5
<1> QED
  BY <1>1, <1>2 DEF Max

LEMMA MaxOf ==
  ASSUME NEW S, S \subseteq Nat, NEW m \in S, \A k \in S : k <= m
  PROVE  Max(S) = m
<1>1. Max(S) \in S /\ \A k \in S : k <= Max(S)
  BY MaxIsGreatest
<1>2. Max(S) \in Nat /\ m \in Nat /\ m <= Max(S) /\ Max(S) <= m
  BY <1>1
<1> QED
  BY <1>2

\* Of several names, the oldest is not the newest.
LEMMA OldestIsNotNewest ==
  ASSUME NEW S, S \subseteq Nat, IsFiniteSet(S), Cardinality(S) > 1,
         NEW m \in S, \A k \in S : k <= m
  PROVE  Min(S) # m
<1> SUFFICES ASSUME Min(S) = m PROVE FALSE
  OBVIOUS
<1>1. ASSUME NEW k \in S PROVE k = m
  <2>1. m <= k /\ k <= m /\ k \in Nat /\ m \in Nat
    BY MinIsLeast
  <2> QED
    BY <2>1
<1>2. S = {m}
  BY <1>1
<1> QED
  BY <1>2, FS_Singleton
-----------------------------------------------------------------------------
LEMMA NothingType == Nothing \in Content
  BY DEF Nothing, Content

LEMMA IdleTypes ==
  /\ IdleSaver \in [pc : {"idle", "commit", "rename", "remove", "prune"}, snap : Content,
                    replace : Nat, path : Nat, todo : SUBSET Nat]
  /\ IdleSaver.pc = "idle" /\ IdleSaver.todo = {}
  /\ IdleCapture \in [pc : {"idle", "write", "load", "remove"}, live : SUBSET Panes, keep : SUBSET Panes,
                      todo : SUBSET (Panes \cup Nat)]
  /\ IdleCapture.pc = "idle"
  BY NothingType DEF IdleSaver, IdleCapture, NoFile

LEMMA TypeInit == Init => TypeOK
<1> SUFFICES ASSUME Init PROVE TypeOK
  OBVIOUS
<1>1. Entries = {}
  BY DEF Init, Entries
<1>2. last \in [path : Nat, snap : Content]
  BY NothingType DEF Init, NoFile
<1>3. clock \in 0..MaxTime
  BY StoreAssumption DEF Init
<1>4. live \in Content /\ scroll \subseteq Panes /\ crossed \in BOOLEAN
  BY NothingType DEF Init
<1>5. IsFiniteSet(Entries) /\ IsFiniteSet(saver.todo)
  BY <1>1, IdleTypes, FS_EmptySet DEF Init
<1> QED
  BY <1>1, <1>2, <1>3, <1>4, <1>5, IdleTypes DEF Init, TypeOK

\* The newest file, when there is one, is a file.
LEMMA NewestIsEntry ==
  ASSUME TypeOK, Bounded, Entries # {} PROVE Newest \in Entries
  BY MaxIsGreatest DEF TypeOK, Bounded, Newest

LEMMA ReplacedType == TypeOK /\ Bounded => Replaced \in Nat
  BY NewestIsEntry DEF TypeOK, Replaced, NoFile

LEMMA WithoutFile ==
  ASSUME NEW f, NEW t
  PROVE  DOMAIN Without(f, t) = DOMAIN f \ {t} /\ \A u \in DOMAIN f \ {t} : Without(f, t)[u] = f[u]
  BY DEF Without

\* What the steps do to the files: nothing, one goes, or one is made.
Kept == Entries' \subseteq Entries /\ \A t \in Entries' : files'[t] = files[t]
Made(t) ==
    /\ Entries' = Entries \cup {t} /\ files'[t] = saver.snap
    /\ \A u \in Entries \ {t} : files'[u] = files[u]

LEMMA RenameMakes ==
  ASSUME TypeOK, Bounded, Rename
  PROVE  \E t \in Nat \ {NoFile} :
             /\ Made(t) /\ clock <= t
             /\ \A u \in clock..t - 1 : u \in Entries
             /\ last' = [path |-> t, snap |-> saver.snap]
             /\ saver' = [saver EXCEPT !.pc = "remove", !.path = t]
<1>1. PICK t \in clock..MaxTime + Cardinality(Entries) :
          /\ \A u \in clock..t - 1 : u \in Entries /\ u # saver.replace
          /\ files' = [u \in Entries \cup {t} |-> IF u = t THEN saver.snap ELSE files[u]]
          /\ last' = [path |-> t, snap |-> saver.snap]
          /\ saver' = [saver EXCEPT !.pc = "remove", !.path = t]
  BY DEF Rename
<1>2. clock \in Nat /\ clock > 0 /\ clock <= t /\ t \in Nat \ {NoFile}
  BY <1>1, StoreAssumption, FS_CardinalityType DEF Rename, TypeOK, Bounded, NoFile
<1>3. Made(t)
  BY <1>1 DEF Made, Entries
<1> QED
  BY <1>1, <1>2, <1>3

LEMMA OthersKeep ==
  ASSUME TypeOK, Remove \/ Prune \/ UNCHANGED files PROVE Kept
<1>1. ASSUME NEW t, files' = Without(files, t) PROVE Kept
  BY <1>1, WithoutFile DEF Kept, Entries
<1>2. ASSUME files' = files PROVE Kept
  BY <1>2 DEF Kept, Entries
<1>3. CASE Remove
  BY <1>1, <1>2, <1>3 DEF Remove
<1>4. CASE Prune
  BY <1>1, <1>2, <1>4 DEF Prune
<1> QED
  BY <1>2, <1>3, <1>4

\* Every variable keeps its type.
LEMMA TypeNext == TypeOK /\ Bounded /\ [Next]_vars => TypeOK' /\ Bounded'
<1> SUFFICES ASSUME TypeOK, Bounded, [Next]_vars PROVE TypeOK' /\ Bounded'
  OBVIOUS
<1> DEFINE FilesOK == IsFiniteSet(Entries) /\ Entries \subseteq Nat \ {NoFile} /\ \A t \in Entries : files[t] \in Content
           SaverOK == /\ saver \in [pc : {"idle", "commit", "rename", "remove", "prune"}, snap : Content,
                                    replace : Nat, path : Nat, todo : SUBSET Nat]
                      /\ IsFiniteSet(saver.todo)
           CaptureOK == capture \in [pc : {"idle", "write", "load", "remove"}, live : SUBSET Panes,
                                     keep : SUBSET Panes, todo : SUBSET (Panes \cup Nat)]
           RestOK == /\ live \in Content /\ clock \in 0..MaxTime /\ scroll \subseteq Panes
                     /\ last \in [path : Nat, snap : Content] /\ crossed \in BOOLEAN
<1>t. FilesOK /\ SaverOK /\ CaptureOK /\ RestOK
  BY DEF TypeOK
<1>p. FilesOK' /\ SaverOK' /\ CaptureOK' /\ RestOK' => TypeOK'
  BY DEF TypeOK
<1> HIDE DEF FilesOK, SaverOK, CaptureOK, RestOK
<1>k. Kept => FilesOK' /\ \E n \in Nat : \A t \in Entries' : t <= n
  BY <1>t, FS_Subset DEF Kept, FilesOK, Bounded
<1>o. Remove \/ Prune \/ UNCHANGED files => Kept
  BY OthersKeep
<1>1. CASE Edit
  <2>1. RestOK'
    BY <1>1, <1>t DEF Edit, RestOK, Content
  <2> QED
    BY <1>1, <1>t, <1>p, <1>k, <1>o, <2>1 DEF Edit, SaverOK, CaptureOK, Bounded
<1>2. CASE Read \/ Unchanged \/ Crash
  <2>1. SaverOK' /\ saver'.pc # "rename"
    BY <1>2, <1>t, IdleTypes, FS_EmptySet DEF Read, Unchanged, Crash, SaverOK, RestOK
  <2> QED
    BY <1>2, <1>t, <1>p, <1>k, <1>o, <2>1 DEF Read, Unchanged, Crash, CaptureOK, RestOK, Bounded
<1>3. CASE Commit
  <2>1. SaverOK'
    BY <1>3, <1>t, ReplacedType DEF Commit, SaverOK
  <2>2. clock' \in 1..MaxTime
    BY <1>3 DEF Commit
  <2>3. RestOK' /\ CaptureOK' /\ clock' > 0
    BY <1>3, <1>t, <2>2, StoreAssumption DEF Commit, CaptureOK, RestOK
  <2> QED
    BY <1>3, <1>p, <1>k, <1>o, <2>1, <2>3 DEF Commit, Bounded
<1>4. CASE Rename
  <2>1. PICK t \in Nat \ {NoFile} :
            /\ Made(t)
            /\ last' = [path |-> t, snap |-> saver.snap]
            /\ saver' = [saver EXCEPT !.pc = "remove", !.path = t]
    BY <1>4, RenameMakes
  <2>2. FilesOK'
    BY <1>t, <2>1, FS_AddElement DEF FilesOK, SaverOK, Made
  <2>3. \E n \in Nat : \A u \in Entries' : u <= n
    <3>1. PICK n \in Nat : \A u \in Entries : u <= n
      BY DEF Bounded
    <3>2. \A u \in Entries' : u <= n + t
      BY <1>t, <2>1, <3>1 DEF FilesOK, Made
    <3> QED
      BY <3>1, <3>2
  <2>4. SaverOK' /\ saver'.pc = "remove"
    BY <1>t, <2>1 DEF SaverOK
  <2>5. last' \in [path : Nat, snap : Content]
    BY <1>t, <2>1 DEF SaverOK
  <2>6. crossed' \in BOOLEAN /\ CaptureOK' /\ UNCHANGED <<live, clock, scroll>>
    BY <1>4, <1>t DEF Rename, CaptureOK, RestOK
  <2> QED
    BY <1>t, <1>p, <2>2, <2>3, <2>4, <2>5, <2>6 DEF Bounded, RestOK
<1>5. CASE Remove
  <2>1. FilesOK'
    BY <1>5, <1>k, <1>o
  <2>2. SaverOK' /\ saver'.pc = "prune"
    BY <1>5, <1>t, <2>1 DEF Remove, SaverOK, FilesOK, Entries
  <2> QED
    BY <1>5, <1>t, <1>p, <1>k, <1>o, <2>2 DEF Remove, CaptureOK, RestOK, Bounded
<1>6. CASE Prune
  <2>1. IsFiniteSet(saver.todo \ {Min(saver.todo)})
    BY <1>t, FS_RemoveElement DEF SaverOK
  <2>2. ASSUME saver' = [saver EXCEPT !.todo = @ \ {Min(@)}]
        PROVE  SaverOK' /\ saver'.pc # "rename"
    <3>1. saver'.todo = saver.todo \ {Min(saver.todo)} /\ saver'.pc = saver.pc
      BY <1>t, <2>2 DEF SaverOK
    <3>2. saver' \in [pc : {"idle", "commit", "rename", "remove", "prune"}, snap : Content,
                      replace : Nat, path : Nat, todo : SUBSET Nat]
      BY <1>t, <2>2 DEF SaverOK
    <3> QED
      BY <1>6, <2>1, <3>1, <3>2 DEF Prune, SaverOK
  <2>3. ASSUME saver' = IdleSaver PROVE SaverOK' /\ saver'.pc # "rename"
    <3>1. IsFiniteSet(saver'.todo) /\ saver'.pc # "rename"
      BY <2>3, IdleTypes, FS_EmptySet
    <3> QED
      BY <2>3, <3>1, IdleTypes DEF SaverOK
  <2>4. SaverOK' /\ saver'.pc # "rename"
    BY <1>6, <2>2, <2>3 DEF Prune
  <2> QED
    BY <1>6, <1>t, <1>p, <1>k, <1>o, <2>4 DEF Prune, CaptureOK, RestOK, Bounded
<1>7. ASSUME CaptureOK', UNCHANGED <<live, clock, files, saver, last>>, scroll' \subseteq Panes,
             crossed' \in BOOLEAN
      PROVE  TypeOK' /\ Bounded'
  BY <1>7, <1>t, <1>p, <1>k, <1>o DEF SaverOK, RestOK, Bounded
<1>8. CASE List
  BY <1>8, <1>t, <1>7 DEF List, CaptureOK, RestOK, Content
<1>9. ASSUME NEW x \in Panes, WriteScrollback(x) PROVE TypeOK' /\ Bounded'
  BY <1>9, <1>t, <1>7 DEF WriteScrollback, CaptureOK, RestOK
<1>10. CASE ListEntries
  BY <1>10, <1>t, <1>7 DEF ListEntries, CaptureOK, RestOK, FilesOK
<1>11. ASSUME NEW t, Load(t) PROVE TypeOK' /\ Bounded'
  <2>1. t \in Entries => files[t].panes \subseteq Panes
    BY <1>t DEF FilesOK, Content
  <2> QED
    BY <1>11, <1>t, <1>7, <2>1 DEF Load, CaptureOK, RestOK
<1>12. CASE ListScroll
  BY <1>12, <1>t, <1>7 DEF ListScroll, CaptureOK, RestOK
<1>13. CASE RemoveScrollback
  <2>1. CASE capture' = IdleCapture /\ crossed' = FALSE /\ UNCHANGED scroll
    BY <1>13, <1>t, <1>7, <2>1, IdleTypes DEF RemoveScrollback, CaptureOK, RestOK
  <2>2. ASSUME NEW x \in capture.todo, scroll' = scroll \ {x},
               capture' = [capture EXCEPT !.todo = @ \ {x}], UNCHANGED crossed
        PROVE  TypeOK' /\ Bounded'
    BY <1>13, <1>t, <1>7, <2>2 DEF RemoveScrollback, CaptureOK, RestOK
  <2> QED
    BY <1>13, <2>1, <2>2 DEF RemoveScrollback
<1>14. CASE UNCHANGED vars
  BY <1>14, <1>t, <1>7 DEF vars, CaptureOK, RestOK
<1> QED
  BY <1>1, <1>2, <1>3, <1>4, <1>5, <1>6, <1>8, <1>9, <1>10, <1>11, <1>12, <1>13, <1>14
     DEF Next, Saving, Capturing
-----------------------------------------------------------------------------
\* Every variable of the folder keeps its type, whatever crashes and however
\* the clock moves.
THEOREM TypeCorrect == Spec => []TypeOK
<1>1. Init => Bounded
  <2>1. Init => Entries = {} /\ saver.pc # "rename"
    BY IdleTypes DEF Init, Entries
  <2> QED
    BY <2>1 DEF Bounded
<1> QED
  BY <1>1, TypeInit, TypeNext, PTL DEF Spec
-----------------------------------------------------------------------------
(* The newest snapshot. *)

LEMMA NewestInit == Init => NewestInv
<1>1. Init => Entries = {} /\ last.path = NoFile
  BY DEF Init, Entries
<1>2. Init => saver.pc = "idle"
  BY IdleTypes DEF Init
<1> QED
  BY <1>1, <1>2 DEF NewestInv

\* A step of the save that leaves the files alone, or drops some that are not
\* the one written last, keeps that one the newest.
LEMMA NewestKept ==
  ASSUME TypeOK, NewestInv, Kept, last' = last, clock' \in Nat, clock <= clock',
         last.path # NoFile => last.path \in Entries',
         saver'.pc = "rename" => clock' \notin Entries',
         saver'.pc \in {"remove", "prune"} => saver'.path = last.path /\ last.path # NoFile,
         saver'.pc = "prune" => saver'.todo = Entries'
  PROVE  NewestInv'
<1>1. clock \in Nat /\ Entries \subseteq Nat
  BY StoreAssumption DEF TypeOK
<1>2. Entries' \subseteq 1..clock'
  <2>1. ASSUME NEW t \in Entries' PROVE t \in 1..clock /\ t \in Nat
    BY <1>1 DEF NewestInv, Kept
  <2>2. ASSUME NEW t \in Entries' PROVE t \in 1..clock'
    BY <1>1, <2>1
  <2> QED
    BY <2>2
<1>3. last'.path = NoFile => Entries' = {}
  BY DEF NewestInv, Kept
<1>4. last'.path # NoFile =>
        last'.path \in Entries' /\ (\A t \in Entries' : t <= last'.path) /\ files'[last'.path] = last'.snap
  BY DEF NewestInv, Kept
<1> QED
  BY <1>2, <1>3, <1>4 DEF NewestInv

LEMMA NewestNext ==
  ASSUME ~StepsBack, TypeOK, Bounded, NewestInv, [Next]_vars
  PROVE  NewestInv'
<1>t. clock \in Nat /\ Entries \subseteq Nat \ {NoFile} /\ IsFiniteSet(Entries)
  BY StoreAssumption DEF TypeOK
<1>s. saver \in [pc : {"idle", "commit", "rename", "remove", "prune"}, snap : Content,
                 replace : Nat, path : Nat, todo : SUBSET Nat]
  BY DEF TypeOK
<1>n. NewestInv
  OBVIOUS
<1>k. UNCHANGED files => Kept /\ Entries' = Entries
  BY DEF Kept, Entries
<1>i. ASSUME UNCHANGED <<files, last, clock>>, saver' = saver \/ saver'.pc \in {"idle", "commit"}
      PROVE  NewestInv'
  <2>1. last.path # NoFile => last.path \in Entries'
    BY <1>i, <1>k DEF NewestInv
  <2>2. saver'.pc = "rename" => clock' \notin Entries'
    BY <1>i, <1>k DEF NewestInv
  <2>3. saver'.pc \in {"remove", "prune"} => saver'.path = last.path /\ last.path # NoFile
    BY <1>i, <1>k DEF NewestInv
  <2>4. saver'.pc = "prune" => saver'.todo = Entries'
    BY <1>i, <1>k DEF NewestInv
  <2> QED
    BY <1>i, <1>t, <1>k, <2>1, <2>2, <2>3, <2>4, NewestKept
<1>1. CASE Edit
  BY <1>1, <1>i DEF Edit
<1>2. CASE Read \/ Unchanged \/ Crash
  BY <1>2, <1>i, <1>s, IdleTypes DEF Read, Unchanged, Crash
<1>3. CASE Commit
  <2>1. clock' = clock + 1 /\ Kept /\ Entries' = Entries /\ last' = last
    BY <1>3, <1>k DEF Commit
  <2>2. saver'.pc = "rename"
    BY <1>3, <1>s DEF Commit
  <2>3. clock' \notin Entries'
    BY <1>t, <1>n, <2>1 DEF NewestInv
  <2>4. last.path # NoFile => last.path \in Entries'
    BY <2>1 DEF NewestInv
  <2> QED
    BY <1>t, <2>1, <2>2, <2>3, <2>4, NewestKept
<1>4. CASE Rename
  <2>1. PICK t \in Nat \ {NoFile} :
            /\ Made(t) /\ clock <= t
            /\ \A u \in clock..t - 1 : u \in Entries
            /\ last' = [path |-> t, snap |-> saver.snap]
            /\ saver' = [saver EXCEPT !.pc = "remove", !.path = t]
    BY <1>4, RenameMakes
  <2>2. clock \notin Entries /\ clock' = clock
    BY <1>4 DEF Rename, NewestInv
  <2>3. t = clock
    <3>1. clock < t => clock \in clock..t - 1
      BY <1>t, <2>1
    <3> QED
      BY <1>t, <2>1, <2>2, <3>1
  <2>4. Entries' \subseteq 1..clock /\ \A u \in Entries' : u <= t
    BY <1>t, <2>1, <2>3 DEF Made, NewestInv, NoFile
  <2>5. last'.path = t /\ t # NoFile /\ files'[t] = last'.snap /\ t \in Entries'
    BY <2>1 DEF Made
  <2>6. saver'.pc = "remove" /\ saver'.path = t
    BY <1>s, <2>1
  <2> QED
    BY <2>2, <2>4, <2>5, <2>6 DEF NewestInv
<1>5. CASE Remove
  <2>1. Kept
    BY <1>5, OthersKeep
  <2>2. saver.path = last.path /\ last.path # NoFile /\ last.path \in Entries
    BY <1>5 DEF Remove, NewestInv
  <2>3. last.path \in Entries'
    <3>1. CASE saver.replace # saver.path
      <4>1. files' = Without(files, saver.replace)
        BY <1>5, <3>1 DEF Remove
      <4>2. Entries' = Entries \ {saver.replace}
        BY <4>1, WithoutFile DEF Entries
      <4> QED
        BY <2>2, <3>1, <4>2
    <3>2. CASE saver.replace = saver.path
      BY <1>5, <2>2, <3>2 DEF Remove, Entries
    <3> QED
      BY <3>1, <3>2
  <2>4. saver'.pc = "prune" /\ saver'.path = last.path /\ saver'.todo = Entries'
    BY <1>5, <1>s, <2>2 DEF Remove, Entries
  <2>5. UNCHANGED <<last, clock>>
    BY <1>5 DEF Remove
  <2> QED
    BY <1>t, <2>1, <2>2, <2>3, <2>4, <2>5, NewestKept
<1>6. CASE Prune
  <2>1. UNCHANGED <<last, clock>>
    BY <1>6 DEF Prune
  <2>2. CASE saver' = IdleSaver /\ UNCHANGED files
    BY <1>i, <2>1, <2>2, IdleTypes
  <2>3. CASE /\ Cardinality(saver.todo) > Keep
             /\ files' = Without(files, Min(saver.todo))
             /\ saver' = [saver EXCEPT !.todo = @ \ {Min(@)}]
    <3>1. saver.todo = Entries /\ saver.path = last.path /\ last.path # NoFile /\ last.path \in Entries
          /\ \A t \in Entries : t <= last.path
      BY <1>6 DEF Prune, NewestInv
    <3>2. Cardinality(Entries) > 1
      BY <1>t, <2>3, <3>1, StoreAssumption, FS_CardinalityType
    <3>3. Min(Entries) # last.path
      BY <1>t, <3>1, <3>2, OldestIsNotNewest
    <3>4. Entries' = Entries \ {Min(Entries)}
      BY <2>3, <3>1, WithoutFile DEF Entries
    <3>5. Kept
      BY <1>6, OthersKeep
    <3>6. saver'.pc = "prune" /\ saver'.path = last.path /\ saver'.todo = Entries'
      BY <1>6, <1>s, <2>3, <3>1, <3>4 DEF Prune
    <3> QED
      BY <1>t, <2>1, <3>1, <3>3, <3>4, <3>5, <3>6, NewestKept
  <2> QED
    BY <1>6, <2>2, <2>3 DEF Prune
<1>7. CASE Capturing \/ UNCHANGED vars
  <2>1. UNCHANGED <<files, last, clock, saver>>
    BY <1>7 DEF Capturing, List, ListEntries, ListScroll, RemoveScrollback, WriteScrollback, Load, vars
  <2> QED
    BY <1>i, <2>1
<1> QED
  BY <1>1, <1>2, <1>3, <1>4, <1>5, <1>6, <1>7 DEF Next, Saving

\* The newest file is the one written last.
LEMMA NewestOf ==
  ASSUME TypeOK, NewestInv, last.path # NoFile PROVE Newest = last.path
<1>1. last.path \in Entries /\ (\A t \in Entries : t <= last.path) /\ Entries \subseteq Nat
  BY DEF TypeOK, NewestInv
<1> QED
  BY <1>1, MaxOf DEF Newest

LEMMA StoreInvariant ==
  ASSUME ~StepsBack PROVE Spec => [](TypeOK /\ Bounded /\ NewestInv)
<1>1. Init => TypeOK /\ Bounded /\ NewestInv
  <2>1. Init => Entries = {} /\ saver.pc # "rename"
    BY IdleTypes DEF Init, Entries
  <2> QED
    BY <2>1, TypeInit, NewestInit DEF Bounded
<1>2. TypeOK /\ Bounded /\ NewestInv /\ [Next]_vars => (TypeOK /\ Bounded /\ NewestInv)'
  BY TypeNext, NewestNext
<1> QED
  BY <1>1, <1>2, PTL DEF Spec

\* With a clock that goes forward, whatever crashes between two file
\* operations of a save, the newest snapshot that can be read is the one
\* written last.
THEOREM NewestReadable ==
  ASSUME ~StepsBack PROVE Spec => []NewestIsLast
<1>1. TypeOK /\ NewestInv => NewestIsLast
  BY NewestOf DEF NewestInv, NewestIsLast
<1> QED
  BY <1>1, StoreInvariant, PTL

\* A save that finished leaves at most Keep files, and its own is the newest.
THEOREM PruneCorrect ==
  ASSUME ~StepsBack PROVE Spec => PruneKeepsNewest
<1>1. ASSUME TypeOK, NewestInv, Finishes
      PROVE  Cardinality(Entries) <= Keep /\ saver.path = Newest
  <2>1. saver.todo = Entries /\ saver.path = last.path /\ last.path # NoFile
    BY <1>1 DEF Finishes, Prune, NewestInv
  <2>2. ~(Cardinality(saver.todo) > Keep)
    BY <1>1 DEF Finishes, Prune, TypeOK
  <2>3. Cardinality(Entries) \in Nat /\ Keep \in Nat
    BY <1>1, StoreAssumption, FS_CardinalityType DEF TypeOK
  <2> QED
    BY <1>1, <2>1, <2>2, <2>3, NewestOf
<1>2. TypeOK /\ NewestInv => [Finishes => Cardinality(Entries) <= Keep /\ saver.path = Newest]_vars
  BY <1>1
<1> QED
  BY <1>2, StoreInvariant, PTL DEF PruneKeepsNewest

\* After a save that went through, the snapshot it wrote is there.
THEOREM SaveLeavesItsSnapshot ==
  ASSUME ~StepsBack PROVE Spec => WrittenStays
<1>1. TypeOK /\ NewestInv => [Finishes => saver.path \in Entries]_vars
  BY DEF NewestInv, Finishes, Prune
<1> QED
  BY <1>1, StoreInvariant, PTL DEF WrittenStays
-----------------------------------------------------------------------------
(* The scrollback files. *)

CaptureType ==
    capture \in [pc : {"idle", "write", "load", "remove"}, live : SUBSET Panes, keep : SUBSET Panes,
                 todo : SUBSET (Panes \cup Nat)]

LEMMA CaptureNext ==
  ASSUME TypeOK, Bounded, CaptureInv, [Next]_vars
  PROVE  CaptureInv'
<1>t. CaptureType /\ live \in Content
  BY DEF TypeOK, CaptureType
<1>c. CaptureInv
  OBVIOUS
<1>k. ASSUME Kept, UNCHANGED <<live, scroll, capture, crossed>> PROVE CaptureInv'
  BY <1>c, <1>k DEF CaptureInv, Kept
<1>u. UNCHANGED files => Kept
  BY DEF Kept, Entries
<1>1. CASE Edit
  <2>1. live'.panes \subseteq live.panes \/ \E x \in Panes : Unused(x) /\ live'.panes = live.panes \cup {x}
    BY <1>1, <1>t DEF Edit, Content
  <2>2. UNCHANGED <<scroll, capture, crossed, files>> /\ Entries' = Entries
    BY <1>1 DEF Edit, Entries
  <2>3. CASE live'.panes \subseteq live.panes
    BY <1>c, <2>2, <2>3 DEF CaptureInv
  <2>4. ASSUME NEW x, Unused(x), live'.panes = live.panes \cup {x} PROVE CaptureInv'
    <3>1. x \notin scroll /\ x \notin capture.todo
      BY <2>4 DEF Unused
    <3> QED
      BY <1>c, <2>2, <2>4, <3>1 DEF CaptureInv
  <2> QED
    BY <2>1, <2>3, <2>4
<1>2. CASE Read \/ Unchanged \/ Crash \/ Commit
  BY <1>2, <1>k, <1>u DEF Read, Unchanged, Crash, Commit
<1>3. CASE Rename
  <2>1. UNCHANGED <<live, scroll, capture>> /\ crossed' = (crossed \/ capture.pc \in {"load", "remove"})
    BY <1>3 DEF Rename
  <2> QED
    BY <1>c, <2>1 DEF CaptureInv
<1>4. CASE Remove \/ Prune
  <2>1. UNCHANGED <<live, scroll, capture, crossed>>
    BY <1>4 DEF Remove, Prune
  <2> QED
    BY <1>4, <1>k, <2>1, OthersKeep
<1>5. CASE List
  <2>1. capture'.pc = "write" /\ capture'.live = live.panes /\ capture'.todo = live.panes
    BY <1>5, <1>t DEF List, CaptureType
  <2> QED
    BY <1>5, <2>1 DEF List, CaptureInv
<1>6. ASSUME NEW x \in Panes, WriteScrollback(x) PROVE CaptureInv'
  <2>1. /\ capture.pc = "write" /\ x \in capture.todo
        /\ capture'.pc = "write" /\ capture'.live = capture.live /\ capture'.todo = capture.todo \ {x}
    BY <1>6, <1>t DEF WriteScrollback, CaptureType
  <2>2. scroll' \subseteq scroll \cup {x} /\ UNCHANGED live
    BY <1>6 DEF WriteScrollback
  <2> QED
    BY <1>c, <2>1, <2>2 DEF CaptureInv
<1>7. CASE ListEntries
  <2>1. capture'.pc = "load" /\ capture'.live = capture.live /\ capture'.todo = Entries /\ capture.pc = "write"
    BY <1>7, <1>t DEF ListEntries, CaptureType
  <2>2. UNCHANGED <<live, scroll, files>> /\ Entries' = Entries
    BY <1>7 DEF ListEntries, Entries
  <2> QED
    BY <1>c, <2>1, <2>2 DEF CaptureInv
<1>8. ASSUME NEW t, Load(t) PROVE CaptureInv'
  <2>1. /\ capture.pc = "load" /\ capture'.pc = "load" /\ capture'.live = capture.live
        /\ capture'.todo = capture.todo \ {t}
        /\ capture'.keep = IF t \in Entries THEN capture.keep \cup files[t].panes ELSE capture.keep
    BY <1>8, <1>t DEF Load, CaptureType
  <2>2. UNCHANGED <<live, scroll, files, crossed>> /\ Entries' = Entries
    BY <1>8 DEF Load, Entries
  <2>3. ASSUME ~crossed, NEW u \in Entries PROVE u \in capture'.todo \/ files[u].panes \subseteq capture'.keep
    BY <1>c, <2>1, <2>3 DEF CaptureInv
  <2> QED
    BY <1>c, <2>1, <2>2, <2>3 DEF CaptureInv
<1>9. CASE ListScroll
  <2>1. /\ capture.pc = "load" /\ capture.todo = {}
        /\ capture'.pc = "remove" /\ capture'.live = capture.live
        /\ capture'.todo = scroll \ (capture.keep \cup capture.live)
    BY <1>9, <1>t DEF ListScroll, CaptureType
  <2>2. UNCHANGED <<live, scroll, files, crossed>> /\ Entries' = Entries
    BY <1>9 DEF ListScroll, Entries
  <2>3. ASSUME ~crossed, NEW u \in Entries PROVE files[u].panes \cap capture'.todo = {}
    BY <1>c, <2>1, <2>3 DEF CaptureInv
  <2> QED
    BY <1>c, <2>1, <2>2, <2>3 DEF CaptureInv
<1>10. CASE RemoveScrollback
  <2>1. UNCHANGED <<live, files>> /\ Entries' = Entries /\ capture.pc = "remove"
    BY <1>10 DEF RemoveScrollback, Entries
  <2>2. CASE capture' = IdleCapture
    BY <2>2, IdleTypes DEF CaptureInv
  <2>3. ASSUME NEW x, scroll' = scroll \ {x}, capture' = [capture EXCEPT !.todo = @ \ {x}], UNCHANGED crossed
        PROVE  CaptureInv'
    <3>1. capture'.pc = "remove" /\ capture'.live = capture.live /\ capture'.todo = capture.todo \ {x}
      BY <1>t, <2>1, <2>3 DEF CaptureType
    <3> QED
      BY <1>c, <2>1, <2>3, <3>1 DEF CaptureInv
  <2> QED
    BY <1>10, <2>2, <2>3 DEF RemoveScrollback
<1>11. CASE UNCHANGED vars
  BY <1>11, <1>k, <1>u DEF vars
<1> QED
  BY <1>1, <1>2, <1>3, <1>4, <1>5, <1>6, <1>7, <1>8, <1>9, <1>10, <1>11 DEF Next, Saving, Capturing

\* However the clock moves and whatever crashes, a capture that no save has
\* crossed removes no scrollback of a live pane or of one in a snapshot.
THEOREM ScrollbackStays == Spec => ScrollbackKept
<1>1. Init => Bounded /\ CaptureInv
  <2>1. Init => Entries = {} /\ saver.pc # "rename" /\ capture.pc = "idle"
    BY IdleTypes DEF Init, Entries
  <2> QED
    BY <2>1 DEF Bounded, CaptureInv
<1>2. TypeOK /\ Bounded /\ CaptureInv /\ [Next]_vars => (TypeOK /\ Bounded /\ CaptureInv)'
  BY TypeNext, CaptureNext
<1>3. ASSUME CaptureInv, [Next]_vars, NEW x \in scroll \ scroll', ~crossed
      PROVE  x \notin live.panes /\ \A t \in Entries : x \notin files[t].panes
  <2>1. RemoveScrollback
    BY <1>3 DEF Next, Edit, Saving, Read, Unchanged, Commit, Rename, Remove, Prune, Crash, Capturing,
       List, WriteScrollback, ListEntries, Load, ListScroll, vars
  <2>2. capture.pc = "remove" /\ x \in capture.todo
    BY <1>3, <2>1 DEF RemoveScrollback
  <2> QED
    BY <1>3, <2>2 DEF CaptureInv
<1>4. CaptureInv /\ [Next]_vars =>
        [\A x \in scroll \ scroll' : ~crossed =>
            x \notin live.panes /\ \A t \in Entries : x \notin files[t].panes]_vars
  BY <1>3
<1> QED
  BY <1>1, <1>2, <1>4, TypeInit, PTL DEF Spec, ScrollbackKept
-----------------------------------------------------------------------------
(* Saves of details. *)

\* What the save in progress remembers, replaces and has listed, whatever it
\* has come to: a save of details holds no more files than it found but the
\* one between its two file operations.
HistoryInv ==
    /\ IsFiniteSet(DOMAIN before) /\ DOMAIN before \subseteq Nat
    /\ DOMAIN before # {} => Latest \in DOMAIN before
    /\ saver.pc \in {"idle", "commit"} => DOMAIN before = {}
    /\ saver.pc = "rename" => before = files /\ saver.replace = Replaced
    /\ saver.pc = "remove" /\ OnlyDetails =>
           saver.replace = Latest /\ Entries = DOMAIN before \cup {saver.path}
    /\ saver.pc = "prune" /\ OnlyDetails => Cardinality(saver.todo) <= Keep
    /\ DetailsPushNothingOut

LEMMA RememberedNothing == DOMAIN <<>> = {}
  OBVIOUS

LEMMA HistoryInit == HInit => HistoryInv
<1> SUFFICES ASSUME HInit PROVE HistoryInv
  OBVIOUS
<1>1. before = <<>> /\ saver.pc = "idle"
  BY IdleTypes DEF HInit, Init
<1>2. DOMAIN before = {} /\ ~OnlyDetails
  BY <1>1, RememberedNothing DEF OnlyDetails
<1> QED
  BY <1>1, <1>2, FS_EmptySet DEF HistoryInv, DetailsPushNothingOut

\* A name more and another less: the folder has no more files.
LEMMA Exchanged ==
  ASSUME NEW S, IsFiniteSet(S), NEW m \in S, NEW p
  PROVE  Cardinality((S \cup {p}) \ {m}) <= Cardinality(S) \/ p = m
<1> SUFFICES ASSUME p # m PROVE Cardinality((S \cup {p}) \ {m}) <= Cardinality(S)
  OBVIOUS
<1> DEFINE R == S \ {m}
<1>1. IsFiniteSet(R) /\ Cardinality(R) = Cardinality(S) - 1 /\ Cardinality(S) \in Nat
  BY FS_RemoveElement, FS_CardinalityType
<1>2. (S \cup {p}) \ {m} = R \cup {p}
  OBVIOUS
<1>3. Cardinality(R \cup {p}) = Cardinality(R) \/ Cardinality(R \cup {p}) = Cardinality(R) + 1
  BY <1>1, FS_AddElement
<1> QED
  BY <1>1, <1>2, <1>3

\* A step that forgets, or touches neither the files nor the save.
LEMMA HistoryForgets ==
  ASSUME HistoryInv, saver'.pc \in {"idle", "commit"}, DOMAIN before' = {} PROVE HistoryInv'
<1>1. ~OnlyDetails'
  BY DEF OnlyDetails
<1> QED
  BY <1>1, FS_EmptySet DEF HistoryInv, DetailsPushNothingOut

LEMMA HistoryStays ==
  ASSUME HistoryInv, UNCHANGED <<files, saver, before>> PROVE HistoryInv'
<1>1. Entries' = Entries /\ Newest' = Newest /\ Latest' = Latest
  BY DEF Entries, Newest, Latest
<1>2. Replaced' = Replaced /\ OnlyDetails' = OnlyDetails /\ OlderStay' = OlderStay
  BY <1>1 DEF Replaced, OnlyDetails, OlderStay
<1> QED
  BY <1>1, <1>2 DEF HistoryInv, DetailsPushNothingOut

LEMMA HistoryNext ==
  ASSUME TypeOK, Bounded, HistoryInv, [HNext]_<<vars, before>> PROVE HistoryInv'
<1> DEFINE Remembers == before' = CASE saver'.pc \in {"idle", "commit"} -> <<>>
                                    [] saver.pc = "commit" /\ saver'.pc = "rename" -> files
                                    [] OTHER -> before
<1>s. saver \in [pc : {"idle", "commit", "rename", "remove", "prune"}, snap : Content,
                 replace : Nat, path : Nat, todo : SUBSET Nat]
  BY DEF TypeOK
<1>i. HistoryInv
  OBVIOUS
<1>f. IsFiniteSet(Entries) /\ Entries \subseteq Nat /\ (Entries # {} => Newest \in Entries)
  BY NewestIsEntry DEF TypeOK
<1>0. CASE UNCHANGED <<vars, before>>
  BY <1>0, <1>i, HistoryStays DEF vars
<1> SUFFICES ASSUME Next, Remembers PROVE HistoryInv'
  BY <1>0 DEF HNext
<1>forgets. saver'.pc \in {"idle", "commit"} => HistoryInv'
  BY <1>i, RememberedNothing, HistoryForgets
<1>1. CASE Edit \/ Capturing
  <2>1. UNCHANGED <<files, saver>>
    BY <1>1 DEF Edit, Capturing, List, WriteScrollback, ListEntries, Load, ListScroll, RemoveScrollback
  <2>2. saver.pc \notin {"idle", "commit"} => UNCHANGED before
    BY <2>1
  <2> QED
    BY <1>i, <1>forgets, <2>1, <2>2, HistoryStays
<1>2. CASE Read \/ Unchanged \/ Crash
  <2>1. saver'.pc \in {"idle", "commit"}
    BY <1>2, <1>s, IdleTypes DEF Read, Unchanged, Crash
  <2> QED
    BY <1>forgets, <2>1
<1>3. CASE Commit
  <2>1. /\ saver.pc = "commit" /\ saver'.pc = "rename" /\ saver'.replace = Replaced
        /\ saver'.snap = saver.snap /\ UNCHANGED files
    BY <1>3, <1>s DEF Commit
  <2>2. before' = files' /\ DOMAIN before' = Entries' /\ Entries' = Entries
    BY <2>1 DEF Entries
  <2>3. Newest' = Newest /\ Replaced' = Replaced /\ Latest' = Newest
    BY <2>1, <2>2 DEF Replaced, Newest, Latest
  <2>4. OlderStay'
    BY <2>2 DEF OlderStay
  <2> QED
    BY <1>f, <2>1, <2>2, <2>3, <2>4 DEF HistoryInv, DetailsPushNothingOut
<1>4. CASE Rename
  <2>1. PICK t \in clock..MaxTime + Cardinality(Entries) :
            /\ t \notin Entries \/ t = saver.replace
            /\ files' = [u \in Entries \cup {t} |-> IF u = t THEN saver.snap ELSE files[u]]
            /\ saver' = [saver EXCEPT !.pc = "remove", !.path = t]
    BY <1>4 DEF Rename
  <2>2. /\ saver.pc = "rename" /\ saver'.pc = "remove" /\ saver'.path = t
        /\ saver'.replace = saver.replace /\ saver'.snap = saver.snap
    BY <1>4, <1>s, <2>1 DEF Rename
  <2>3. before' = before /\ before = files /\ DOMAIN before = Entries /\ saver.replace = Replaced
    BY <1>i, <2>2 DEF HistoryInv, Entries
  <2>4. Latest' = Latest /\ Latest = Newest /\ OnlyDetails' = OnlyDetails
    BY <2>2, <2>3 DEF Latest, Newest, OnlyDetails
  <2>5. OnlyDetails => saver.replace = Latest
    BY <2>3, <2>4 DEF OnlyDetails, Replaced
  <2>6. Entries' = Entries \cup {t} /\ \A u \in Entries \ {t} : files'[u] = files[u]
    BY <2>1 DEF Entries
  <2>7. OnlyDetails => OlderStay'
    BY <2>1, <2>3, <2>4, <2>5, <2>6 DEF OlderStay
  <2> QED
    BY <1>i, <2>2, <2>3, <2>4, <2>5, <2>6, <2>7 DEF HistoryInv, DetailsPushNothingOut
<1>5. CASE Remove
  <2>1. /\ saver.pc = "remove" /\ saver'.pc = "prune" /\ saver'.todo = Entries'
        /\ saver'.snap = saver.snap /\ before' = before
    BY <1>5, <1>s DEF Remove, Entries
  <2>2. Latest' = Latest /\ OnlyDetails' = OnlyDetails
    BY <2>1 DEF Latest, OnlyDetails
  <2>3. ASSUME OnlyDetails PROVE Cardinality(Entries') <= Keep /\ OlderStay'
    <3>1. /\ saver.replace = Latest /\ Entries = DOMAIN before \cup {saver.path}
          /\ Latest \in DOMAIN before /\ IsFiniteSet(DOMAIN before)
          /\ Cardinality(DOMAIN before) <= Keep /\ Cardinality(DOMAIN before) \in Nat /\ OlderStay
      BY <1>i, <2>1, <2>3, FS_CardinalityType DEF HistoryInv, OnlyDetails, DetailsPushNothingOut
    <3>2. CASE saver.replace = saver.path
      <4>1. UNCHANGED files /\ Entries' = DOMAIN before
        BY <1>5, <3>1, <3>2 DEF Remove, Entries
      <4> QED
        BY <2>1, <2>2, <3>1, <4>1 DEF OlderStay, Entries
    <3>3. CASE saver.replace # saver.path
      <4>1. files' = Without(files, saver.replace)
        BY <1>5, <3>3 DEF Remove
      <4>2. Entries' = Entries \ {Latest} /\ \A u \in Entries \ {Latest} : files'[u] = files[u]
        <5>1. DOMAIN files' = DOMAIN files \ {saver.replace}
              /\ \A u \in DOMAIN files \ {saver.replace} : files'[u] = files[u]
          BY <4>1, WithoutFile, Zenon
        <5> QED
          BY <3>1, <5>1 DEF Entries
      <4>3. Cardinality((DOMAIN before \cup {saver.path}) \ {Latest}) <= Cardinality(DOMAIN before)
        BY <3>1, <3>3, Exchanged
      <4>4. IsFiniteSet(Entries') /\ Cardinality(Entries') \in Nat
        BY <1>f, <4>2, FS_Difference, FS_CardinalityType
      <4>5. Cardinality(Entries') <= Keep
        BY <3>1, <4>2, <4>3, <4>4, StoreAssumption
      <4>6. OlderStay'
        BY <2>1, <2>2, <3>1, <4>2 DEF OlderStay
      <4> QED
        BY <4>5, <4>6
    <3> QED
      BY <3>2, <3>3
  <2> QED
    BY <1>i, <2>1, <2>2, <2>3 DEF HistoryInv, DetailsPushNothingOut
<1>6. CASE Prune
  <2>1. saver.pc = "prune"
    BY <1>6 DEF Prune
  <2>2. CASE saver' = IdleSaver
    BY <1>forgets, <2>2, IdleTypes
  <2>3. CASE /\ Cardinality(saver.todo) > Keep
             /\ saver' = [saver EXCEPT !.todo = @ \ {Min(@)}]
    <3>1. saver'.pc = "prune" /\ saver'.snap = saver.snap /\ before' = before
      BY <1>s, <2>1, <2>3
    <3>2. Latest' = Latest /\ OnlyDetails' = OnlyDetails
      BY <3>1 DEF Latest, OnlyDetails
    <3>3. Cardinality(saver.todo) \in Nat /\ Keep \in Nat
      BY StoreAssumption, FS_CardinalityType DEF TypeOK
    <3>4. ~OnlyDetails
      BY <1>i, <2>1, <2>3, <3>3 DEF HistoryInv
    <3> QED
      BY <1>i, <3>1, <3>2, <3>4 DEF HistoryInv, DetailsPushNothingOut
  <2> QED
    BY <1>6, <2>2, <2>3 DEF Prune
<1> QED
  BY <1>1, <1>2, <1>3, <1>4, <1>5, <1>6 DEF Next, Saving

LEMMA HistorySteps == HSpec => Spec
<1>1. HInit => Init
  BY DEF HInit
<1>2. [HNext]_<<vars, before>> => [Next]_vars
  BY DEF HNext
<1> QED
  BY <1>1, <1>2, PTL DEF HSpec, Spec

\* However the clock moves and whatever crashes, a save of details takes no
\* older snapshot from a folder that holds no more files than it should.
THEOREM DetailsReplace == HSpec => []DetailsPushNothingOut
<1>1. HInit => TypeOK /\ Bounded /\ HistoryInv
  <2>1. Init => Entries = {} /\ saver.pc # "rename"
    BY IdleTypes DEF Init, Entries
  <2> QED
    BY <2>1, TypeInit, HistoryInit DEF Bounded, HInit
<1>2. TypeOK /\ Bounded /\ HistoryInv /\ [HNext]_<<vars, before>> => (TypeOK /\ Bounded /\ HistoryInv)'
  BY TypeNext, HistoryNext DEF HNext
<1>3. HistoryInv => DetailsPushNothingOut
  BY DEF HistoryInv
<1> QED
  BY <1>1, <1>2, <1>3, PTL DEF HSpec
=============================================================================
