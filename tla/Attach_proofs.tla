---------------------------- MODULE Attach_proofs ----------------------------
(***************************************************************************)
(* Proofs about Attach, for any terminals, restores and session names.     *)
(***************************************************************************)
EXTENDS Attach, TLAPS

\* Where a terminal holds the attach lock, and where a restore without it
\* can be.
UnderLock == {"look", "ready", "latest", "restore", "create", "creating", "lost", "saving",
              "mark", "relook", "land", "exec"}
InRestore == {"latest", "restore", "create", "creating", "lost", "saving"}

LockHeld ==
    /\ lock # Nobody => lock \in attaching
    /\ \A p \in attaching : pc[p] \in UnderLock <=> lock = p
    /\ \A p \in Procs \ attaching : pc[p] \in InRestore \cup {"closed"}

\* An exited server is not ready and holds nothing.
ServerHolds ==
    /\ ready => Up
    /\ restored > 0 => Up
    /\ made \subseteq Live

Base == TypeOK /\ LockHeld /\ ServerHolds

\* Inductive strengthening of RestoredOnce: unless a mark failed, a server
\* restored onto is ready, or the terminal that did it still holds the lock;
\* one that holds it on its way to a restore found nothing restored.
OnceInv ==
    "killed" \notin mode /\ ~lapsed =>
        /\ restored <= 1
        /\ restored > 0 => ready \/ \E p \in attaching : pc[p] \in {"creating", "saving", "mark"}
        /\ \A p \in attaching :
               /\ pc[p] \in {"latest", "restore", "create"} => restored = 0
               /\ pc[p] = "ready" => restored = 0 \/ (ready /\ Sessions(seen[p]) # {})

\* All that is there a restore made, but for a main with one window.
OwnWork == \A m \in Live : m \in made \/ (m = Main /\ windows[m] = 1)

\* Unless users meddle: what a terminal under way has seen stays true, save
\* for a main that another made, and its target stays.
Undisturbed(p) ==
    /\ pc[p] # "closed" => p \in attaching
    /\ pc[p] # "lost"
    /\ pc[p] \in {"latest", "restore", "create", "creating"} => OwnWork
    /\ pc[p] = "ready" /\ Bare(seen[p]) => OwnWork
    /\ pc[p] \in {"ready", "land"} =>
           Sessions(seen[p]) \subseteq Live /\ Live \subseteq Sessions(seen[p]) \cup {Main}
    /\ target[p] # Nobody => pc[p] \notin {"closed", "attached"} /\ target[p] \in Live
    /\ pc[p] \in {"exec", "become"} /\ target[p] = Nobody /\ p \notin gaveUp => Main \in Live

UndisturbedInv == "users" \notin mode => \A p \in Procs : Undisturbed(p)

\* Inductive strengthening of OwedStaysCalm: a ready server owes nothing, nor
\* does one that a terminal is about to mark as ready.
CalmInv ==
    mode = {} =>
        /\ owed \subseteq saved
        /\ ready => owed = {}
        /\ made # {} => ready \/ \E p \in attaching : pc[p] = "creating"
        /\ \A p \in Procs :
               /\ pc[p] \in {"saving", "mark", "relook", "land"} => owed = {}
               /\ pc[p] = "restore" => snap[p] # {}
               /\ pc[p] = "create" /\ snap[p] = {} => Up
               /\ pc[p] = "creating" => Up
-----------------------------------------------------------------------------


LEMMA NoWindowsType == NoWindows \in [Names -> 0..2] /\ Main \in Names
  BY DEF NoWindows, Names

LEMMA LiveType == TypeOK => Live \subseteq Names
  BY DEF TypeOK, Live, Sessions

LEMMA Locations ==
  /\ "closed" \in Location /\ "wait" \in Location /\ "look" \in Location /\ "ready" \in Location
  /\ "latest" \in Location /\ "restore" \in Location /\ "create" \in Location /\ "creating" \in Location
  /\ "lost" \in Location /\ "saving" \in Location /\ "mark" \in Location /\ "relook" \in Location
  /\ "land" \in Location /\ "exec" \in Location /\ "become" \in Location /\ "attached" \in Location
  BY DEF Location

LEMMA TypeInit == Init => TypeOK
<1> SUFFICES ASSUME Init PROVE TypeOK
  OBVIOUS
<1>1. mode \in Modes /\ windows \in [Names -> 0..2] /\ ready \in BOOLEAN /\ saved \subseteq Names
  BY NoWindowsType DEF Init
<1>2. lock \in Procs \cup {Nobody} /\ save \in Procs \cup {Nobody}
  BY DEF Init
<1>3. pc \in [Procs -> Location] /\ seen \in [Procs -> [Names -> 0..2]]
  BY NoWindowsType, Locations DEF Init
<1>4. snap \in [Procs -> SUBSET Names] /\ target \in [Procs -> Names \cup {Nobody}] /\ attaching \subseteq Procs
  BY DEF Init
<1>5. owed \subseteq Names /\ made \subseteq Names /\ restored \in 0..2
  BY DEF Init
<1>6. lapsed \in BOOLEAN /\ gaveUp \subseteq Procs
  BY DEF Init
<1> QED
  BY <1>1, <1>2, <1>3, <1>4, <1>5, <1>6 DEF TypeOK

LEMMA GoneType ==
  ASSUME TypeOK, Gone
  PROVE  /\ windows' \in [Names -> 0..2] /\ ready' \in BOOLEAN
         /\ pc' \in [Procs -> Location] /\ made' \subseteq Names /\ restored' \in 0..2
         /\ lapsed' \in BOOLEAN
<1> DEFINE moved(p) ==
      CASE pc[p] = "attached" -> "closed" [] pc[p] = "creating" -> "lost" [] OTHER -> pc[p]
<1>1. \A p \in Procs : moved(p) \in Location
  BY Locations DEF TypeOK
<1>2. pc' = [p \in Procs |-> moved(p)]
  BY DEF Gone
<1> HIDE DEF moved
<1>3. pc' \in [Procs -> Location]
  BY <1>1, <1>2
<1>4. windows' \in [Names -> 0..2] /\ ready' \in BOOLEAN
  BY NoWindowsType DEF Gone
<1>5. made' \subseteq Names /\ restored' \in 0..2
  BY DEF Gone
<1>6. lapsed' \in BOOLEAN
  BY DEF Gone
<1> QED
  BY <1>3, <1>4, <1>5, <1>6

\* Every variable keeps its type.
LEMMA TypeNext == TypeOK /\ [Next]_vars => TypeOK'
<1> SUFFICES ASSUME TypeOK, [Next]_vars PROVE TypeOK'
  OBVIOUS
<1> USE LiveType, Locations DEF TypeOK, tmux, local, history, onServer
<1>1. ASSUME NEW n \in Names, UserOpens(n) PROVE TypeOK'
  BY <1>1 DEF UserOpens
<1>2. ASSUME NEW n \in Names, UserCloses(n) PROVE TypeOK'
  <2>1. CASE Live = {n}
    BY GoneType, <1>2, <2>1 DEF UserCloses
  <2>2. CASE Live # {n}
    BY <1>2, <2>2 DEF UserCloses
  <2> QED
    BY <2>1, <2>2
<1>3. CASE ServerExit
  BY GoneType, <1>3 DEF ServerExit
<1>4. CASE Save \/ TmuxInit
  BY <1>4 DEF Save, TmuxInit
<1>5. ASSUME NEW p \in Procs, Open(p) \/ StartRestore(p) PROVE TypeOK'
  BY <1>5 DEF Open, StartRestore, Goto
<1>6. ASSUME NEW p \in Procs, Lock(p) \/ Look(p) PROVE TypeOK'
  BY <1>6 DEF Lock, Look, Goto
<1>r. ASSUME NEW p \in Procs PROVE Returned(p) \in Location
  BY DEF Returned
<1>7. ASSUME NEW p \in Procs, Judge(p) PROVE TypeOK'
  <2>1. \E to \in {"land", "latest", "mark"} : Goto(p, "ready", to)
    BY <1>7 DEF Judge
  <2> QED
    BY <1>7, <2>1 DEF Judge, Goto
<1>8. ASSUME NEW p \in Procs, Latest(p) PROVE TypeOK'
  BY <1>8, <1>r DEF Latest
<1>9. ASSUME NEW p \in Procs, LockSave(p) \/ Land(p) PROVE TypeOK'
  <2>1. CASE LockSave(p)
    BY <2>1 DEF LockSave, Goto
  <2>2. CASE Land(p)
    BY <2>2 DEF Land, Goto, Sessions
  <2> QED
    BY <1>9, <2>1, <2>2
<1>10. ASSUME NEW p \in Procs, NEW n \in Names, MakeSession(p, n) PROVE TypeOK'
  BY <1>10 DEF MakeSession
<1>11. ASSUME NEW p \in Procs, EndRestore(p) PROVE TypeOK'
  BY <1>11, <1>r DEF EndRestore, Up, Marked
<1>12. ASSUME NEW p \in Procs, FailRestore(p) PROVE TypeOK'
  BY <1>12, <1>r DEF FailRestore, Up
<1>13. ASSUME NEW p \in Procs, SaveRestored(p) \/ MarkReady(p) PROVE TypeOK'
  BY <1>13, <1>r DEF SaveRestored, MarkReady, Goto, Up, Marked
<1>14. ASSUME NEW p \in Procs, NewMain(p) PROVE TypeOK'
  <2>1. CASE Main \in Live
    BY <1>14, <2>1 DEF NewMain, Goto
  <2>2. CASE Main \notin Live
    <3>1. windows' \in [Names -> 0..2] /\ target' \in [Procs -> Names \cup {Nobody}] /\ pc' \in [Procs -> Location]
      BY <1>14, <2>2, NoWindowsType DEF NewMain, Goto
    <3>2. ready' \in BOOLEAN /\ lapsed' \in BOOLEAN
      BY <1>14, <2>2 DEF NewMain, Marked
    <3> QED
      BY <1>14, <2>2, <3>1, <3>2 DEF NewMain
  <2> QED
    BY <2>1, <2>2
<1>15. ASSUME NEW p \in Procs, GiveUp(p) \/ Release(p) PROVE TypeOK'
  BY <1>15 DEF GiveUp, Release, Goto
<1>16. ASSUME NEW p \in Procs, Become(p) PROVE TypeOK'
  <2>1. \E to \in {"attached", "closed"} : Goto(p, "become", to)
    BY <1>16 DEF Become
  <2> QED
    BY <1>16, <2>1, NoWindowsType DEF Become, Goto
<1>17. ASSUME NEW p \in Procs, Kill(p) PROVE TypeOK'
  BY <1>17, NoWindowsType DEF Kill
<1>18. CASE UNCHANGED vars
  BY <1>18 DEF vars
<1> QED
  BY <1>1, <1>2, <1>3, <1>4, <1>5, <1>6, <1>7, <1>8, <1>9, <1>10, <1>11, <1>12, <1>13, <1>14,
     <1>15, <1>16, <1>17, <1>18 DEF Next, Users, Terminal

\* Every variable keeps its type.
THEOREM TypeCorrect == Spec => []TypeOK
  BY TypeInit, TypeNext, PTL DEF Spec

\* The attach lock is held by exactly the terminal that is under it.
LEMMA LockNext == TypeOK /\ LockHeld /\ [Next]_vars => LockHeld'
<1> SUFFICES ASSUME TypeOK, LockHeld, [Next]_vars PROVE LockHeld'
  OBVIOUS
<1> USE DEF LockHeld, UnderLock, InRestore
<1>p. /\ pc \in [Procs -> Location] /\ attaching \subseteq Procs /\ lock \in Procs \cup {Nobody}
      /\ Nobody \notin Procs
  BY AttachAssumption DEF TypeOK
<1>1. ASSUME UNCHANGED <<lock, attaching>>,
             \A p \in Procs : \/ pc'[p] = pc[p]
                              \/ pc[p] = "attached" /\ pc'[p] = "closed"
                              \/ pc[p] = "creating" /\ pc'[p] = "lost"
      PROVE  LockHeld'
  BY <1>1, <1>p
<1>2. ASSUME Gone, UNCHANGED <<lock, attaching>> PROVE LockHeld'
  <2>1. \A p \in Procs : \/ pc'[p] = pc[p]
                         \/ pc[p] = "attached" /\ pc'[p] = "closed"
                         \/ pc[p] = "creating" /\ pc'[p] = "lost"
    BY <1>2 DEF Gone
  <2> QED
    BY <1>1, <1>2, <2>1
<1>3. CASE Users
  BY <1>1, <1>2, <1>3 DEF Users, UserOpens, UserCloses, ServerExit, Save, TmuxInit, local
<1>r. ASSUME NEW p \in Procs
      PROVE  \/ p \in attaching /\ Returned(p) = "mark"
             \/ p \notin attaching /\ Returned(p) = "closed"
  BY DEF Returned
<1>5. ASSUME NEW p \in Procs, Open(p) \/ StartRestore(p) \/ Lock(p) \/ Release(p) \/ Kill(p)
      PROVE LockHeld'
  BY <1>5, <1>p DEF Open, StartRestore, Lock, Release, Kill, Goto
<1>6. ASSUME NEW p \in Procs, Look(p) \/ Judge(p) \/ LockSave(p) PROVE LockHeld'
  BY <1>6, <1>p DEF Look, Judge, LockSave, Goto
<1>7. ASSUME NEW p \in Procs, Latest(p) \/ EndRestore(p) \/ FailRestore(p) \/ SaveRestored(p) PROVE LockHeld'
  BY <1>7, <1>r, <1>p DEF Latest, EndRestore, FailRestore, SaveRestored, Goto
<1>8. ASSUME NEW p \in Procs, MarkReady(p) \/ Land(p) \/ NewMain(p) PROVE LockHeld'
  BY <1>8, <1>p DEF MarkReady, Land, NewMain, Goto
<1>9. ASSUME NEW p \in Procs, NEW n \in Names, MakeSession(p, n) PROVE LockHeld'
  BY <1>9, <1>p DEF MakeSession
<1>10. ASSUME NEW p \in Procs, GiveUp(p) \/ Become(p) PROVE LockHeld'
  BY <1>10, <1>p DEF GiveUp, Become, Goto
<1>11. CASE UNCHANGED vars
  BY <1>11 DEF vars, local
<1> QED
  BY <1>3, <1>5, <1>6, <1>7, <1>8, <1>9, <1>10, <1>11 DEF Next, Terminal

\* How the sessions of the server change in a step that does not end it.
LEMMA OneMore ==
  ASSUME TypeOK, NEW n \in Names, NEW k \in 1..2, windows' = [windows EXCEPT ![n] = k]
  PROVE  Live' = Live \cup {n}
  BY DEF TypeOK, Live, Sessions

LEMMA OneLess ==
  ASSUME TypeOK, NEW n \in Names, windows' = [windows EXCEPT ![n] = 0]
  PROVE  Live' = Live \ {n}
  BY DEF TypeOK, Live, Sessions

LEMMA GoneLeavesNothing ==
  ASSUME Gone PROVE Live' = {} /\ ~ready' /\ made' = {} /\ restored' = 0
  BY DEF Gone, Live, Sessions, NoWindows

\* An exited server is not ready and holds nothing.
LEMMA ServerNext == TypeOK /\ ServerHolds /\ [Next]_vars => ServerHolds'
<1> SUFFICES ASSUME TypeOK, ServerHolds, [Next]_vars PROVE ServerHolds'
  OBVIOUS
<1> USE DEF ServerHolds, Up, tmux, local, history, onServer
<1>t. /\ ready \in BOOLEAN /\ restored \in 0..2 /\ made \subseteq Names
      /\ \A n \in Names : windows[n] \in 0..2
  BY DEF TypeOK
<1>m. Main \in Names
  BY DEF Names
<1>0. ASSUME UNCHANGED windows PROVE Live' = Live
  BY <1>0 DEF Live
<1>1. ASSUME NEW n \in Names, UserOpens(n) PROVE ServerHolds'
  <2>1. Live' = Live \cup {n}
    <3>1. windows[n] + 1 \in 1..2 /\ windows' = [windows EXCEPT ![n] = windows[n] + 1]
      BY <1>1, <1>t DEF UserOpens
    <3> QED
      BY <3>1, OneMore
  <2> QED
    BY <1>1, <2>1 DEF UserOpens
<1>2. ASSUME NEW n \in Names, UserCloses(n) PROVE ServerHolds'
  <2>1. CASE Live = {n}
    BY <1>2, <2>1, GoneLeavesNothing DEF UserCloses
  <2>2. CASE Live # {n}
    <3>1. Live' = Live \ {n} /\ n \in Live
      BY <1>2, <2>2, OneLess DEF UserCloses
    <3> QED
      BY <1>2, <2>2, <3>1 DEF UserCloses
  <2> QED
    BY <2>1, <2>2
<1>3. CASE ServerExit
  BY <1>3, GoneLeavesNothing DEF ServerExit
<1>4. CASE Save \/ TmuxInit
  BY <1>4, <1>0 DEF Save, TmuxInit
<1>k. ASSUME UNCHANGED <<windows, ready, made, restored>> PROVE ServerHolds'
  BY <1>k, <1>0
<1>5. ASSUME NEW p \in Procs,
             \/ Open(p) \/ StartRestore(p) \/ Lock(p) \/ Look(p) \/ Judge(p) \/ Latest(p) \/ LockSave(p)
             \/ SaveRestored(p) \/ Land(p) \/ GiveUp(p) \/ Release(p) \/ Kill(p)
      PROVE ServerHolds'
  <2>1. CASE Open(p) \/ StartRestore(p) \/ Lock(p) \/ Look(p) \/ Latest(p) \/ LockSave(p)
    BY <2>1, <1>k DEF Open, StartRestore, Lock, Look, Latest, LockSave
  <2>2. CASE Judge(p)
    BY <2>2, <1>k DEF Judge
  <2>3. CASE SaveRestored(p) \/ Land(p) \/ GiveUp(p) \/ Release(p) \/ Kill(p)
    BY <2>3, <1>k DEF SaveRestored, Land, GiveUp, Release, Kill
  <2> QED
    BY <1>5, <2>1, <2>2, <2>3
<1>6. ASSUME NEW p \in Procs, EndRestore(p) \/ FailRestore(p) \/ MarkReady(p) PROVE ServerHolds'
  BY <1>6, <1>0 DEF EndRestore, FailRestore, MarkReady, Marked
<1>7. ASSUME NEW p \in Procs, NEW n \in Names, MakeSession(p, n) PROVE ServerHolds'
  <2>1. CASE n \in Live
    BY <1>7, <2>1, <1>0 DEF MakeSession
  <2>2. CASE n \notin Live
    <3>1. Live' = Live \cup {n}
      BY <1>7, <2>2, OneMore DEF MakeSession
    <3> QED
      BY <1>7, <2>2, <3>1 DEF MakeSession
  <2> QED
    BY <2>1, <2>2
<1>8. ASSUME NEW p \in Procs, NewMain(p) PROVE ServerHolds'
  <2>1. CASE Main \in Live
    BY <1>8, <2>1, <1>0 DEF NewMain
  <2>2. CASE Main \notin Live
    <3>1. Live' = Live \cup {Main}
      BY <1>8, <2>2, <1>m, OneMore DEF NewMain
    <3> QED
      BY <1>8, <2>2, <3>1 DEF NewMain
  <2> QED
    BY <2>1, <2>2
<1>9. ASSUME NEW p \in Procs, Become(p) PROVE ServerHolds'
  <2>1. Live' = Live \/ Live' = Live \cup {Main}
    <3>1. UNCHANGED windows \/ windows' = [windows EXCEPT ![Main] = 1]
      BY <1>9 DEF Become
    <3> QED
      BY <3>1, <1>0, <1>m, OneMore
  <2> QED
    BY <1>9, <2>1 DEF Become
<1>10. CASE UNCHANGED vars
  BY <1>10, <1>0 DEF vars
<1> QED
  BY <1>1, <1>2, <1>3, <1>4, <1>5, <1>6, <1>7, <1>8, <1>9, <1>10 DEF Next, Users, Terminal

LEMMA ModeStays == [Next]_vars => UNCHANGED mode
<1> SUFFICES ASSUME [Next]_vars PROVE UNCHANGED mode
  OBVIOUS
<1>1. CASE Users
  BY <1>1 DEF Users, UserOpens, UserCloses, ServerExit, Save, TmuxInit
<1>2. ASSUME NEW p \in Procs, Open(p) \/ StartRestore(p) \/ Kill(p) PROVE UNCHANGED mode
  BY <1>2 DEF Open, StartRestore, Kill
<1>3. ASSUME NEW p \in Procs, Terminal(p) PROVE UNCHANGED mode
  BY <1>3 DEF Terminal, Lock, Look, Judge, Latest, LockSave, MakeSession, EndRestore, FailRestore,
     SaveRestored, MarkReady, Land, NewMain, GiveUp, Release, Become
<1>4. CASE UNCHANGED vars
  BY <1>4 DEF vars
<1> QED
  BY <1>1, <1>2, <1>3, <1>4 DEF Next

\* A mark that failed is forgotten with its server.
LEMMA LapsedStays ==
  ASSUME TypeOK, [Next]_vars, lapsed, ~lapsed'
  PROVE  restored' = 0
<1> USE DEF onServer, history
<1>1. CASE Users
  BY <1>1 DEF Users, UserOpens, UserCloses, ServerExit, Save, TmuxInit, Gone
<1>2. ASSUME NEW p \in Procs, Open(p) \/ StartRestore(p) \/ Kill(p) PROVE FALSE
  BY <1>2 DEF Open, StartRestore, Kill
<1>3. ASSUME NEW p \in Procs, Terminal(p) PROVE FALSE
  BY <1>3 DEF Terminal, Lock, Look, Judge, Latest, LockSave, MakeSession, EndRestore, FailRestore,
     SaveRestored, MarkReady, Land, NewMain, GiveUp, Release, Become
<1>4. CASE UNCHANGED vars
  BY <1>4 DEF vars
<1> QED
  BY <1>1, <1>2, <1>3, <1>4 DEF Next

\* A server is restored onto once, and by the time the lock is free it is
\* ready.
LEMMA OnceNext == Base /\ OnceInv /\ [Next]_vars => OnceInv'
<1> SUFFICES ASSUME Base, OnceInv, [Next]_vars, "killed" \notin mode, ~lapsed, ~lapsed'
             PROVE  OnceInv'
  <2>1. ASSUME Base, [Next]_vars, lapsed PROVE OnceInv'
    <3>1. lapsed' \/ restored' = 0
      BY <2>1, LapsedStays DEF Base
    <3> QED
      BY <3>1 DEF OnceInv
  <2>2. ASSUME [Next]_vars, "killed" \in mode \/ lapsed' PROVE OnceInv'
    BY <2>2, ModeStays DEF OnceInv
  <2> QED
    BY <2>1, <2>2
<1> USE DEF OnceInv, Up, tmux, local, history, onServer
<1>t. /\ pc \in [Procs -> Location] /\ seen \in [Procs -> [Names -> 0..2]] /\ ready \in BOOLEAN
      /\ restored \in 0..2 /\ attaching \subseteq Procs
  BY DEF Base, TypeOK
<1>h. (ready => Up) /\ (restored > 0 => Up)
  BY DEF Base, ServerHolds
\* The terminals that wait do not hold the lock, so whatever is under it is
\* one terminal.
<1>u. ASSUME NEW p \in attaching, NEW q \in attaching, pc[p] \in UnderLock, pc[q] \in UnderLock
      PROVE  p = q
  BY <1>u DEF Base, LockHeld
<1>a. ASSUME NEW p \in Procs, pc[p] \in UnderLock \ InRestore \/ pc[p] \in {"wait", "become", "attached"}
      PROVE  p \in attaching
  BY <1>a DEF Base, LockHeld, UnderLock, InRestore
<1>0. ASSUME restored' = 0 PROVE OnceInv'
  BY <1>0
<1>1. ASSUME Gone PROVE OnceInv'
  BY <1>0, <1>1, GoneLeavesNothing
<1>2. CASE Users
  BY <1>1, <1>2 DEF Users, UserOpens, UserCloses, ServerExit, Save, TmuxInit
<1>3. ASSUME NEW p \in Procs, Open(p) \/ StartRestore(p) \/ Lock(p) PROVE OnceInv'
  BY <1>3, <1>t DEF Open, StartRestore, Lock, Goto
<1>4. ASSUME NEW p \in Procs, Look(p) PROVE OnceInv'
  <2>1. p \in attaching /\ pc[p] \in UnderLock
    BY <1>4, <1>a DEF Look, Goto, UnderLock, InRestore
  <2>3. restored > 0 => ready
    BY <1>4, <1>u, <2>1 DEF Look, Goto, UnderLock
  <2>4. Sessions(seen'[p]) = Live
    BY <1>4, <1>t DEF Look, Live
  <2>5. \A q \in attaching \ {p} : pc'[q] = pc[q] /\ seen'[q] = seen[q]
    BY <1>4, <1>t DEF Look, Goto
  <2>6. pc'[p] \in {"ready", "land"} /\ UNCHANGED <<restored, ready, attaching>>
    BY <1>4, <1>t DEF Look, Goto
  <2>7. restored \in {0, 1, 2} /\ (restored # 0 => restored > 0)
    BY <1>t
  <2> QED
    BY <1>h, <2>1, <2>3, <2>4, <2>5, <2>6, <2>7
<1>5. ASSUME NEW p \in Procs, Judge(p) PROVE OnceInv'
  <2>1. p \in attaching /\ pc[p] = "ready"
    BY <1>5, <1>a DEF Judge, Goto, UnderLock, InRestore
  <2>2. pc'[p] = "latest" => restored = 0
    BY <1>5, <1>t, <2>1 DEF Judge, Goto, IsReady
  <2>3. restored > 0 => ready
    BY <1>u, <2>1 DEF UnderLock
  <2> QED
    BY <1>5, <1>t, <2>1, <2>2, <2>3 DEF Judge, Goto
<1>6. ASSUME NEW p \in Procs, Latest(p) \/ LockSave(p) PROVE OnceInv'
  BY <1>6, <1>t DEF Latest, LockSave, Goto, Returned
<1>7. ASSUME NEW p \in Procs, NEW n \in Names, MakeSession(p, n) PROVE OnceInv'
  <2>1. CASE pc[p] = "create" /\ p \in attaching
    <3>1. restored' = 1 /\ pc'[p] = "creating" /\ UNCHANGED <<attaching, ready, seen>>
      BY <1>7, <1>t, <2>1 DEF MakeSession
    <3>2. \A q \in attaching \ {p} : pc'[q] = pc[q] /\ pc[q] \notin UnderLock
      BY <1>7, <1>t, <1>u, <2>1 DEF MakeSession, UnderLock
    <3> QED
      BY <2>1, <3>1, <3>2 DEF UnderLock
  <2>2. CASE pc[p] = "creating" \/ p \notin attaching
    BY <1>7, <1>t, <2>2 DEF MakeSession
  <2> QED
    BY <1>7, <2>1, <2>2 DEF MakeSession
<1>8. ASSUME NEW p \in Procs, EndRestore(p) PROVE OnceInv'
  <2>1. ready' = Up \/ ready' = ready
    BY <1>8 DEF EndRestore, Marked
  <2>2. restored > 0 => ready' \/ ready' = ready
    BY <1>h, <2>1
  <2>3. UNCHANGED <<attaching, restored, seen, mode>> /\ pc[p] \in {"create", "creating"}
    BY <1>8 DEF EndRestore
  <2>4. \A r \in attaching : r # p => pc'[r] = pc[r]
    BY <1>8, <1>t DEF EndRestore
  <2>5. p \in attaching => pc'[p] \in {"saving", "mark"} /\ (pc[p] = "create" => restored = 0)
    BY <1>8, <1>t DEF EndRestore, Returned
  <2> QED
    BY <1>t, <1>h, <2>1, <2>2, <2>3, <2>4, <2>5
<1>9. ASSUME NEW p \in Procs, FailRestore(p) PROVE OnceInv'
  BY <1>9, <1>t, <1>h DEF FailRestore, Returned
<1>10. ASSUME NEW p \in Procs, SaveRestored(p) PROVE OnceInv'
  BY <1>10, <1>t, <1>h DEF SaveRestored, Goto, Returned
\* With ~lapsed' a server restored onto is marked when markReady returns.
<1>14. ASSUME NEW p \in Procs, MarkReady(p) PROVE OnceInv'
  <2>1. restored > 0 => ready'
    BY <1>14, <1>h DEF MarkReady
  <2>2. UNCHANGED <<attaching, restored, seen, mode>>
    BY <1>14 DEF MarkReady
  <2>3. \A r \in attaching : pc'[r] = pc[r] \/ pc'[r] = "relook"
    BY <1>14, <1>t DEF MarkReady, Goto
  <2> QED
    BY <1>t, <2>1, <2>2, <2>3
<1>15. ASSUME NEW p \in Procs, NewMain(p) PROVE OnceInv'
  <2>1. ready' \/ ready' = ready
    BY <1>15, <1>t DEF NewMain, Marked
  <2>2. UNCHANGED <<attaching, restored, seen, mode>>
    BY <1>15 DEF NewMain
  <2>3. pc[p] = "land" /\ \A r \in attaching : pc'[r] = IF r = p THEN "exec" ELSE pc[r]
    BY <1>15, <1>t DEF NewMain, Goto
  <2> QED
    BY <1>t, <2>1, <2>2, <2>3
<1>11. ASSUME NEW p \in Procs, Land(p) \/ GiveUp(p) \/ Release(p) \/ Become(p) PROVE OnceInv'
  <2>1. UNCHANGED <<ready, attaching, restored, mode>>
    BY <1>11 DEF Land, GiveUp, Release, Become
  <2>2. /\ pc[p] \in {"wait", "look", "relook", "land", "exec", "become"}
        /\ pc'[p] \in {"exec", "become", "attached", "closed"}
        /\ \A r \in attaching \ {p} : pc'[r] = pc[r] /\ seen'[r] = seen[r]
    BY <1>11, <1>t DEF Land, GiveUp, Release, Become, Goto
  <2> QED
    BY <1>t, <2>1, <2>2
<1>12. CASE \E p \in Procs : Kill(p)
  BY <1>12 DEF Kill
<1>13. CASE UNCHANGED vars
  BY <1>13 DEF vars
<1> QED
  BY <1>2, <1>3, <1>4, <1>5, <1>6, <1>7, <1>8, <1>9, <1>10, <1>11, <1>12, <1>13, <1>14,
     <1>15 DEF Next, Terminal

\* What a terminal relies on stays true, as users wait until no terminal is
\* under way and one terminal at a time is under the lock.
LEMMA UndisturbedNext == Base /\ UndisturbedInv /\ [Next]_vars => UndisturbedInv'
<1> SUFFICES ASSUME Base, UndisturbedInv, [Next]_vars, "users" \notin mode, NEW q \in Procs
             PROVE  Undisturbed(q)'
  BY ModeStays DEF UndisturbedInv
<1> USE DEF Undisturbed, tmux, local, history, onServer
<1>t. /\ pc \in [Procs -> Location] /\ seen \in [Procs -> [Names -> 0..2]]
      /\ target \in [Procs -> Names \cup {Nobody}] /\ attaching \subseteq Procs
      /\ windows \in [Names -> 0..2] /\ Main \in Names
  BY NoWindowsType DEF Base, TypeOK
<1>n. Nobody \notin Names
  BY AttachAssumption DEF Names
<1>q. Undisturbed(q)
  BY DEF UndisturbedInv
<1>0. ASSUME UNCHANGED windows PROVE Live' = Live
  BY <1>0 DEF Live
<1>w. ASSUME UNCHANGED <<windows, made>> PROVE OwnWork' <=> OwnWork
  BY <1>w, <1>0 DEF OwnWork
\* Users, while no terminal is under way.
<1>1. ASSUME ~Busy, UNCHANGED <<target, attaching>>, pc'[q] = pc[q] \/ (pc[q] = "attached" /\ pc'[q] = "closed")
      PROVE  Undisturbed(q)'
  BY <1>1, <1>q DEF Busy
<1>2. ASSUME ~Busy, Gone, UNCHANGED <<target, attaching>> PROVE Undisturbed(q)'
  <2>1. pc[q] \in {"closed", "attached"}
    BY <1>2 DEF Busy
  <2>2. pc'[q] = pc[q] \/ (pc[q] = "attached" /\ pc'[q] = "closed")
    BY <1>2, <2>1 DEF Gone
  <2> QED
    BY <1>1, <1>2, <2>2
<1>3. CASE Users
  <2>1. CASE Save
    BY <2>1, <1>q, <1>0, <1>w DEF Save
  <2>2. CASE \E n \in Names : UserOpens(n)
    BY <2>2, <1>1 DEF UserOpens, UserActs
  <2>3. CASE \E n \in Names : UserCloses(n)
    BY <2>3, <1>1, <1>2 DEF UserCloses, UserActs
  <2>4. CASE ServerExit
    BY <2>4, <1>2 DEF ServerExit, UserActs
  <2>5. CASE TmuxInit
    BY <2>5, <1>1 DEF TmuxInit, UserActs
  <2> QED
    BY <1>3, <2>1, <2>2, <2>3, <2>4, <2>5 DEF Users
<1>4. ASSUME NEW p \in Procs,
             Open(p) \/ Lock(p) \/ Latest(p) \/ LockSave(p) \/ SaveRestored(p)
      PROVE  Undisturbed(q)'
  BY <1>4, <1>q, <1>t, <1>0, <1>w DEF Open, Lock, Latest, LockSave, SaveRestored, Goto, Returned
<1>14. ASSUME NEW p \in Procs, MarkReady(p) \/ Release(p) PROVE Undisturbed(q)'
  <2>1. UNCHANGED <<windows, made, seen, target, attaching, gaveUp>>
    BY <1>14 DEF MarkReady, Release
  <2>2. pc'[q] = pc[q] \/ (pc[q] = "mark" /\ pc'[q] = "relook") \/ (pc[q] = "exec" /\ pc'[q] = "become")
    BY <1>14, <1>t DEF MarkReady, Release, Goto
  <2> QED
    BY <1>q, <1>0, <1>w, <2>1, <2>2
<1>15. ASSUME NEW p \in Procs, GiveUp(p) PROVE Undisturbed(q)'
  <2>1. UNCHANGED <<windows, made, seen, attaching>> /\ gaveUp' = gaveUp \cup {p}
    BY <1>15 DEF GiveUp
  <2>2. CASE q # p
    <3>1. pc'[q] = pc[q] /\ target'[q] = target[q]
      BY <1>15, <1>t, <2>2 DEF GiveUp, Goto
    <3> QED
      BY <1>q, <1>0, <1>w, <2>1, <2>2, <3>1
  <2>3. CASE q = p
    <3>1. pc[q] \notin {"closed", "lost"} /\ pc'[q] \in {"become", "exec"} /\ target'[q] = Nobody
      BY <1>15, <1>t, <2>3 DEF GiveUp, Goto
    <3> QED
      BY <1>q, <2>1, <2>3, <3>1
  <2> QED
    BY <2>2, <2>3
<1>5. ASSUME NEW p \in Procs, Look(p) PROVE Undisturbed(q)'
  <2>1. CASE q # p
    BY <1>5, <2>1, <1>q, <1>t, <1>0, <1>w DEF Look, Goto
  <2>2. CASE q = p
    <3>1. Sessions(seen'[p]) = Live /\ Live' = Live /\ seen'[p] = windows
      BY <1>5, <1>t, <1>0 DEF Look, Live
    <3>2. Bare(windows) => OwnWork
      BY <1>t DEF Bare, OwnWork, Live, Sessions
    <3> QED
      BY <1>5, <2>2, <3>1, <3>2, <1>q, <1>t, <1>w DEF Look, Goto
  <2> QED
    BY <2>1, <2>2
<1>6. ASSUME NEW p \in Procs, Judge(p) PROVE Undisturbed(q)'
  BY <1>6, <1>q, <1>t, <1>0, <1>w DEF Judge, Goto
<1>7. ASSUME NEW p \in Procs, EndRestore(p) \/ FailRestore(p) PROVE Undisturbed(q)'
  BY <1>7, <1>q, <1>t, <1>0, <1>w DEF EndRestore, FailRestore, Returned
<1>8. ASSUME NEW p \in Procs, Land(p) PROVE Undisturbed(q)'
  <2>1. UNCHANGED <<windows, made, seen, attaching, gaveUp>> /\ pc[p] = "land"
    BY <1>8 DEF Land, Goto
  <2>2. CASE q # p
    <3>1. pc'[q] = pc[q] /\ target'[q] = target[q]
      BY <1>8, <1>t, <2>2 DEF Land, Goto
    <3> QED
      BY <1>q, <1>0, <1>w, <2>1, <2>2, <3>1
  <2>3. CASE q = p
    <3>1. pc'[q] = "exec" /\ (target'[q] = target[q] \/ target'[q] \in Sessions(seen[q]))
      BY <1>8, <1>t, <2>3 DEF Land, Goto
    <3>2. target'[q] # Nobody
      BY <1>8, <1>t, <1>n, <2>3 DEF Land, Sessions
    <3> QED
      BY <1>q, <1>0, <2>1, <2>3, <3>1, <3>2
  <2> QED
    BY <2>2, <2>3
<1>u. ASSUME NEW p \in Procs, q # p, pc[p] \in UnderLock PROVE pc[q] \notin UnderLock
  BY <1>u DEF Base, LockHeld, UndisturbedInv, UnderLock
<1>9. ASSUME NEW p \in Procs, NEW n \in Names, MakeSession(p, n) PROVE Undisturbed(q)'
  <2>1. Live \subseteq Live'
    BY <1>9, <1>0, OneMore DEF MakeSession, Base
  <2>2. CASE q # p
    BY <1>9, <1>q, <1>t, <1>u, <2>1, <2>2 DEF MakeSession, UnderLock
  <2>3. CASE q = p
    <3>1. OwnWork
      BY <1>9, <1>q, <2>3 DEF MakeSession
    <3>2. OwnWork'
      <4>1. CASE n \in Live
        BY <1>9, <4>1, <3>1, <1>w DEF MakeSession
      <4>2. CASE n \notin Live
        <5>1. Live' = Live \cup {n} /\ made' = made \cup {n}
          BY <1>9, <4>2, OneMore DEF MakeSession, Base
        <5>2. \A m \in Names \ {n} : windows'[m] = windows[m]
          BY <1>9, <1>t, <4>2 DEF MakeSession
        <5> QED
          BY <1>t, <3>1, <5>1, <5>2 DEF OwnWork
      <4> QED
        BY <4>1, <4>2
    <3> QED
      BY <1>9, <1>q, <1>t, <2>1, <2>3, <3>2 DEF MakeSession
  <2> QED
    BY <2>2, <2>3
<1>10. ASSUME NEW p \in Procs, NewMain(p) PROVE Undisturbed(q)'
  <2>1. Live' = Live \cup {Main} /\ (target'[p] # target[p] => target'[p] = Main)
    <3>1. CASE Main \in Live
      BY <1>10, <1>0, <3>1 DEF NewMain
    <3>2. CASE Main \notin Live
      <4>1. windows' = [windows EXCEPT ![Main] = 1]
        BY <1>10, <3>2 DEF NewMain
      <4>2. Live' = Live \cup {Main}
        <5>1. TypeOK /\ Main \in Names /\ 1 \in 1..2
          BY <1>t DEF Base
        <5> QED
          BY <4>1, <5>1, OneMore
      <4>3. target' = [target EXCEPT ![p] = Main]
        BY <1>10, <3>2 DEF NewMain
      <4>4. target'[p] = Main
        BY <1>t, <4>3
      <4> QED
        BY <4>2, <4>4
    <3> QED
      BY <3>1, <3>2
  <2>2. pc[p] = "land" /\ UNCHANGED <<made, seen, attaching, gaveUp>>
    BY <1>10 DEF NewMain, Goto
  <2>3. CASE q # p
    <3>1. pc'[q] = pc[q] /\ target'[q] = target[q]
      BY <1>10, <1>t, <2>3 DEF NewMain, Goto
    <3>2. pc[q] \notin UnderLock
      BY <1>u, <2>2, <2>3 DEF UnderLock
    <3> QED
      BY <1>q, <2>1, <2>2, <3>1, <3>2 DEF UnderLock
  <2>4. CASE q = p
    <3>1. pc'[q] = "exec"
      BY <1>10, <1>t, <2>4 DEF NewMain, Goto
    <3> QED
      BY <1>q, <2>1, <2>2, <2>4, <3>1
  <2> QED
    BY <2>3, <2>4
<1>11. ASSUME NEW p \in Procs, Become(p) PROVE Undisturbed(q)'
  <2>1. CASE UNCHANGED windows
    BY <1>11, <1>q, <1>t, <1>0, <1>w, <2>1 DEF Become, Goto
  <2>2. CASE Main \notin Live /\ windows' = [windows EXCEPT ![Main] = 1]
    <3>1. Live' = Live \cup {Main}
      <4>1. TypeOK /\ Main \in Names
        BY <1>t DEF Base
      <4>2. windows' = [windows EXCEPT ![Main] = 1] /\ 1 \in 1..2
        BY <2>2
      <4> QED
        BY <4>1, <4>2, OneMore
    <3>2. OwnWork => OwnWork'
      BY <1>11, <1>t, <2>2, <3>1 DEF OwnWork, Become
    <3> QED
      BY <1>11, <1>q, <1>t, <3>1, <3>2 DEF Become, Goto
  <2> QED
    BY <1>11, <2>1, <2>2 DEF Become
<1>12. ASSUME NEW p \in Procs, Kill(p) PROVE Undisturbed(q)'
  BY <1>12, <1>q, <1>t, <1>0, <1>w DEF Kill
<1>13. CASE UNCHANGED vars
  BY <1>13, <1>q, <1>0, <1>w DEF vars
<1> QED
  BY <1>3, <1>4, <1>5, <1>6, <1>7, <1>8, <1>9, <1>10, <1>11, <1>12, <1>13, <1>14, <1>15
     DEF Next, Terminal, StartRestore

\* What a restore still owes stays in the snapshot while nothing goes wrong.
LEMMA CalmNext == Base /\ UndisturbedInv /\ CalmInv /\ [Next]_vars => CalmInv'
<1> SUFFICES ASSUME Base, UndisturbedInv, CalmInv, [Next]_vars, mode = {} PROVE CalmInv'
  BY ModeStays DEF CalmInv
<1> USE DEF CalmInv, Up, tmux, local, history, onServer
<1>t. /\ pc \in [Procs -> Location] /\ snap \in [Procs -> SUBSET Names] /\ seen \in [Procs -> [Names -> 0..2]]
      /\ attaching \subseteq Procs /\ Main \in Names /\ ready \in BOOLEAN
  BY NoWindowsType DEF Base, TypeOK
<1>0. ASSUME UNCHANGED windows PROVE Live' = Live
  BY <1>0 DEF Live
<1>h. (ready => Live # {}) /\ made \subseteq Live
  BY DEF Base, ServerHolds
<1>a. \A p \in Procs : pc[p] # "lost" /\ (pc[p] # "closed" => p \in attaching)
  BY DEF UndisturbedInv, Undisturbed
<1>u. ASSUME NEW p \in Procs, NEW q \in Procs, pc[p] \in UnderLock, pc[q] \in UnderLock
      PROVE  p = q
  BY <1>a, <1>u DEF Base, LockHeld, UnderLock
\* Users, while no terminal is under way.
<1>b. ASSUME ~Busy, NEW p \in Procs PROVE pc[p] \in {"closed", "attached"}
  BY <1>b DEF Busy
<1>1. ASSUME ~Busy, Gone, UNCHANGED mode, owed' \subseteq saved' PROVE CalmInv'
  <2>1. \A p \in Procs : pc'[p] = "closed"
    BY <1>1, <1>b DEF Gone
  <2> QED
    BY <1>1, <2>1, GoneLeavesNothing
<1>2. ASSUME NEW n \in Names, UserOpens(n) PROVE CalmInv'
  <2>1. ~Busy /\ made' \subseteq made /\ UNCHANGED <<mode, ready, saved, pc, snap, attaching, owed>>
    BY <1>2 DEF UserOpens, UserActs
  <2>2. \A p \in attaching : pc[p] # "creating"
    BY <1>b, <1>t, <2>1
  <2>3. \A p \in Procs : pc'[p] \in {"closed", "attached"}
    BY <1>b, <2>1
  <2> QED
    BY <2>1, <2>2, <2>3
<1>3. ASSUME NEW n \in Names, UserCloses(n) PROVE CalmInv'
  <2>1. CASE Live = {n}
    BY <1>1, <1>3, <2>1 DEF UserCloses, UserActs
  <2>2. CASE Live # {n}
    <3>1. /\ ~Busy /\ made' \subseteq made /\ owed' = owed \ {n}
          /\ saved' = saved \/ saved' = (IF ready THEN Live \ {n} ELSE saved \ {n})
          /\ UNCHANGED <<mode, ready, pc, snap, attaching>>
      BY <1>3, <2>2 DEF UserCloses, UserActs
    <3>2. \A p \in attaching : pc[p] # "creating"
      BY <1>b, <1>t, <3>1
    <3>3. \A p \in Procs : pc'[p] \in {"closed", "attached"}
      BY <1>b, <3>1
    <3>4. owed' \subseteq saved'
      BY <3>1
    <3> QED
      BY <3>1, <3>2, <3>3, <3>4
  <2> QED
    BY <2>1, <2>2
<1>4. CASE ServerExit
  BY <1>1, <1>4 DEF ServerExit, UserActs
<1>5. CASE Save \/ TmuxInit
  BY <1>5, <1>0 DEF Save, TmuxInit
<1>6. ASSUME NEW p \in Procs, Open(p) \/ Lock(p) \/ Release(p) \/ GiveUp(p) PROVE CalmInv'
  BY <1>6, <1>0, <1>t DEF Open, Lock, Release, GiveUp, Goto
<1>7. ASSUME NEW p \in Procs, Look(p) \/ Land(p) PROVE CalmInv'
  BY <1>7, <1>0, <1>t DEF Look, Land, Goto
<1>8. ASSUME NEW p \in Procs, Judge(p) PROVE CalmInv'
  <2>0. /\ pc[p] = "ready" /\ pc' = [pc EXCEPT ![p] = pc'[p]]
        /\ pc'[p] = CASE IsReady(p) -> "land"
                      [] ~IsReady(p) /\ Bare(seen[p]) -> "latest"
                      [] OTHER -> "mark"
    BY <1>8, <1>t DEF Judge, Goto
  <2>1. CASE pc'[p] = "mark"
    <3>1. ~ready /\ Sessions(seen[p]) # {}
      <4>1. ~IsReady(p) /\ ~Bare(seen[p])
        BY <2>0, <2>1
      <4>2. Sessions(seen[p]) # {}
        BY <1>t, <4>1 DEF Bare, Sessions
      <4> QED
        BY <4>1, <4>2 DEF IsReady
    <3>2. \A q \in attaching : pc[q] # "creating"
      BY <1>8, <1>t, <1>u DEF Judge, Goto, UnderLock
    <3>4. made = {}
      BY <3>1, <3>2
    <3>3. owed' = {}
      BY <1>8, <2>1, <3>1, <3>4 DEF Judge
    <3> QED
      BY <1>8, <1>0, <1>t, <3>1, <3>2, <3>3 DEF Judge, Goto
  <2>2. CASE pc'[p] # "mark"
    <3>1. UNCHANGED owed /\ (pc'[p] = "land" => ready)
      BY <1>8, <1>t, <2>2 DEF Judge, Goto, IsReady
    <3> QED
      BY <1>8, <1>0, <1>t, <2>2, <3>1 DEF Judge, Goto
  <2> QED
    BY <2>1, <2>2
<1>9. ASSUME NEW p \in Procs, Latest(p) PROVE CalmInv'
  BY <1>9, <1>0, <1>t DEF Latest, Returned
<1>10. ASSUME NEW p \in Procs, LockSave(p) PROVE CalmInv'
  BY <1>10, <1>0, <1>t DEF LockSave, Goto
<1>11. ASSUME NEW p \in Procs, NEW n \in Names, MakeSession(p, n) PROVE CalmInv'
  <2>1. Live' # {} /\ p \in attaching
    BY <1>11, <1>0, <1>a, OneMore DEF MakeSession, Base
  <2> QED
    BY <1>11, <1>t, <2>1 DEF MakeSession
<1>12. ASSUME NEW p \in Procs, EndRestore(p) PROVE CalmInv'
  <2>1. Live # {} /\ snap[p] = {}
    BY <1>12 DEF EndRestore
  <2>2. owed' = {} /\ ready'
    BY <1>12, <2>1 DEF EndRestore, Marked
  <2> QED
    BY <1>12, <1>0, <1>t, <2>1, <2>2 DEF EndRestore, Returned
<1>13. ASSUME NEW p \in Procs, FailRestore(p) PROVE FALSE
  BY <1>13, <1>a DEF FailRestore
<1>14. ASSUME NEW p \in Procs, SaveRestored(p) PROVE CalmInv'
  BY <1>14, <1>0, <1>t DEF SaveRestored, Goto, Returned
<1>15. ASSUME NEW p \in Procs, MarkReady(p) PROVE CalmInv'
  <2>1. owed = {} /\ ready' \in {Up} /\ UNCHANGED <<mode, windows, saved, snap, attaching, made, owed>>
    BY <1>15 DEF MarkReady, Marked, Goto
  <2> QED
    BY <1>15, <1>0, <1>t, <1>h, <2>1 DEF MarkReady, Goto
<1>16. ASSUME NEW p \in Procs, NewMain(p) PROVE CalmInv'
  <2>1. Live \subseteq Live'
    <3>1. UNCHANGED windows \/ windows' = [windows EXCEPT ![Main] = 1]
      BY <1>16 DEF NewMain
    <3> QED
      BY <3>1, <1>0, <1>t, OneMore DEF Base
  <2>2. ready' = ready \/ ready' = TRUE
    BY <1>16 DEF NewMain, Marked
  <2>3. owed = {} /\ pc[p] = "land" /\ UNCHANGED <<mode, saved, snap, attaching, made, owed>>
    BY <1>16 DEF NewMain, Goto
  <2>4. \A r \in Procs : pc'[r] = IF r = p THEN "exec" ELSE pc[r]
    BY <1>16, <1>t DEF NewMain, Goto
  <2> QED
    BY <1>t, <2>1, <2>2, <2>3, <2>4
<1>17. ASSUME NEW p \in Procs, Become(p) PROVE CalmInv'
  <2>1. Live \subseteq Live'
    <3>1. UNCHANGED windows \/ windows' = [windows EXCEPT ![Main] = 1]
      BY <1>17 DEF Become
    <3> QED
      BY <3>1, <1>0, <1>t, OneMore DEF Base
  <2> QED
    BY <1>17, <1>t, <2>1 DEF Become, Goto
<1>18. CASE UNCHANGED vars
  BY <1>18, <1>0 DEF vars
<1> QED
  BY <1>2, <1>3, <1>4, <1>5, <1>6, <1>7, <1>8, <1>9, <1>10, <1>11, <1>12, <1>13, <1>14, <1>15,
     <1>16, <1>17, <1>18 DEF Next, Users, Terminal, StartRestore, Kill
-----------------------------------------------------------------------------
LEMMA BaseInit == Init => Base
<1> SUFFICES ASSUME Init PROVE LockHeld /\ ServerHolds
  BY TypeInit DEF Base
<1>1. LockHeld
  BY DEF Init, LockHeld, UnderLock, InRestore
<1>2. ServerHolds
  BY DEF Init, ServerHolds
<1> QED
  BY <1>1, <1>2

LEMMA BaseInvariant == Spec => []Base
<1>1. Base /\ [Next]_vars => Base'
  BY TypeNext, LockNext, ServerNext DEF Base
<1> QED
  BY <1>1, BaseInit, PTL DEF Spec

LEMMA UndisturbedInvariant == Spec => []UndisturbedInv
<1>1. Init => UndisturbedInv
  BY DEF Init, UndisturbedInv, Undisturbed
<1> QED
  BY <1>1, BaseInvariant, UndisturbedNext, PTL DEF Spec

\* Terminals that open together restore a server once, whatever users,
\* `restore', failures and timeouts do meanwhile, unless attach failed to set
\* or to read the server's mark: the attach lock is kept
\* until the server is ready, and every attach looks again under it.
THEOREM RestoredAtMostOnce == Spec => []RestoredOnce
<1>1. Init => OnceInv
  BY DEF Init, OnceInv
<1>2. OnceInv => RestoredOnce
  BY DEF OnceInv, RestoredOnce
<1> QED
  BY <1>1, <1>2, BaseInvariant, OnceNext, PTL DEF Spec

\* While restores run to their end undisturbed, what no restore has put back
\* stays in the newest snapshot: no save of a half-restored server replaces
\* it, since the server is ready only once it owes nothing.
THEOREM OwedStaysInSnapshot == Spec => []OwedStaysCalm
<1>1. Init => CalmInv
  BY DEF Init, CalmInv
<1>2. CalmInv => OwedStaysCalm
  BY DEF CalmInv, OwedStaysCalm, OwedStays
<1> QED
  BY <1>1, <1>2, BaseInvariant, UndisturbedInvariant, CalmNext, PTL DEF Spec

\* An attach makes sessions only beside restored ones and a one-window main,
\* as long as users do not meddle, also after a restore that failed or was
\* killed.
THEOREM NeverOntoLiveWork == Spec => LiveWorkAlone
<1> DEFINE step ==
      \A p \in attaching, n \in Names : MakeSession(p, n) /\ "users" \notin mode
          => \A m \in Live : m \in made \/ (m = Main /\ windows[m] = 1)
<1>1. Base /\ UndisturbedInv => step
  BY DEF Base, TypeOK, UndisturbedInv, Undisturbed, OwnWork, MakeSession
<1>2. Base /\ UndisturbedInv /\ [Next]_vars => [step]_vars
  BY <1>1
<1> QED
  BY <1>2, BaseInvariant, UndisturbedInvariant, PTL DEF Spec, LiveWorkAlone

\* Unless it gave up, a terminal gets a new main, from Attach or from the client
\* it becomes, only when there is no session it may land on: what it last read
\* of the sessions is still so, and a main that Attach found is there.
THEOREM NoMainBesideSessions == Spec => NoStrayMain
<1> DEFINE step ==
      \A p \in Procs :
          /\ "users" \notin mode
          /\ NewMain(p) \/ (Become(p) /\ p \notin gaveUp /\ windows' # windows)
          => Live \subseteq Skipped \cup {Main}
<1>1. UndisturbedInv => step
  <2> SUFFICES ASSUME UndisturbedInv, "users" \notin mode, NEW p \in Procs,
                      NewMain(p) \/ (Become(p) /\ p \notin gaveUp /\ windows' # windows)
               PROVE  Live \subseteq Skipped \cup {Main}
    OBVIOUS
  <2>1. CASE NewMain(p)
    BY <2>1 DEF UndisturbedInv, Undisturbed, NewMain, Goto
  <2>2. ASSUME Become(p), p \notin gaveUp PROVE windows' = windows
    BY <2>2 DEF UndisturbedInv, Undisturbed, Become, Goto
  <2> QED
    BY <2>1, <2>2
<1>2. UndisturbedInv /\ [Next]_vars => [step]_vars
  BY <1>1
<1> QED
  BY <1>2, UndisturbedInvariant, PTL DEF Spec, NoStrayMain

\* Whatever fails, a terminal that becomes a tmux client gets a session.
THEOREM TerminalsGetSessions == Spec => GetsSession
<1> DEFINE step ==
      \A p \in Procs : Become(p) /\ "users" \notin mode => pc'[p] = "attached"
<1>1. Base /\ UndisturbedInv => step
  BY DEF Base, TypeOK, UndisturbedInv, Undisturbed, Become, Goto
<1>2. Base /\ UndisturbedInv /\ [Next]_vars => [step]_vars
  BY <1>1
<1> QED
  BY <1>2, BaseInvariant, UndisturbedInvariant, PTL DEF Spec, GetsSession
=============================================================================
