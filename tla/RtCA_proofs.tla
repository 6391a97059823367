---------------------------- MODULE RtCA_proofs ----------------------------
(***************************************************************************)
(* Proofs about the scans of RtCA, for every number of tests, of scans and *)
(* of clicks on Stop; then about its sessions, for every number of scans   *)
(* and imports, every clock, array and database file.                      *)
(*                                                                         *)
(* As long as no scan meets another, at most one is under way, the one     *)
(* created last. Every test whose thread goes on is in its table, but for  *)
(* the one just created; nothing runs before it launches and after it has  *)
(* waited. That needs the shared loop variable at each control point.      *)
(***************************************************************************)
EXTENDS RtCAScan, RtCASession, FiniteSetTheorems, FunctionTheorems,
        SequenceTheorems, TLAPS

AtWork(g) == gpc[g] \notin {"none", "done"}

(* What is left open when scans are not between launching and committing.  *)
Still == ~tx /\ ~pending /\ \A t \in Tests : ~Running(t)

Outside == {"none", "init", "begin", "clear", "note", "dialog", "done"}

(* Scans begin in their order, and a scan at work is the last of them.     *)
InOrder == \A g, k \in Scans : k < g /\ gpc[g] # "none" => gpc[k] # "none"

LastWorks == \A g \in Scans : AtWork(g) => Latest(g)

QuietOutside == (\A g \in Scans : gpc[g] \in Outside) => Still

(* A test's thread is in the table, or its scan is about to store it.      *)
InTable == \A t \in Tests : Running(t) =>
  \/ t \in h
  \/ /\ t = nb_current_test + 1
     /\ \E g \in Scans : gpc[g] \in {"store", "dead"}

WaitsForAll == \A g \in Scans :
  /\ gpc[g] \in {"wait", "commit"} => nb_current_test = NbTests
  /\ gpc[g] = "wait" => \A t \in Tests : t <= gj[g] => ~Running(t)
  /\ gpc[g] = "commit" => \A t \in Tests : ~Running(t)

(* A dialog that is being closed has terminated what the loop had passed,  *)
(* and the loop only goes on from there.                                   *)
KilledPassed ==
  /\ conf = "kill" \/ (\E g \in Scans : gpc[g] = "dead") =>
       \A t \in 1 .. reached : ~Running(t)
  /\ conf = "kill" => \A g \in Scans :
       /\ gpc[g] = "init" => reached = 0
       /\ gpc[g] \in {"begin", "launch", "store"} => reached <= nb_current_test

DialogThere ==
  app = "running" => \A g \in Scans : Alive(g) => conf # "closed"

(* While a scan is under way the button starts no other, or it was just    *)
(* taken for a Stop.                                                       *)
ButtonTaken == \A g \in Scans :
  Alive(g) /\ gpc[g] \notin {"note", "dialog"} =>
    start_scan \/ ~btOn \/ \E s \in Stops : spc[s] \in {"note", "disable"}

ApartInv ==
  /\ LastWorks /\ QuietOutside /\ InTable /\ WaitsForAll /\ KilledPassed
  /\ DialogThere /\ ButtonTaken

ClosedInv ==
  /\ app = "closed" => conf = "closed"
  /\ lost => app = "closed"

ScanInv == TypeOK /\ InOrder /\ ClosedInv /\ ResultsSaved /\ (~met => ApartInv)
-----------------------------------------------------------------------------
USE BoundsAssumption DEF Tests, Scans, Stops

LEMMA InitIsScanInv == Init => ScanInv
<1> SUFFICES ASSUME Init PROVE ScanInv
  OBVIOUS
<1>1. TypeOK
  <2>1. 0 \in 0 .. NbTests
    OBVIOUS
  <2>2. /\ {btOn, start_scan, stop_scan, full_speed, tx, pending, lost, met}
             \subseteq BOOLEAN
        /\ checked \subseteq Tests /\ h \subseteq Tests
    BY DEF Init
  <2> QED
    BY <2>1, <2>2 DEF Init, TypeOK
<1>2. InOrder /\ ClosedInv /\ ResultsSaved
  BY DEF Init, InOrder, ClosedInv, ResultsSaved
<1>3. LastWorks /\ QuietOutside /\ InTable /\ WaitsForAll
  BY DEF Init, LastWorks, AtWork, QuietOutside, Outside, Still, Running, InTable,
         WaitsForAll
<1>4. KilledPassed /\ DialogThere /\ ButtonTaken
  BY DEF Init, KilledPassed, DialogThere, ButtonTaken, Alive
<1> QED
  BY <1>1, <1>2, <1>3, <1>4 DEF ScanInv, ApartInv

(* Every step keeps the variables in their ranges.                         *)
LEMMA TypeKept == TypeOK /\ [Next]_vars => TypeOK'
<1> SUFFICES ASSUME TypeOK, [Next]_vars PROVE TypeOK'
  OBVIOUS
<1> USE DEF TypeOK, confVars, flagVars, scanVars, dbVars, fixedVars
<1>1. ASSUME NewSession PROVE TypeOK'
  BY <1>1 DEF NewSession
<1>2. ASSUME CloseStopped PROVE TypeOK'
  BY <1>2 DEF CloseStopped
<1>3. ASSUME CloseKillTests PROVE TypeOK'
  BY <1>3 DEF CloseKillTests
<1>4. ASSUME CloseKillScan PROVE TypeOK'
  BY <1>4 DEF CloseKillScan
<1>5. ASSUME CloseMain PROVE TypeOK'
  BY <1>5 DEF CloseMain
<1>6. ASSUME NEW t \in Tests, Check(t) PROVE TypeOK'
  BY <1>6 DEF Check
<1>7. ASSUME NEW t \in Tests, StopTest(t) PROVE TypeOK'
  BY <1>7 DEF StopTest
<1>8. ASSUME NEW g \in Scans, ClickStart(g) PROVE TypeOK'
  BY <1>8 DEF ClickStart
<1>9. ASSUME NEW k \in Stops, ClickStop(k) PROVE TypeOK'
  BY <1>9 DEF ClickStop
<1>10. ASSUME NEW k \in Stops, StopGUIScan(k) PROVE TypeOK'
  BY <1>10 DEF StopGUIScan, StopStep
<1>11. ASSUME NEW g \in Scans, GUIScan(g) PROVE TypeOK'
  <2>1. ASSUME Reset(g) PROVE TypeOK'
    BY <2>1 DEF Reset, At
  <2>9. ASSUME Begin(g) PROVE TypeOK'
    BY <2>9 DEF Begin, At
  <2>2. ASSUME Skip(g) PROVE TypeOK'
    BY <2>2 DEF Skip, At
  <2>3. ASSUME Launch(g) PROVE TypeOK'
    <3>1. nb_current_test + 1 \in Tests
      BY <2>3 DEF Launch
    <3> QED
      BY <2>3, <3>1 DEF Launch, At
  <2>4. ASSUME Store(g) PROVE TypeOK'
    <3>1. nb_current_test + 1 \in Tests
      BY <2>4 DEF Store
    <3> QED
      BY <2>4, <3>1 DEF Store, At
  <2>5. ASSUME Launched(g) PROVE TypeOK'
    BY <2>5 DEF Launched, At
  <2>6. ASSUME Wait(g) PROVE TypeOK'
    <3>1. gj[g] + 1 \in 0 .. NbTests
      BY <2>6 DEF Wait
    <3> QED
      BY <2>6, <3>1 DEF Wait, At
  <2>7. ASSUME Waited(g) \/ Commit(g) PROVE TypeOK'
    BY <2>7 DEF Waited, Commit, At
  <2>8. ASSUME ClearStart(g) \/ ClearStop(g) \/ EndDialog(g) PROVE TypeOK'
    BY <2>8 DEF ClearStart, ClearStop, EndDialog, At
  <2> QED
    BY <1>11, <2>1, <2>2, <2>3, <2>4, <2>5, <2>6, <2>7, <2>8,
       <2>9 DEF GUIScan
<1>12. ASSUME NEW t \in Tests, ScanTest(t) PROVE TypeOK'
  <2>1. ASSUME BeginTests(t) PROVE TypeOK'
    BY <2>1 DEF BeginTests, TestStep
  <2>3. ASSUME EnterDb(t) PROVE TypeOK'
    BY <2>3 DEF EnterDb, TestStep
  <2>4. ASSUME LeaveDb(t) PROVE TypeOK'
    BY <2>4 DEF LeaveDb, TestStep
  <2>2. ASSUME EndTests(t) \/ Finish(t) PROVE TypeOK'
    BY <2>2 DEF EndTests, Finish, TestStep
  <2> QED
    BY <1>12, <2>1, <2>2, <2>3, <2>4 DEF ScanTest
<1>13. ASSUME UNCHANGED vars PROVE TypeOK'
  BY <1>13 DEF vars
<1> QED
  BY <1>1, <1>2, <1>3, <1>4, <1>5, <1>6, <1>7, <1>8, <1>9, <1>10, <1>11, <1>12,
     <1>13 DEF Next, Windows, Over
-----------------------------------------------------------------------------
(* Only these steps move a scan on.                                        *)
LEMMA ScanMoves ==
  [Next]_vars => \/ gpc' = gpc
                 \/ CloseKillScan
                 \/ \E g \in Scans : ClickStart(g) \/ GUIScan(g)
<1> SUFFICES ASSUME [Next]_vars,
                    ~CloseKillScan,
                    \A g \in Scans : ~ClickStart(g) /\ ~GUIScan(g)
             PROVE  gpc' = gpc
  OBVIOUS
<1> USE DEF scanVars
<1>1. ASSUME NewSession \/ CloseStopped \/ CloseKillTests \/ CloseMain
      PROVE  gpc' = gpc
  BY <1>1 DEF NewSession, CloseStopped, CloseKillTests, CloseMain
<1>2. ASSUME NEW t \in Tests, Check(t) \/ StopTest(t) PROVE gpc' = gpc
  BY <1>2 DEF Check, StopTest
<1>3. ASSUME NEW k \in Stops, ClickStop(k) \/ StopGUIScan(k) PROVE gpc' = gpc
  BY <1>3 DEF ClickStop, StopGUIScan, StopStep
<1>4. ASSUME NEW t \in Tests, ScanTest(t) PROVE gpc' = gpc
  BY <1>4 DEF ScanTest, BeginTests, EnterDb, LeaveDb, EndTests, Finish, TestStep
<1>5. ASSUME UNCHANGED vars PROVE gpc' = gpc
  BY <1>5 DEF vars
<1> QED
  BY <1>1, <1>2, <1>3, <1>4, <1>5 DEF Next, Windows, Over

(* Where a step of GUIScan leads from and to.                              *)
GoesOn(g, from, to) ==
  \/ from = "init" /\ to = "begin" /\ Reset(g)
  \/ from = "begin" /\ to = "launch" /\ Begin(g)
  \/ from = "launch" /\ to = "launch" /\ Skip(g)
  \/ from = "launch" /\ to = "store" /\ Launch(g)
  \/ from = "store" /\ to = "launch" /\ Store(g)
  \/ from = "launch" /\ to = "wait" /\ Launched(g)
  \/ from = "wait" /\ to = "wait" /\ Wait(g)
  \/ from = "wait" /\ to = "commit" /\ Waited(g)
  \/ from = "commit" /\ to = "clear" /\ Commit(g)
  \/ from = "clear" /\ to = "note" /\ ClearStart(g)
  \/ from = "note" /\ to = "dialog" /\ ClearStop(g)
  \/ from = "dialog" /\ to = "done" /\ EndDialog(g)

LEMMA ScanGoesOn ==
  ASSUME TypeOK, NEW g \in Scans, GUIScan(g)
  PROVE  /\ app = "running"
         /\ gpc' = [gpc EXCEPT ![g] = gpc'[g]]
         /\ GoesOn(g, gpc[g], gpc'[g])
<1>2. ASSUME NEW from, NEW to, At(g, from, to)
      PROVE  /\ app = "running" /\ gpc[g] = from
             /\ gpc' = [gpc EXCEPT ![g] = gpc'[g]] /\ gpc'[g] = to
  BY <1>2 DEF At, TypeOK
<1>3. CASE Reset(g) \/ Begin(g) \/ Skip(g) \/ Launch(g) \/ Store(g)
  BY <1>2, <1>3 DEF GoesOn, Reset, Begin, Skip, Launch, Store
<1>4. CASE Launched(g) \/ Wait(g) \/ Waited(g) \/ Commit(g)
  BY <1>2, <1>4 DEF GoesOn, Launched, Wait, Waited, Commit
<1>5. CASE ClearStart(g) \/ ClearStop(g) \/ EndDialog(g)
  BY <1>2, <1>5 DEF GoesOn, ClearStart, ClearStop, EndDialog
<1> QED
  BY <1>3, <1>4, <1>5 DEF GUIScan

LEMMA ScanMoves2 ==
  ASSUME TypeOK, NEW g \in Scans, GUIScan(g)
  PROVE  AtWork(g) /\ gpc[g] # "dead" /\ gpc'[g] \notin {"none", "init", "dead"}
BY ScanGoesOn DEF AtWork, GoesOn

LEMMA OnlyOne ==
  ASSUME LastWorks, NEW g \in Scans, NEW k \in Scans, AtWork(g), AtWork(k)
  PROVE  g = k
BY DEF LastWorks, Latest, AtWork

LEMMA OrderKept == TypeOK /\ InOrder /\ [Next]_vars => InOrder'
<1> SUFFICES ASSUME TypeOK, InOrder, [Next]_vars PROVE InOrder'
  OBVIOUS
<1>1. CASE gpc' = gpc
  BY <1>1 DEF InOrder
<1>2. CASE CloseKillScan
  BY <1>2 DEF InOrder, CloseKillScan, Alive, TypeOK
<1>3. ASSUME NEW g \in Scans, ClickStart(g) PROVE InOrder'
  BY <1>3 DEF InOrder, ClickStart, TypeOK
<1>4. ASSUME NEW g \in Scans, GUIScan(g) PROVE InOrder'
  <2>1. gpc[g] # "none" /\ gpc'[g] # "none"
    BY <1>4, ScanMoves2 DEF AtWork
  <2>2. gpc' = [gpc EXCEPT ![g] = gpc'[g]]
    BY <1>4, ScanGoesOn
  <2> QED
    BY <2>1, <2>2 DEF InOrder, TypeOK
<1> QED
  BY <1>1, <1>2, <1>3, <1>4, ScanMoves

LEMMA LastKept ==
  ASSUME TypeOK, InOrder, LastWorks, [Next]_vars, ~met'
  PROVE  LastWorks'
<1>1. CASE gpc' = gpc
  BY <1>1 DEF LastWorks, AtWork, Latest
<1>2. CASE CloseKillScan
  BY <1>2 DEF LastWorks, AtWork, Latest, CloseKillScan, Alive, TypeOK
<1>3. ASSUME NEW g \in Scans, ClickStart(g) PROVE LastWorks'
  <2>1. \A k \in Scans : ~AtWork(k)
    BY <1>3 DEF ClickStart, AtWork
  <2>2. \A k \in Scans : k > g => gpc[k] = "none"
    BY <1>3 DEF ClickStart, InOrder
  <2>3. gpc' = [gpc EXCEPT ![g] = "init"]
    BY <1>3 DEF ClickStart
  <2> QED
    BY <2>1, <2>2, <2>3 DEF LastWorks, AtWork, Latest, TypeOK
<1>4. ASSUME NEW g \in Scans, GUIScan(g) PROVE LastWorks'
  <2>1. AtWork(g) /\ gpc'[g] # "none"
    BY <1>4, ScanMoves2
  <2>2. gpc' = [gpc EXCEPT ![g] = gpc'[g]]
    BY <1>4, ScanGoesOn
  <2> QED
    BY <2>1, <2>2 DEF LastWorks, AtWork, Latest, TypeOK
<1> QED
  BY <1>1, <1>2, <1>3, <1>4, ScanMoves

(* Threads begin only where they are created.                              *)
LEMMA FewerRun ==
  ASSUME TypeOK, [Next]_vars, \A g \in Scans : ~Launch(g)
  PROVE  \A t \in Tests : Running(t)' => Running(t)
<1> SUFFICES ASSUME NEW t \in Tests PROVE Running(t)' => Running(t)
  OBVIOUS
<1>1. CASE tpc' = tpc
  BY <1>1 DEF Running
<1>2. CASE CloseKillTests
  BY <1>2 DEF CloseKillTests, Running, TypeOK
<1>3. ASSUME NEW u \in Tests, StopTest(u) PROVE Running(t)' => Running(t)
  BY <1>3 DEF StopTest, Running, TypeOK
<1>4. ASSUME NEW u \in Tests, ScanTest(u) PROVE Running(t)' => Running(t)
  <2>1. \E new : tpc[u] \in {"begin", "run", "db", "end"}
                 /\ tpc' = [tpc EXCEPT ![u] = new]
    BY <1>4 DEF ScanTest, BeginTests, EnterDb, LeaveDb, EndTests, Finish, TestStep
  <2> QED
    BY <2>1 DEF Running, TypeOK
<1>5. \/ tpc' = tpc \/ CloseKillTests
      \/ \E u \in Tests : StopTest(u) \/ ScanTest(u)
  <2> SUFFICES ASSUME ~CloseKillTests, \A u \in Tests : ~StopTest(u) /\ ~ScanTest(u)
               PROVE  tpc' = tpc
    OBVIOUS
  <2>1. ASSUME NewSession \/ CloseStopped \/ CloseKillScan \/ CloseMain
        PROVE  tpc' = tpc
    BY <2>1 DEF NewSession, CloseStopped, CloseKillScan, CloseMain
  <2>2. ASSUME NEW u \in Tests, Check(u) PROVE tpc' = tpc
    BY <2>2 DEF Check
  <2>3. ASSUME NEW g \in Scans, ClickStart(g) PROVE tpc' = tpc
    BY <2>3 DEF ClickStart
  <2>4. ASSUME NEW k \in Stops, ClickStop(k) \/ StopGUIScan(k) PROVE tpc' = tpc
    BY <2>4 DEF ClickStop, StopGUIScan, StopStep
  <2>5. ASSUME NEW g \in Scans, GUIScan(g) PROVE tpc' = tpc
    BY <2>5 DEF GUIScan, Reset, Begin, Skip, Store, Launched, Wait, Waited, Commit,
                ClearStart, ClearStop, EndDialog
  <2>6. ASSUME UNCHANGED vars PROVE tpc' = tpc
    BY <2>6 DEF vars
  <2> QED
    BY <2>1, <2>2, <2>3, <2>4, <2>5, <2>6 DEF Next, Windows, Over
<1> QED
  BY <1>1, <1>2, <1>3, <1>4, <1>5

(* A database without a transaction or rows stays so until a thread is     *)
(* created or a scan begins its own.                                       *)
LEMMA StaysStill ==
  ASSUME TypeOK, Still, [Next]_vars, \A g \in Scans : ~Begin(g) /\ ~Launch(g)
  PROVE  Still'
<1>1. \A t \in Tests : ~Running(t)'
  BY FewerRun DEF Still
<1>2. ~tx' /\ ~pending'
  <2> USE DEF Still, dbVars
  <2>1. ASSUME NewSession \/ CloseStopped \/ CloseKillTests \/ CloseKillScan
                 \/ CloseMain
        PROVE  ~tx' /\ ~pending'
    BY <2>1 DEF NewSession, CloseStopped, CloseKillTests, CloseKillScan, CloseMain
  <2>2. ASSUME NEW t \in Tests, Check(t) \/ StopTest(t) PROVE ~tx' /\ ~pending'
    BY <2>2 DEF Check, StopTest
  <2>3. ASSUME NEW g \in Scans, ClickStart(g) PROVE ~tx' /\ ~pending'
    BY <2>3 DEF ClickStart
  <2>4. ASSUME NEW k \in Stops, ClickStop(k) \/ StopGUIScan(k) PROVE ~tx' /\ ~pending'
    BY <2>4 DEF ClickStop, StopGUIScan, StopStep
  <2>5. ASSUME NEW g \in Scans, GUIScan(g) PROVE ~tx' /\ ~pending'
    BY <2>5 DEF GUIScan, Reset, Skip, Store, Launched, Wait, Waited, Commit,
                ClearStart, ClearStop, EndDialog
  <2>6. ASSUME NEW t \in Tests, ScanTest(t) PROVE FALSE
    BY <2>6 DEF ScanTest, BeginTests, EnterDb, LeaveDb, EndTests, Finish, TestStep,
                Running
  <2>7. ASSUME UNCHANGED vars PROVE ~tx' /\ ~pending'
    BY <2>7 DEF vars
  <2> QED
    BY <2>1, <2>2, <2>3, <2>4, <2>5, <2>6, <2>7 DEF Next, Windows, Over
<1> QED
  BY <1>1, <1>2 DEF Still

LEMMA QuietKept ==
  ASSUME TypeOK, LastWorks, QuietOutside, WaitsForAll, [Next]_vars, ~met'
  PROVE  QuietOutside'
<1> SUFFICES ASSUME \A g \in Scans : gpc'[g] \in Outside PROVE Still'
  BY DEF QuietOutside, Outside
<1>1. ASSUME NEW g \in Scans PROVE ~Begin(g) /\ ~Launch(g)
  BY DEF Begin, Launch, At, Outside, TypeOK
<1>2. CASE \A g \in Scans : gpc[g] \in Outside
  BY <1>1, <1>2, StaysStill DEF QuietOutside
<1>3. CASE gpc' = gpc \/ CloseKillScan
  <2>1. \A g \in Scans : gpc'[g] = gpc[g] \/ gpc'[g] = "dead"
    BY <1>3 DEF CloseKillScan, TypeOK
  <2> QED
    BY <1>2, <2>1 DEF Outside
<1>4. ASSUME NEW g \in Scans, ClickStart(g) PROVE Still'
  <2>1. \A k \in Scans : gpc[k] \in {"none", "done"}
    BY <1>4 DEF ClickStart
  <2> QED
    BY <1>2, <2>1 DEF Outside
<1>5. ASSUME NEW g \in Scans, GUIScan(g) PROVE Still'
  <2>1. /\ gpc' = [gpc EXCEPT ![g] = gpc'[g]]
        /\ GoesOn(g, gpc[g], gpc'[g])
    BY <1>5, ScanGoesOn
  <2>2. \A k \in Scans : k # g => gpc[k] \in Outside
    BY <2>1 DEF TypeOK
  <2>3. CASE gpc[g] \in Outside
    BY <1>2, <2>2, <2>3
  <2>4. CASE gpc[g] \notin Outside
    <3>1. Commit(g)
      BY <2>1, <2>4 DEF GoesOn, Outside
    <3>2. \A t \in Tests : ~Running(t)
      BY <3>1 DEF Commit, At, WaitsForAll
    <3> QED
      BY <3>1, <3>2 DEF Commit, Still, Running
  <2> QED
    BY <2>3, <2>4
<1> QED
  BY <1>3, <1>4, <1>5, ScanMoves

LEMMA TableKept ==
  ASSUME TypeOK, LastWorks, QuietOutside, InTable, [Next]_vars, ~met'
  PROVE  InTable'
<1> DEFINE Known(t) == \/ t \in h
                       \/ /\ t = nb_current_test + 1
                          /\ \E g \in Scans : gpc[g] \in {"store", "dead"}
<1> SUFFICES ASSUME NEW t \in Tests, Running(t)' PROVE Known(t)'
  BY DEF InTable
<1>1. ASSUME \A g \in Scans : ~Launch(g) PROVE Running(t) /\ Known(t)
  BY <1>1, FewerRun DEF InTable
<1>2. ASSUME NewSession \/ CloseStopped \/ CloseKillTests \/ CloseMain
      PROVE  UNCHANGED <<gpc, nb_current_test, h>>
  BY <1>2 DEF NewSession, CloseStopped, CloseKillTests, CloseMain, scanVars
<1>3. ASSUME NEW u \in Tests, Check(u) PROVE UNCHANGED <<gpc, nb_current_test, h>>
  BY <1>3 DEF Check, scanVars
<1>4. ASSUME NEW k \in Stops, ClickStop(k) \/ StopGUIScan(k)
      PROVE  UNCHANGED <<gpc, nb_current_test, h>>
  BY <1>4 DEF ClickStop, StopGUIScan, StopStep, scanVars
<1>5. CASE UNCHANGED <<gpc, nb_current_test, h>>
  <2>1. \A g \in Scans : ~Launch(g)
    BY <1>5 DEF Launch, At, TypeOK
  <2> QED
    BY <1>1, <1>5, <2>1
<1>6. CASE CloseKillScan
  <2>1. /\ UNCHANGED <<nb_current_test, h>>
        /\ \A g \in Scans : gpc'[g] = gpc[g] \/ gpc'[g] = "dead"
    BY <1>6 DEF CloseKillScan, TypeOK
  <2>2. \A g \in Scans : ~Launch(g)
    BY <2>1 DEF Launch, At, TypeOK
  <2> QED
    BY <1>1, <2>1, <2>2
<1>7. ASSUME NEW g \in Scans, ClickStart(g) PROVE Known(t)'
  <2>1. /\ UNCHANGED <<nb_current_test, h>>
        /\ gpc[g] = "none" /\ gpc' = [gpc EXCEPT ![g] = "init"]
    BY <1>7 DEF ClickStart
  <2>2. \A k \in Scans : ~Launch(k)
    BY <2>1 DEF Launch, At, TypeOK
  <2>3. Known(t)
    BY <1>1, <2>2
  <2> QED
    BY <2>1, <2>3 DEF TypeOK
<1>8. ASSUME NEW u \in Tests, StopTest(u) \/ ScanTest(u) PROVE Known(t)'
  <2>1. /\ UNCHANGED <<gpc, nb_current_test>>
        /\ h' = h \/ (h' = h \ {u} /\ ~Running(u)')
    BY <1>8 DEF StopTest, ScanTest, BeginTests, EnterDb, LeaveDb, EndTests, Finish,
                TestStep, Running, TypeOK
  <2>2. \A k \in Scans : ~Launch(k)
    BY <2>1 DEF Launch, At, TypeOK
  <2> QED
    BY <1>1, <2>1, <2>2
<1>9. ASSUME NEW g \in Scans, GUIScan(g) PROVE Known(t)'
  <2>1. /\ gpc' = [gpc EXCEPT ![g] = gpc'[g]]
        /\ GoesOn(g, gpc[g], gpc'[g])
    BY <1>9, ScanGoesOn
  <2>2. AtWork(g) /\ gpc[g] # "dead"
    BY <1>9, ScanMoves2
  <2>3. \A k \in Scans : gpc[k] \in {"store", "dead"} => k = g
    BY <2>2, OnlyOne DEF AtWork
  <2>4. CASE Reset(g)
    <3>1. \A k \in Scans : gpc[k] \in Outside
      <4>1. gpc[g] = "init"
        BY <2>4 DEF Reset, At
      <4> QED
        BY <4>1, <2>2, OnlyOne DEF AtWork, Outside
    <3>2. Still /\ tpc' = tpc
      BY <3>1, <2>4 DEF QuietOutside, Reset
    <3> QED
      BY <3>2 DEF Still, Running
  <2>5. CASE Launch(g)
    <3>1. /\ UNCHANGED <<nb_current_test, h>>
          /\ gpc[g] = "launch" /\ gpc'[g] = "store"
          /\ tpc' = [tpc EXCEPT ![nb_current_test + 1] = "begin"]
      BY <2>5 DEF Launch, At, TypeOK
    <3>2. CASE t = nb_current_test + 1
      BY <3>1, <3>2
    <3>3. CASE t # nb_current_test + 1
      <4>1. Running(t)
        BY <3>1, <3>3 DEF TypeOK, Running
      <4> QED
        BY <4>1, <3>1, <2>3 DEF InTable
    <3> QED
      BY <3>2, <3>3
  <2>6. CASE ~Reset(g) /\ ~Launch(g)
    <3>1. \A k \in Scans : ~Launch(k)
      <4> SUFFICES ASSUME NEW k \in Scans, k # g, Launch(k) PROVE FALSE
        BY <2>6
      <4>1. AtWork(k)
        BY DEF Launch, At, AtWork
      <4> QED
        BY <4>1, <2>2, OnlyOne
    <3>2. Known(t)
      BY <1>1, <3>1
    <3>3. CASE Skip(g)
      <4>1. gpc[g] = "launch" /\ h' = h
        BY <3>3 DEF Skip, At
      <4> QED
        BY <4>1, <3>2, <2>3
    <3>4. CASE Store(g)
      <4>1. h' = h \union {nb_current_test + 1}
        BY <3>4 DEF Store
      <4> QED
        BY <4>1, <3>2
    <3>5. CASE ~Skip(g) /\ ~Store(g)
      <4>1. UNCHANGED <<nb_current_test, h>> /\ gpc[g] \notin {"store", "dead"}
        BY <2>1, <2>6, <3>5 DEF GoesOn, Begin, Launched, Wait, Waited, Commit,
                                ClearStart, ClearStop, EndDialog
      <4> QED
        BY <4>1, <3>2, <2>3
    <3> QED
      BY <3>3, <3>4, <3>5
  <2> QED
    BY <2>4, <2>5, <2>6
<1>10. CASE UNCHANGED vars
  BY <1>5, <1>10 DEF vars, scanVars
<1> QED
  BY <1>2, <1>3, <1>4, <1>5, <1>6, <1>7, <1>8, <1>9, <1>10 DEF Next, Windows, Over

(* Only GUIScan moves the loop variables.                                  *)
LEMMA LoopMoves ==
  [Next]_vars => \/ UNCHANGED <<nb_current_test, gj>>
                 \/ \E g \in Scans : GUIScan(g)
<1> SUFFICES ASSUME [Next]_vars, \A g \in Scans : ~GUIScan(g)
             PROVE  UNCHANGED <<nb_current_test, gj>>
  OBVIOUS
<1> USE DEF scanVars
<1>1. ASSUME NewSession \/ CloseStopped \/ CloseKillTests \/ CloseKillScan \/ CloseMain
      PROVE  UNCHANGED <<nb_current_test, gj>>
  BY <1>1 DEF NewSession, CloseStopped, CloseKillTests, CloseKillScan, CloseMain
<1>2. ASSUME NEW t \in Tests, Check(t) \/ StopTest(t) \/ ScanTest(t)
      PROVE  UNCHANGED <<nb_current_test, gj>>
  BY <1>2 DEF Check, StopTest, ScanTest, BeginTests, EnterDb, LeaveDb, EndTests,
              Finish, TestStep
<1>3. ASSUME NEW k \in Stops, ClickStop(k) \/ StopGUIScan(k)
      PROVE  UNCHANGED <<nb_current_test, gj>>
  BY <1>3 DEF ClickStop, StopGUIScan, StopStep
<1>4. ASSUME NEW g \in Scans, ClickStart(g) PROVE UNCHANGED <<nb_current_test, gj>>
  BY <1>4 DEF ClickStart
<1>5. ASSUME UNCHANGED vars PROVE UNCHANGED <<nb_current_test, gj>>
  BY <1>5 DEF vars
<1> QED
  BY <1>1, <1>2, <1>3, <1>4, <1>5 DEF Next, Windows, Over

LEMMA WaitsKept ==
  ASSUME TypeOK, LastWorks, InTable, WaitsForAll, [Next]_vars, ~met'
  PROVE  WaitsForAll'
<1> SUFFICES ASSUME NEW g \in Scans, gpc'[g] \in {"wait", "commit"}
             PROVE  /\ nb_current_test' = NbTests
                    /\ gpc'[g] = "wait" =>
                         \A t \in Tests : t <= gj'[g] => ~Running(t)'
                    /\ gpc'[g] = "commit" => \A t \in Tests : ~Running(t)'
  BY DEF WaitsForAll
<1>1. gpc[g] \in {"wait", "commit"} \/ Launched(g)
  <2>1. CASE gpc' = gpc \/ CloseKillScan \/ \E k \in Scans : ClickStart(k)
    BY <2>1 DEF CloseKillScan, ClickStart, TypeOK
  <2>2. ASSUME NEW k \in Scans, GUIScan(k)
        PROVE  gpc[g] \in {"wait", "commit"} \/ Launched(g)
    BY <2>2, ScanGoesOn DEF GoesOn, TypeOK
  <2> QED
    BY <2>1, <2>2, ScanMoves
<1>2. AtWork(g)
  BY <1>1 DEF AtWork, Launched, At
<1>3. ASSUME NEW k \in Scans, GUIScan(k) PROVE k = g
  BY <1>2, <1>3, ScanMoves2, OnlyOne
<1>4. \A k \in Scans : ~Launch(k)
  <2> SUFFICES ASSUME NEW k \in Scans, Launch(k) PROVE FALSE
    OBVIOUS
  <2>1. k = g
    BY <1>3 DEF GUIScan
  <2> QED
    BY <1>1, <2>1 DEF Launch, Launched, At
<1>5. \A t \in Tests : Running(t)' => Running(t)
  BY <1>4, FewerRun
<1>6. CASE Launched(g)
  <2>1. nb_current_test' = NbTests
    BY <1>6 DEF Launched, TypeOK
  <2>2. gpc'[g] = "wait" /\ gj'[g] = 0
    BY <1>6 DEF Launched, At, TypeOK
  <2> QED
    BY <2>1, <2>2
<1>7. CASE ~GUIScan(g)
  <2>1. UNCHANGED <<nb_current_test, gj>>
    BY <1>3, <1>7, LoopMoves
  <2>2. gpc'[g] = gpc[g]
    BY <1>3, <1>7, ScanMoves, <1>2 DEF CloseKillScan, ClickStart, AtWork, TypeOK
  <2>3. gpc[g] \in {"wait", "commit"}
    BY <2>2
  <2> QED
    BY <1>5, <2>1, <2>2, <2>3 DEF WaitsForAll
<1>8. CASE GUIScan(g) /\ ~Launched(g)
  <2>1. GoesOn(g, gpc[g], gpc'[g])
    BY <1>8, ScanGoesOn
  <2>2. Wait(g) \/ Waited(g)
    BY <1>1, <1>8, <2>1 DEF GoesOn
  <2>3. gpc[g] = "wait" /\ nb_current_test' = nb_current_test
    BY <2>2 DEF Wait, Waited, At
  <2>4. nb_current_test' = NbTests /\ \A t \in Tests : t <= gj[g] => ~Running(t)
    BY <2>3 DEF WaitsForAll
  <2>5. CASE Wait(g)
    <3>1. gj'[g] = gj[g] + 1 /\ gpc'[g] = "wait"
      BY <2>5 DEF Wait, At, TypeOK
    <3>2. gj[g] \in Nat /\ gj[g] < NbTests
      BY <2>3, <2>4, <2>5 DEF Wait, TypeOK
    <3>3. ~Running(gj[g] + 1)
      <4>1. gj[g] + 1 \in Tests /\ gj[g] + 1 # nb_current_test + 1
        BY <2>3, <2>4, <3>2
      <4> QED
        BY <2>5, <4>1 DEF Wait, InTable
    <3>4. ASSUME NEW t \in Tests, t <= gj[g] + 1 PROVE ~Running(t)
      BY <2>4, <3>2, <3>3, <3>4
    <3> QED
      BY <1>5, <2>4, <3>1, <3>4
  <2>6. CASE Waited(g)
    <3>1. gj[g] >= NbTests /\ gpc'[g] = "commit"
      BY <2>3, <2>4, <2>6 DEF Waited, At, TypeOK
    <3>2. \A t \in Tests : t <= gj[g]
      BY <3>1 DEF TypeOK
    <3> QED
      BY <1>5, <2>4, <3>1, <3>2
  <2> QED
    BY <2>2, <2>5, <2>6
<1> QED
  BY <1>6, <1>7, <1>8 DEF GUIScan

LEMMA KilledKept ==
  ASSUME TypeOK, LastWorks, InTable, KilledPassed, [Next]_vars, ~met'
  PROVE  KilledPassed'
<1>1. CASE CloseKillTests
  <2>1. /\ conf' = "kill" /\ UNCHANGED <<gpc, nb_current_test, h>>
        /\ reached' = IF \E g \in Scans : gpc[g] = "init" THEN 0
                                                          ELSE nb_current_test
    BY <1>1 DEF CloseKillTests, scanVars
  <2>2. ASSUME NEW t \in 1 .. reached' PROVE ~Running(t)'
    <3>1. t \in Tests /\ t # nb_current_test + 1
      BY <2>1, <2>2 DEF TypeOK
    <3>2. Running(t) => t \in h
      BY <3>1 DEF InTable
    <3> QED
      BY <1>1, <3>1, <3>2 DEF CloseKillTests, Running, TypeOK
  <2>3. ASSUME NEW g \in Scans, gpc[g] \in {"begin", "launch", "store"}
        PROVE  reached' <= nb_current_test
    <3>1. ~\E k \in Scans : gpc[k] = "init"
      BY <2>3, OnlyOne DEF AtWork
    <3> QED
      BY <2>1, <3>1 DEF TypeOK
  <2> QED
    BY <2>1, <2>2, <2>3 DEF KilledPassed
<1>2. ASSUME ~CloseKillTests
      PROVE  /\ reached' = reached
             /\ conf' = "kill" => conf = "kill"
  <2>1. ASSUME NewSession \/ CloseStopped \/ CloseKillScan \/ CloseMain
        PROVE  reached' = reached /\ (conf' = "kill" => conf = "kill")
    BY <2>1 DEF NewSession, CloseStopped, CloseKillScan, CloseMain, fixedVars
  <2>2. ASSUME NEW t \in Tests, Check(t) \/ StopTest(t) \/ ScanTest(t)
        PROVE  reached' = reached /\ (conf' = "kill" => conf = "kill")
    BY <2>2 DEF Check, StopTest, ScanTest, BeginTests, EnterDb, LeaveDb, EndTests,
                Finish, TestStep, fixedVars
  <2>3. ASSUME NEW k \in Stops, ClickStop(k) \/ StopGUIScan(k)
        PROVE  reached' = reached /\ (conf' = "kill" => conf = "kill")
    BY <2>3 DEF ClickStop, StopGUIScan, StopStep, fixedVars, confVars
  <2>4. ASSUME NEW g \in Scans, ClickStart(g)
        PROVE  reached' = reached /\ (conf' = "kill" => conf = "kill")
    BY <2>4 DEF ClickStart, fixedVars, confVars
  <2>5. ASSUME NEW g \in Scans, GUIScan(g)
        PROVE  reached' = reached /\ (conf' = "kill" => conf = "kill")
    BY <2>5 DEF GUIScan, Reset, Begin, Skip, Launch, Store, Launched, Wait, Waited,
                Commit, ClearStart, ClearStop, EndDialog, At, fixedVars, confVars
  <2>6. ASSUME UNCHANGED vars
        PROVE  reached' = reached /\ (conf' = "kill" => conf = "kill")
    BY <2>6 DEF vars, fixedVars, confVars
  <2> QED
    BY <1>2, <2>1, <2>2, <2>3, <2>4, <2>5, <2>6 DEF Next, Windows, Over
<1>3. ASSUME ~CloseKillTests, NEW g \in Scans, GUIScan(g) PROVE KilledPassed'
  <2>1. /\ reached' = reached /\ (conf' = "kill" => conf = "kill")
        /\ reached \in 0 .. NbTests /\ nb_current_test \in 0 .. NbTests
    BY <1>2, <1>3 DEF TypeOK
  <2>2. /\ gpc' = [gpc EXCEPT ![g] = gpc'[g]]
        /\ GoesOn(g, gpc[g], gpc'[g])
    BY <1>3, ScanGoesOn
  <2>3. AtWork(g) /\ gpc[g] # "dead" /\ gpc'[g] \notin {"none", "init", "dead"}
    BY <1>3, ScanMoves2
  <2>4. ASSUME NEW k \in Scans, gpc'[k] \notin {"none", "done"} PROVE k = g
    BY <2>2, <2>3, <2>4, OnlyOne DEF AtWork, TypeOK
  <2>5. ASSUME conf' = "kill", gpc'[g] \in {"begin", "launch", "store"}
        PROVE  reached <= nb_current_test'
    <3>1. CASE Reset(g)
      BY <2>1, <2>5, <3>1 DEF Reset, At, KilledPassed
    <3>2. CASE ~Reset(g)
      <4>1. gpc[g] \in {"begin", "launch", "store"}
        BY <2>2, <2>5, <3>2 DEF GoesOn
      <4>2. reached <= nb_current_test
        BY <2>1, <2>5, <4>1 DEF KilledPassed
      <4>3. nb_current_test' \in {nb_current_test, nb_current_test + 1}
        BY <2>2, <2>5, <3>2 DEF GoesOn, Begin, Skip, Launch, Store
      <4> QED
        BY <2>1, <4>2, <4>3
    <3> QED
      BY <3>1, <3>2
  <2>6. ASSUME conf' = "kill" \/ (\E k \in Scans : gpc'[k] = "dead"),
               NEW t \in 1 .. reached
        PROVE  ~Running(t)'
    <3>1. conf = "kill"
      BY <2>1, <2>3, <2>4, <2>6
    <3>2. t \in Tests /\ ~Running(t)
      BY <2>1, <2>6, <3>1 DEF KilledPassed
    <3>3. CASE Launch(g)
      <4>1. t # nb_current_test + 1
        BY <2>1, <3>1, <3>3 DEF Launch, At, KilledPassed
      <4> QED
        BY <3>2, <3>3, <4>1 DEF Launch, Running, TypeOK
    <3>4. CASE ~Launch(g)
      <4>1. \A k \in Scans : ~Launch(k)
        <5> SUFFICES ASSUME NEW k \in Scans, Launch(k) PROVE k = g
          BY <3>4
        <5> QED
          BY <2>3, OnlyOne DEF Launch, At, AtWork
      <4> QED
        BY <3>2, <4>1, FewerRun
    <3> QED
      BY <3>3, <3>4
  <2> QED
    BY <2>1, <2>3, <2>4, <2>5, <2>6 DEF KilledPassed
<1>4. ASSUME ~CloseKillTests, \A g \in Scans : ~GUIScan(g) PROVE KilledPassed'
  <2>1. reached' = reached /\ (conf' = "kill" => conf = "kill")
    BY <1>2, <1>4
  <2>2. nb_current_test' = nb_current_test
    BY <1>4, LoopMoves
  <2>3. \A t \in Tests : Running(t)' => Running(t)
    BY <1>4, FewerRun DEF GUIScan
  <2>4. 1 .. reached \subseteq Tests
    BY DEF TypeOK
  <2>5. CASE gpc' = gpc
    BY <2>1, <2>2, <2>3, <2>4, <2>5 DEF KilledPassed
  <2>6. CASE CloseKillScan
    <3>1. /\ conf = "kill" /\ conf' = "closed"
      BY <2>6 DEF CloseKillScan
    <3> QED
      BY <2>1, <2>3, <2>4, <3>1 DEF KilledPassed
  <2>7. ASSUME NEW g \in Scans, ClickStart(g) PROVE KilledPassed'
    <3>1. conf' = "open" /\ \A k \in Scans : gpc'[k] # "dead"
      BY <2>7 DEF ClickStart, confVars, TypeOK
    <3> QED
      BY <3>1 DEF KilledPassed
  <2> QED
    BY <1>4, <2>5, <2>6, <2>7, ScanMoves
<1> QED
  BY <1>1, <1>3, <1>4

LEMMA DialogKept ==
  ASSUME TypeOK, LastWorks, DialogThere, ClosedInv, [Next]_vars, ~met'
  PROVE  DialogThere'
<1> SUFFICES ASSUME app' = "running", NEW g \in Scans, Alive(g)'
             PROVE  conf' # "closed"
  BY DEF DialogThere
<1>1. app = "running"
  <2>1. CASE NewSession \/ CloseStopped \/ CloseKillTests \/ CloseKillScan \/ CloseMain
    BY <2>1 DEF NewSession, CloseStopped, CloseKillTests, CloseKillScan, CloseMain
  <2>2. ASSUME NEW t \in Tests, Check(t) \/ StopTest(t) \/ ScanTest(t)
        PROVE  app = "running"
    BY <2>2 DEF Check, StopTest, ScanTest, BeginTests, EnterDb, LeaveDb, EndTests,
                Finish, TestStep
  <2>3. ASSUME NEW k \in Stops, ClickStop(k) \/ StopGUIScan(k) PROVE app = "running"
    BY <2>3 DEF ClickStop, StopGUIScan, StopStep, confVars
  <2>4. ASSUME NEW k \in Scans, ClickStart(k) PROVE app = "running"
    BY <2>4 DEF ClickStart, confVars
  <2>5. ASSUME NEW k \in Scans, GUIScan(k) PROVE app = "running"
    BY <2>5, ScanGoesOn
  <2>6. CASE UNCHANGED vars
    BY <2>6 DEF vars, confVars
  <2> QED
    BY <2>1, <2>2, <2>3, <2>4, <2>5, <2>6 DEF Next, Windows, Over
<1>2. ASSUME NewSession \/ CloseKillTests PROVE conf' # "closed"
  BY <1>2 DEF NewSession, CloseKillTests
<1>3. ASSUME CloseStopped \/ CloseMain PROVE conf' # "closed"
  BY <1>3 DEF CloseStopped, CloseMain
<1>4. ASSUME CloseKillScan PROVE conf' # "closed"
  BY <1>4 DEF CloseKillScan, LastWorks, AtWork, Alive, TypeOK
<1>5. ASSUME NEW k \in Scans, ClickStart(k) PROVE conf' # "closed"
  BY <1>5 DEF ClickStart, confVars
<1>6. ASSUME NEW k \in Scans, GUIScan(k) PROVE conf' # "closed"
  <2>1. AtWork(k) /\ gpc[k] # "dead" /\ gpc' = [gpc EXCEPT ![k] = gpc'[k]]
    BY <1>6, ScanMoves2, ScanGoesOn
  <2>2. k = g
    <3> SUFFICES ASSUME k # g PROVE FALSE
      OBVIOUS
    <3>1. AtWork(g)
      BY <2>1 DEF Alive, AtWork, TypeOK
    <3> QED
      BY <2>1, <3>1, OnlyOne
  <2>3. ~EndDialog(k)
    BY <2>2 DEF EndDialog, At, Alive, TypeOK
  <2>4. conf' = conf
    BY <1>6, <2>3 DEF GUIScan, Reset, Begin, Skip, Launch, Store, Launched, Wait,
                      Waited, Commit, ClearStart, ClearStop, confVars
  <2> QED
    BY <1>1, <2>1, <2>4 DEF DialogThere, Alive, AtWork
<1>7. ASSUME conf' = conf, gpc' = gpc PROVE conf' # "closed"
  BY <1>1, <1>7 DEF DialogThere, Alive
<1>8. ASSUME NEW t \in Tests, Check(t) \/ StopTest(t) \/ ScanTest(t)
      PROVE  conf' = conf /\ gpc' = gpc
  BY <1>8 DEF Check, StopTest, ScanTest, BeginTests, EnterDb, LeaveDb, EndTests,
              Finish, TestStep, scanVars
<1>9. ASSUME NEW k \in Stops, ClickStop(k) \/ StopGUIScan(k)
      PROVE  conf' = conf /\ gpc' = gpc
  BY <1>9 DEF ClickStop, StopGUIScan, StopStep, confVars, scanVars
<1>10. CASE UNCHANGED vars
  BY <1>7, <1>10 DEF vars, confVars, scanVars
<1> QED
  BY <1>2, <1>3, <1>4, <1>5, <1>6, <1>7, <1>8, <1>9, <1>10 DEF Next, Windows, Over

LEMMA ButtonKept ==
  ASSUME TypeOK, LastWorks, DialogThere, ButtonTaken, [Next]_vars, ~met'
  PROVE  ButtonTaken'
<1> DEFINE Busy(g) == Alive(g) /\ gpc[g] \notin {"note", "dialog"}
           Taken == start_scan \/ ~btOn
                      \/ \E s \in Stops : spc[s] \in {"note", "disable"}
<1> SUFFICES ASSUME NEW g \in Scans, Busy(g)' PROVE Taken'
  BY DEF ButtonTaken
<1>1. ASSUME ~ClickStart(g) PROVE Busy(g)
  <2>1. CASE gpc' = gpc \/ CloseKillScan \/ \E k \in Scans : ClickStart(k)
    BY <1>1, <2>1 DEF CloseKillScan, ClickStart, Alive, TypeOK
  <2>2. ASSUME NEW k \in Scans, GUIScan(k) PROVE Busy(g)
    BY <2>2, ScanGoesOn DEF GoesOn, Alive, TypeOK
  <2> QED
    BY <2>1, <2>2, ScanMoves
<1>2. CASE ClickStart(g)
  BY <1>2 DEF ClickStart
<1>3. CASE ~ClickStart(g)
  <2>1. Busy(g) /\ Taken
    BY <1>1, <1>3 DEF ButtonTaken
  <2>2. CASE NewSession
    BY <2>1, <2>2 DEF NewSession, DialogThere
  <2>3. ASSUME UNCHANGED <<start_scan, btOn, spc>> PROVE Taken'
    BY <2>1, <2>3
  <2>4. CASE CloseStopped \/ CloseKillTests \/ CloseKillScan \/ CloseMain
    BY <2>3, <2>4 DEF CloseStopped, CloseKillTests, CloseKillScan, CloseMain, flagVars
  <2>5. ASSUME NEW t \in Tests, Check(t) \/ StopTest(t) \/ ScanTest(t) PROVE Taken'
    BY <2>3, <2>5 DEF Check, StopTest, ScanTest, BeginTests, EnterDb, LeaveDb,
                      EndTests, Finish, TestStep, flagVars
  <2>6. ASSUME NEW k \in Stops, ClickStop(k) PROVE Taken'
    BY <2>6 DEF ClickStop, flagVars
  <2>7. ASSUME NEW k \in Stops, StopGUIScan(k) PROVE Taken'
    <3>1. CASE StopStep(k, "clear", "note")
      BY <3>1 DEF StopStep, TypeOK
    <3>2. CASE StopStep(k, "note", "disable")
      BY <3>2 DEF StopStep, TypeOK
    <3>3. CASE StopStep(k, "disable", "done") /\ btOn' = FALSE
      BY <3>3
    <3> QED
      BY <2>7, <3>1, <3>2, <3>3 DEF StopGUIScan
  <2>8. ASSUME NEW k \in Scans, ClickStart(k) PROVE Taken'
    BY <2>8 DEF ClickStart
  <2>9. ASSUME NEW k \in Scans, GUIScan(k) PROVE Taken'
    <3>1. k = g
      BY <2>1, <2>9, ScanMoves2, OnlyOne DEF Alive, AtWork
    <3>2. ~ClearStart(g)
      BY DEF ClearStart, At, TypeOK
    <3>3. UNCHANGED <<start_scan, btOn, spc>>
      BY <2>9, <3>1, <3>2 DEF GUIScan, Reset, Begin, Skip, Launch, Store, Launched,
                Wait, Waited, Commit, ClearStop, EndDialog, At, flagVars, confVars
    <3> QED
      BY <2>3, <3>3
  <2>10. CASE UNCHANGED vars
    BY <2>3, <2>10 DEF vars, confVars, flagVars
  <2> QED
    BY <2>2, <2>4, <2>5, <2>6, <2>7, <2>8, <2>9, <2>10 DEF Next, Windows, Over
<1> QED
  BY <1>2, <1>3

LEMMA MetStays == TypeOK /\ [Next]_vars /\ ~met' => ~met
<1> SUFFICES ASSUME TypeOK, [Next]_vars, ~met' PROVE ~met
  OBVIOUS
<1>1. CASE NewSession \/ CloseStopped \/ CloseKillTests \/ CloseKillScan \/ CloseMain
  BY <1>1 DEF NewSession, CloseStopped, CloseKillTests, CloseKillScan, CloseMain
<1>2. ASSUME NEW t \in Tests, Check(t) \/ StopTest(t) \/ ScanTest(t) PROVE ~met
  BY <1>2 DEF Check, StopTest, ScanTest, BeginTests, EnterDb, LeaveDb, EndTests,
              Finish, TestStep
<1>3. ASSUME NEW k \in Stops, ClickStop(k) \/ StopGUIScan(k) PROVE ~met
  BY <1>3 DEF ClickStop, StopGUIScan, StopStep
<1>4. ASSUME NEW k \in Scans, ClickStart(k) \/ GUIScan(k) PROVE ~met
  BY <1>4 DEF ClickStart, GUIScan, Reset, Begin, Skip, Launch, Store, Launched,
              Wait, Waited, Commit, ClearStart, ClearStop, EndDialog, At
<1>5. CASE UNCHANGED vars
  BY <1>5 DEF vars
<1> QED
  BY <1>1, <1>2, <1>3, <1>4, <1>5 DEF Next, Windows, Over

(* The end of the application, and what is rolled back there.              *)
LEMMA EndOfApp ==
  ASSUME TypeOK, ClosedInv, [Next]_vars
  PROVE  /\ ClosedInv'
         /\ \/ lost' = lost
            \/ gpc' = gpc /\ lost' = (lost \/ pending)
         /\ app = "closed" => gpc' = gpc
<1> DEFINE Goal == /\ ClosedInv'
                   /\ \/ lost' = lost
                      \/ gpc' = gpc /\ lost' = (lost \/ pending)
                   /\ app = "closed" => gpc' = gpc
<1> USE DEF ClosedInv
<1>1. CASE NewSession \/ CloseKillTests \/ CloseKillScan
  BY <1>1 DEF NewSession, CloseKillTests, CloseKillScan, dbVars, scanVars
<1>2. CASE CloseStopped \/ CloseMain
  BY <1>2 DEF CloseStopped, CloseMain, scanVars
<1>3. ASSUME NEW t \in Tests, Check(t) \/ StopTest(t) PROVE Goal
  BY <1>3 DEF Check, StopTest, dbVars, scanVars
<1>4. ASSUME NEW t \in Tests, ScanTest(t) PROVE Goal
  BY <1>4 DEF ScanTest, BeginTests, EnterDb, LeaveDb, EndTests, Finish, TestStep
<1>5. ASSUME NEW k \in Stops, ClickStop(k) \/ StopGUIScan(k) PROVE Goal
  BY <1>5 DEF ClickStop, StopGUIScan, StopStep, confVars, dbVars, scanVars
<1>6. ASSUME NEW k \in Scans, ClickStart(k) PROVE Goal
  BY <1>6 DEF ClickStart, confVars
<1>7. ASSUME NEW k \in Scans, GUIScan(k) PROVE Goal
  <2>1. app = "running" /\ lost' = lost
    BY <1>7, ScanGoesOn DEF GoesOn, Reset, Begin, Skip, Launch, Store, Launched,
       Wait, Waited, Commit, ClearStart, ClearStop, EndDialog, At
  <2>2. app' = app
    BY <1>7 DEF GUIScan, Reset, Begin, Skip, Launch, Store, Launched, Wait, Waited,
                Commit, ClearStart, ClearStop, EndDialog, confVars
  <2> QED
    BY <2>1, <2>2
<1>8. CASE UNCHANGED vars
  BY <1>8 DEF vars, confVars, dbVars, scanVars
<1> QED
  BY <1>1, <1>2, <1>3, <1>4, <1>5, <1>6, <1>7, <1>8 DEF Next, Windows, Over

LEMMA SavedKept ==
  ASSUME TypeOK, ClosedInv, ResultsSaved, ~met => QuietOutside, [Next]_vars
  PROVE  ResultsSaved'
<1> SUFFICES ASSUME lost', ~met'
             PROVE  \E g \in Scans : gpc'[g] \notin {"none", "done"}
  BY DEF ResultsSaved
<1>1. ~met
  BY MetStays
<1>2. CASE lost
  <2>1. gpc' = gpc
    BY <1>2, EndOfApp DEF ClosedInv
  <2> QED
    BY <1>1, <1>2, <2>1 DEF ResultsSaved
<1>3. CASE ~lost
  <2>1. gpc' = gpc /\ pending
    BY <1>3, EndOfApp
  <2>2. PICK g \in Scans : gpc[g] \notin Outside
    BY <1>1, <2>1 DEF QuietOutside, Still
  <2> QED
    BY <2>1, <2>2 DEF Outside
<1> QED
  BY <1>2, <1>3

LEMMA ScanInvKept == ScanInv /\ [Next]_vars => ScanInv'
<1> SUFFICES ASSUME ScanInv, [Next]_vars PROVE ScanInv'
  OBVIOUS
<1>1. TypeOK /\ InOrder /\ ClosedInv /\ ResultsSaved
  BY DEF ScanInv
<1>2. TypeOK' /\ InOrder' /\ ClosedInv'
  BY <1>1, TypeKept, OrderKept, EndOfApp
<1>3. ResultsSaved'
  BY <1>1, SavedKept DEF ScanInv, ApartInv
<1>4. ASSUME ~met' PROVE ApartInv'
  <2>1. ApartInv
    BY <1>1, <1>4, MetStays DEF ScanInv
  <2> QED
    BY <1>1, <1>4, <2>1, LastKept, QuietKept, TableKept, WaitsKept, KilledKept,
       DialogKept, ButtonKept DEF ApartInv
<1> QED
  BY <1>2, <1>3, <1>4 DEF ScanInv

THEOREM ScanInvHolds == Spec => []ScanInv
BY InitIsScanInv, ScanInvKept, PTL DEF Spec

(* When a scan ends by itself (scan.c:66-80), every test's thread is over  *)
(* and every row committed, for scans one after the other.                 *)
THEOREM EndsCommitted == Spec => []EndCommits
<1>1. ScanInv => EndCommits
  <2> SUFFICES ASSUME TypeOK, ApartInv, NEW g \in Scans, Latest(g),
                      gpc[g] \in {"clear", "note", "dialog", "done"}
               PROVE  Still
    BY DEF ScanInv, EndCommits, Still
  <2>1. \A k \in Scans : k # g => gpc[k] \in {"none", "done"}
    BY DEF ApartInv, LastWorks, AtWork, Latest
  <2>2. \A k \in Scans : gpc[k] \in Outside
    BY <2>1 DEF Outside
  <2> QED
    BY <2>2 DEF ApartInv, QuietOutside
<1> QED
  BY <1>1, ScanInvHolds, PTL

(* Closing the dialog (gui_conf.c:661-676) leaves no test running that the *)
(* scan had come past.                                                     *)
THEOREM KillsAllPassed == Spec => []KillsAll
<1>1. ScanInv => KillsAll
  BY DEF ScanInv, ApartInv, KilledPassed, KillsAll
<1> QED
  BY <1>1, ScanInvHolds, PTL

(* Rows are rolled back at the end of the application (init.c:571-584) only*)
(* if a scan was terminated, left in the middle or met another.            *)
THEOREM ResultsAreSaved == Spec => []ResultsSaved
<1>1. ScanInv => ResultsSaved
  BY DEF ScanInv
<1> QED
  BY <1>1, ScanInvHolds, PTL

(* BT_START (gui_conf.c:81-126) starts no scan beside another but in the   *)
(* two windows of a few instructions.                                      *)
THEOREM ScansStayApart == Spec => ScansApart
<1>1. ScanInv /\ [Next]_vars =>
        [\A g, k \in Scans :
           /\ gpc[g] = "none" /\ gpc'[g] = "init"
           /\ Alive(k) /\ ~met
           => \/ gpc[k] \in {"note", "dialog"}
              \/ \E s \in Stops : spc[s] \in {"note", "disable"}]_vars
  <2> SUFFICES ASSUME TypeOK, ApartInv, [Next]_vars, NEW g \in Scans, NEW k \in Scans,
                      gpc[g] = "none", gpc'[g] = "init", Alive(k), ~met,
                      gpc[k] \notin {"note", "dialog"}
               PROVE  \E s \in Stops : spc[s] \in {"note", "disable"}
    BY DEF ScanInv
  <2>1. PICK j \in Scans : ClickStart(j)
    <3>1. gpc' # gpc
      OBVIOUS
    <3>2. ~CloseKillScan
      BY DEF CloseKillScan, TypeOK
    <3>3. ASSUME NEW j \in Scans, GUIScan(j) PROVE FALSE
      BY <3>3, ScanMoves2, ScanGoesOn DEF TypeOK
    <3> QED
      BY <3>1, <3>2, <3>3, ScanMoves
  <2>2. ~start_scan /\ btOn
    BY <2>1 DEF ClickStart
  <2> QED
    BY <2>2 DEF ApartInv, ButtonTaken
<1> QED
  BY <1>1, ScanInvHolds, PTL DEF Spec, ScansApart
-----------------------------------------------------------------------------
(* The sessions that scans and imports write into: RtCASession, which has  *)
(* no variable in common with RtCAScan.                                    *)
(*                                                                         *)
(* The list is in order (SortedIs), so a number greater than all others    *)
(* comes last, where GUIScan looks for its session; while a scan works, its*)
(* dialog hides the window, and nobody else touches the sessions but an    *)
(* import.                                                                 *)
-----------------------------------------------------------------------------
(* The array and the combo box while sessions are read into them.          *)
ListInv ==
  /\ now \in 0 .. MaxDate
  /\ db \subseteq Int /\ IsFiniteSet(db)
  /\ session \in [1 .. Cap -> Int] /\ nb_session \in 0 .. Cap
  /\ combo \in Seq(Int) /\ cursel \in 0 .. Len(combo)
  /\ Len(combo) <= nb_session
  /\ Len(combo) = nb_session => \A i \in 1 .. nb_session : combo[i] = session[i]

WriterRecords ==
  [kind : {"scan", "import"},
   pc : {"none", "begin", "load", "ask", "write", "escaped", "done"},
   id : Int, at : SUBSET Int, fresh : BOOLEAN, alone : BOOLEAN]

Wrote == {"write", "escaped", "done"}

WritersInv ==
  /\ current_session_id \in Int
  /\ writer \in [1 .. MaxWriters -> WriterRecords]
  /\ \A w \in 1 .. MaxWriters :
       /\ writer[w].pc \in {"begin", "escaped"} => writer[w].kind = "scan"
       /\ writer[w].pc \in {"load", "ask"} => writer[w].kind = "import"
       /\ writer[w].fresh => writer[w].kind = "scan"
  /\ \A r \in rows :
       r.by \in 0 .. MaxWriters /\ (r.by # 0 => writer[r.by].pc \in Wrote)

(* What the tests of scan w may write under: a session of the table, or    *)
(* none if there is an import.                                             *)
Listed(w, n) == n \in db \/ (n = 0 /\ ~writer[w].alone)

(* The dialog is open while a scan works, and keeps the window from the    *)
(* sessions; a number that was the greatest when it was made is the last   *)
(* one in the array.                                                       *)
OneScanInv == \A w \in 1 .. MaxWriters : ScanAt(w) =>
  /\ h_conf /\ \A v \in (1 .. MaxWriters) \ {w} : ~ScanAt(v)
  /\ writer[w].alone => \A v \in 1 .. MaxWriters : ~ImportAt(v)
  /\ nb_session >= 1 /\ \A i \in 1 .. nb_session : session[i] \in db
  /\ \A n \in writer[w].at \union {current_session_id} : Listed(w, n)
  /\ writer[w].fresh /\ writer[w].alone =>
       /\ \A n \in writer[w].at \union {current_session_id} : n = writer[w].id
       /\ writer[w].pc = "begin" => session[nb_session] = writer[w].id

ByOwner(r) == r.by # 0 /\ Own(r.by)

(* Rows of scans that own their session.                                   *)
OwnInv ==
  /\ \A r \in rows : ByOwner(r) => r.session = writer[r.by].id
  /\ \A r, s \in rows :
       ByOwner(r) /\ ByOwner(s) /\ r.session = s.session => r.by = s.by
  /\ \A w \in 1 .. MaxWriters : ScanAt(w) /\ Own(w) =>
       \A r \in rows : ByOwner(r) /\ r.by # w => r.session # writer[w].id

SessionInv ==
  ListInv /\ WritersInv /\ OneScanInv /\ OwnInv /\ ScanRowsListed
-----------------------------------------------------------------------------
LEMMA NumberType ==
  ASSUME NEW d \in Nat
  PROVE  Number(d) \in Int
<1> DEFINE month == MonthDays * DayParts
           counted == CountedDays * DayParts
<1>1. month \in Nat \ {0} /\ counted \in Nat
  BY SessionsBounds
<1> HIDE DEF month, counted
<1>2. d \div month \in Int /\ d % month \in Int
  BY <1>1
<1>3. (d \div month) * counted \in Int
  BY <1>1, <1>2
<1>4. Number(d) = 1 + (d \div month) * counted + (d % month)
  <2>1. (d \div month) * CountedDays * DayParts = (d \div month) * counted
    BY <1>2, SessionsBounds DEF counted
  <2> QED
    BY <2>1 DEF Number, month
<1> QED
  BY <1>2, <1>3, <1>4

(* How many numbers of a set are smaller: each of 0, 1, ... once.          *)
LEMMA NumberRanks ==
  ASSUME NEW s \in SUBSET Int, IsFiniteSet(s)
  PROVE  /\ Cardinality(s) \in Nat
         /\ \A x \in s : Smaller(s, x) \in 0 .. Cardinality(s) - 1
         /\ \A x, y \in s : x < y => Smaller(s, x) < Smaller(s, y)
         /\ \A k \in 1 .. Cardinality(s) : \E x \in s : Smaller(s, x) = k - 1
<1> DEFINE n == Cardinality(s)
           below(x) == {m \in s : m < x}
           f == [x \in s |-> Smaller(s, x)]
<1>1. n \in Nat
  BY FS_CardinalityType
<1>2. ASSUME NEW x \in s PROVE Smaller(s, x) \in 0 .. n - 1
  <2>1. below(x) \in SUBSET (s \ {x})
    OBVIOUS
  <2>2. IsFiniteSet(s \ {x}) /\ Cardinality(s \ {x}) = n - 1
    BY FS_RemoveElement
  <2>3. IsFiniteSet(below(x)) /\ Cardinality(below(x)) <= n - 1
    BY <2>1, <2>2, FS_Subset
  <2>4. Cardinality(below(x)) \in Nat
    BY <2>3, FS_CardinalityType
  <2> QED
    BY <1>1, <2>3, <2>4 DEF Smaller
<1>3. ASSUME NEW x \in s, NEW y \in s, x < y
      PROVE  Smaller(s, x) < Smaller(s, y)
  <2>1. below(x) \union {x} \in SUBSET below(y)
    <3>1. \A m \in s : m < x => m < y
      BY <1>3
    <3> QED
      BY <1>3, <3>1
  <2>2. x \notin below(x)
    OBVIOUS
  <2>3. IsFiniteSet(below(x)) /\ IsFiniteSet(below(y))
    BY FS_Subset
  <2>4. Cardinality(below(x) \union {x}) = Cardinality(below(x)) + 1
    BY <2>2, <2>3, FS_AddElement
  <2>5. Cardinality(below(x) \union {x}) <= Cardinality(below(y))
    BY <2>1, <2>3, FS_Subset
  <2>6. Smaller(s, x) \in Int /\ Smaller(s, y) \in Int
    BY <1>2
  <2> QED
    BY <2>4, <2>5, <2>6 DEF Smaller
<1>4. f \in [s -> 0 .. n - 1]
  BY <1>2
<1>5. ASSUME NEW x \in s, NEW y \in s, f[x] = f[y] PROVE x = y
  <2>1. x = y \/ x < y \/ y < x
    OBVIOUS
  <2>2. Smaller(s, x) = Smaller(s, y) /\ Smaller(s, x) \in Int
    BY <1>2, <1>5
  <2>3. ~(x < y)
    BY <2>2, <1>3
  <2>4. ~(y < x)
    BY <2>2, <1>3
  <2> QED
    BY <2>1, <2>3, <2>4
<1>6. f \in Injection(s, 0 .. n - 1)
  BY <1>4, <1>5, Fun_IsInj
<1>7. IsFiniteSet(0 .. n - 1) /\ Cardinality(0 .. n - 1) = n
  BY <1>1, FS_Interval
<1>8. f \in Surjection(s, 0 .. n - 1)
  BY <1>6, <1>7, FS_Injection
<1>9. ASSUME NEW k \in 1 .. n PROVE \E x \in s : Smaller(s, x) = k - 1
  <2>1. k - 1 \in 0 .. n - 1
    BY <1>1
  <2>2. \E x \in s : f[x] = k - 1
    <3> HIDE DEF f, n
    <3>1. \A r \in 0 .. n - 1 : \E x \in s : f[x] = r
      BY <1>8 DEF Surjection
    <3> QED
      BY <2>1, <3>1
  <2> QED
    BY <2>2
<1> QED
  BY <1>1, <1>2, <1>3, <1>9

(* The table is read in order, all of it, and its greatest number last.    *)
LEMMA SortedIs ==
  ASSUME NEW s \in SUBSET Int, IsFiniteSet(s)
  PROVE  /\ Cardinality(s) \in Nat
         /\ Sorted(s) \in Seq(s) /\ Len(Sorted(s)) = Cardinality(s)
         /\ \A m \in s : (\A x \in s : x <= m) => Sorted(s)[Cardinality(s)] = m
<1> DEFINE n == Cardinality(s)
           at(k) == CHOOSE x \in s : Smaller(s, x) = k - 1
<1>1. /\ n \in Nat
      /\ \A x \in s : Smaller(s, x) \in 0 .. n - 1
      /\ \A x, y \in s : x < y => Smaller(s, x) < Smaller(s, y)
      /\ \A k \in 1 .. n : \E x \in s : Smaller(s, x) = k - 1
  BY NumberRanks
<1>2. \A k \in 1 .. n : at(k) \in s /\ Smaller(s, at(k)) = k - 1
  BY <1>1
<1>3. Sorted(s) = [k \in 1 .. n |-> at(k)]
  BY DEF Sorted
<1> HIDE DEF at, n
<1>4. [k \in 1 .. n |-> at(k)] \in [1 .. n -> s]
  BY <1>2
<1>5. Sorted(s) \in Seq(s) /\ Len(Sorted(s)) = n
  BY <1>1, <1>3, <1>4
<1>6. ASSUME NEW m \in s, \A x \in s : x <= m PROVE Sorted(s)[n] = m
  <2>1. n \in 1 .. n
    BY <1>1
  <2>2. at(n) \in s /\ Smaller(s, at(n)) = n - 1
    BY <1>2, <2>1
  <2>3. ~(at(n) < m)
    <3>1. Smaller(s, m) \in 0 .. n - 1
      BY <1>1
    <3>2. at(n) < m => Smaller(s, at(n)) < Smaller(s, m)
      BY <1>1, <2>2
    <3> QED
      BY <1>1, <2>2, <3>1, <3>2
  <2>4. at(n) <= m /\ at(n) \in Int /\ m \in Int
    BY <1>6, <2>2
  <2>5. at(n) = m
    BY <2>3, <2>4
  <2> QED
    BY <1>3, <2>1, <2>5
<1> QED
  BY <1>1, <1>5, <1>6 DEF n

(* What reading the table leaves: the entries that were there, then the    *)
(* numbers read, in the array and in the combo box; if they all fit, the   *)
(* greatest is the last.                                                   *)
LEMMA ReadIs ==
  ASSUME Cap \in Nat, session \in [1 .. Cap -> Int],
         NEW s \in SUBSET Int, IsFiniteSet(s),
         NEW nb \in 0 .. Cap, NEW old \in Seq(Int),
         ReadSessions(s, nb, old)
  PROVE  /\ nb_session' \in nb .. Cap
         /\ session' \in [1 .. Cap -> Int]
         /\ combo' \in Seq(Int) /\ Len(combo') = Len(old) + (nb_session' - nb)
         /\ \A i \in 1 .. nb : session'[i] = session[i]
         /\ \A i \in 1 .. Len(old) : combo'[i] = old[i]
         /\ \A i \in nb + 1 .. nb_session' :
              session'[i] \in s /\ combo'[Len(old) + (i - nb)] = session'[i]
         /\ s # {} /\ nb < Cap => nb_session' > nb
         /\ Cardinality(s) <= Cap - nb =>
              \A m \in s : (\A x \in s : x <= m) => session'[nb_session'] = m
<1> DEFINE all == Sorted(s)
           n == IF Len(all) < Cap - nb THEN Len(all) ELSE Cap - nb
           new == SubSeq(all, 1, n)
<1>1. /\ Cardinality(s) \in Nat /\ all \in Seq(s) /\ Len(all) = Cardinality(s)
      /\ \A m \in s : (\A x \in s : x <= m) => all[Cardinality(s)] = m
  BY SortedIs
<1>2. /\ nb_session' = nb + n
      /\ session' = [i \in 1 .. Cap |->
                       IF i \in nb + 1 .. nb + n THEN new[i - nb] ELSE session[i]]
      /\ combo' = old \o new
  BY DEF ReadSessions
<1> HIDE DEF all
<1>3. n \in 0 .. Len(all) /\ n <= Cap - nb /\ Len(all) \in Nat
  BY <1>1
<1>4. new \in Seq(Int) /\ Len(new) = n /\ \A i \in 1 .. n : new[i] \in s
  <2>1. new = [i \in 1 .. n |-> all[i]]
    BY <1>1, <1>3
  <2>2. \A i \in 1 .. n : all[i] \in s
    BY <1>1, <1>3
  <2>3. n \in Nat
    BY <1>3
  <2> HIDE DEF n, new
  <2>4. [i \in 1 .. n |-> all[i]] \in [1 .. n -> Int]
    BY <2>2
  <2>5. new \in Seq(Int) /\ Len(new) = n
    BY <2>1, <2>3, <2>4
  <2>6. \A i \in 1 .. n : new[i] \in s
    BY <2>1, <2>2
  <2> QED
    BY <2>5, <2>6
<1>5. \A i \in 1 .. n : new[i] = all[i]
  BY <1>1, <1>3
<1>6. (n < Len(all) => n = Cap - nb)
      /\ (Cardinality(s) <= Cap - nb => n = Cardinality(s))
  BY <1>1
<1> HIDE DEF n, new
<1>7. nb_session' \in nb .. Cap
  BY <1>2, <1>3
<1>8. session' \in [1 .. Cap -> Int]
  <2>1. \A i \in nb + 1 .. nb + n : new[i - nb] \in Int
    BY <1>3, <1>4
  <2> QED
    BY <1>2, <2>1
<1>9. Len(old) \in Nat /\ new \in Seq(Int)
  BY <1>4
<1>10. combo' \in Seq(Int) /\ Len(combo') = Len(old) + n
  BY <1>2, <1>4, ConcatProperties
<1>11. \A i \in 1 .. Len(old) : combo'[i] = old[i]
  BY <1>2, <1>9
<1>12. \A i \in 1 .. nb : session'[i] = session[i]
  BY <1>2, <1>3
<1>13. ASSUME NEW i \in nb + 1 .. nb + n
       PROVE  /\ session'[i] = new[i - nb] /\ session'[i] \in s
              /\ combo'[Len(old) + (i - nb)] = session'[i]
  <2>1. i \in 1 .. Cap /\ i - nb \in 1 .. n
    BY <1>3
  <2>2. session'[i] = new[i - nb] /\ new[i - nb] \in s
    BY <1>2, <1>4, <2>1
  <2>3. Len(old) \in Nat /\ (old \o new)[Len(old) + (i - nb)] = new[i - nb]
    BY <1>3, <1>4, <1>9, <2>1
  <2> QED
    BY <1>2, <2>2, <2>3
<1>14. s # {} /\ nb < Cap => n > 0
  <2>1. s # {} => Cardinality(s) # 0
    BY FS_EmptySet
  <2> QED
    BY <1>1, <1>3, <1>6, <2>1
<1>15. ASSUME Cardinality(s) <= Cap - nb, NEW m \in s, \A x \in s : x <= m
       PROVE  session'[nb_session'] = m
  <2>1. n = Cardinality(s) /\ all[n] = m
    BY <1>1, <1>6, <1>15
  <2>2. n > 0
    BY <1>1, <2>1, FS_EmptySet
  <2>3. nb + n \in nb + 1 .. nb + n /\ (nb + n) - nb = n /\ n \in 1 .. n
    BY <1>3, <2>2
  <2> QED
    BY <1>2, <1>13, <1>5, <2>1, <2>3
<1>16. nb_session' - nb = n /\ (n > 0 => nb_session' > nb)
  BY <1>2, <1>3
<1> QED
  BY <1>2, <1>7, <1>8, <1>10, <1>11, <1>12, <1>13, <1>14, <1>15, <1>16

(* The table after a handler that reads it, and what it reads it behind.   *)
ReadsTable(s, nb, old) ==
  /\ s \subseteq Int /\ IsFiniteSet(s)
  /\ (nb = 0 /\ old = <<>>) \/ (nb = nb_session /\ old = combo)
  /\ ReadSessions(s, nb, old)

LEMMA ReadsCombo ==
  ASSUME ListInv,
         NEW s, NEW nb, NEW old, ReadsTable(s, nb, old)
  PROVE  combo' \in Seq(Int) /\ Len(combo') \in Nat
<1>1. /\ Cap \in Nat /\ session \in [1 .. Cap -> Int]
      /\ s \in SUBSET Int /\ IsFiniteSet(s)
      /\ nb \in 0 .. Cap /\ old \in Seq(Int)
      /\ ReadSessions(s, nb, old)
  <2>1. CASE nb = 0 /\ old = <<>>
    BY <2>1, SessionsBounds DEF ListInv, ReadsTable
  <2>2. CASE nb = nb_session /\ old = combo
    BY <2>2, SessionsBounds DEF ListInv, ReadsTable
  <2> QED
    BY <2>1, <2>2 DEF ReadsTable
<1>2. combo' \in Seq(Int)
  BY <1>1, ReadIs
<1> QED
  BY <1>2

LEMMA ReadKeepsList ==
  ASSUME ListInv, now' \in 0 .. MaxDate,
         NEW s, NEW nb, NEW old, ReadsTable(s, nb, old), db' = s,
         cursel' \in 0 .. Len(combo')
  PROVE  ListInv'
<1>1. /\ Cap \in Nat /\ session \in [1 .. Cap -> Int]
      /\ s \subseteq Int /\ IsFiniteSet(s)
      /\ nb \in 0 .. Cap /\ old \in Seq(Int) /\ Len(old) <= nb /\ Len(old) \in Nat
      /\ Len(old) = nb => \A i \in 1 .. nb : old[i] = session[i]
      /\ ReadSessions(s, nb, old)
  <2>1. CASE nb = 0 /\ old = <<>>
    BY <2>1, SessionsBounds DEF ListInv, ReadsTable
  <2>2. CASE nb = nb_session /\ old = combo
    BY <2>2, SessionsBounds DEF ListInv, ReadsTable
  <2> QED
    BY <2>1, <2>2 DEF ReadsTable
<1>2. /\ nb_session' \in nb .. Cap
      /\ session' \in [1 .. Cap -> Int]
      /\ combo' \in Seq(Int) /\ Len(combo') = Len(old) + (nb_session' - nb)
      /\ \A i \in 1 .. nb : session'[i] = session[i]
      /\ \A i \in 1 .. Len(old) : combo'[i] = old[i]
      /\ \A i \in nb + 1 .. nb_session' : combo'[Len(old) + (i - nb)] = session'[i]
  BY <1>1, ReadIs
<1>3. ASSUME Len(combo') = nb_session', NEW i \in 1 .. nb_session'
      PROVE  combo'[i] = session'[i]
  <2>1. Len(old) = nb
    BY <1>1, <1>2, <1>3
  <2>2. CASE i <= nb
    <3>1. i \in 1 .. nb /\ i \in 1 .. Len(old)
      BY <1>1, <2>1, <2>2
    <3> QED
      BY <1>1, <1>2, <2>1, <3>1
  <2>3. CASE i > nb
    <3>1. i \in nb + 1 .. nb_session' /\ Len(old) + (i - nb) = i
      BY <1>1, <1>2, <2>1, <2>3
    <3> QED
      BY <1>2, <3>1
  <2> QED
    BY <1>1, <2>2, <2>3
<1>4. Len(combo') <= nb_session' /\ nb_session' \in 0 .. Cap
  BY <1>1, <1>2
<1> QED
  BY <1>1, <1>2, <1>3, <1>4 DEF ListInv

(* A session added by a scan or an import is in the array; it is the last  *)
(* one if its number was the greatest and there was room.                  *)
LEMMA AddSessionIs ==
  ASSUME ListInv, AddSession, now' = now
  PROVE  /\ ListInv'
         /\ Number(now) \in Int /\ db' = db \union {Number(now)}
         /\ nb_session' >= 1 /\ \A i \in 1 .. nb_session' : session'[i] \in db'
         /\ Fresh => session'[nb_session'] = Number(now)
<1> DEFINE new == Number(now)
<1>1. now \in Nat /\ new \in Int /\ Cap \in Nat \ {0}
  BY NumberType, SessionsBounds DEF ListInv
<1>2. /\ db' = db \union {new} /\ ReadSessions(db', 0, <<>>)
      /\ cursel' = Len(combo')
  BY DEF AddSession
<1> HIDE DEF new
<1>3. db' \subseteq Int /\ IsFiniteSet(db') /\ db' # {}
  BY <1>1, <1>2, FS_AddElement DEF ListInv
<1>4. ReadsTable(db', 0, <<>>)
  BY <1>2, <1>3 DEF ReadsTable
<1>5. /\ nb_session' \in 0 .. Cap /\ nb_session' > 0
      /\ combo' \in Seq(Int)
      /\ \A i \in 0 + 1 .. nb_session' : session'[i] \in db'
      /\ Cardinality(db') <= Cap - 0 =>
           \A m \in db' : (\A x \in db' : x <= m) => session'[nb_session'] = m
  <2> DEFINE s == db'
             nb == 0
             old == <<>>
  <2>1. /\ s \in SUBSET Int /\ IsFiniteSet(s) /\ s # {}
        /\ nb \in 0 .. Cap /\ nb < Cap /\ old \in Seq(Int)
        /\ Cap \in Nat /\ session \in [1 .. Cap -> Int]
        /\ ReadSessions(s, nb, old)
    BY <1>1, <1>2, <1>3 DEF ListInv
  <2> HIDE DEF s, nb, old
  <2>2. /\ nb_session' \in nb .. Cap /\ combo' \in Seq(Int)
        /\ \A i \in nb + 1 .. nb_session' : session'[i] \in s
        /\ s # {} /\ nb < Cap => nb_session' > nb
        /\ Cardinality(s) <= Cap - nb =>
             \A m \in s : (\A x \in s : x <= m) => session'[nb_session'] = m
    BY <2>1, ReadIs
  <2> QED
    BY <2>1, <2>2 DEF s, nb
<1>6. ListInv'
  <2>1. now' \in 0 .. MaxDate /\ cursel' \in 0 .. Len(combo')
    BY <1>2, <1>5 DEF ListInv
  <2> QED
    BY <1>4, <2>1, ReadKeepsList
<1>7. ASSUME Fresh PROVE session'[nb_session'] = new
  <2>1. (\A x \in db : x < new) /\ Cardinality(db) < Cap
    BY <1>7 DEF Fresh, new
  <2>2. new \notin db
    BY <1>1, <2>1
  <2>3. Cardinality(db') <= Cap
    <3>1. Cardinality(db') = Cardinality(db) + 1 /\ Cardinality(db) \in Nat
      BY <1>2, <2>2, FS_AddElement, FS_CardinalityType DEF ListInv
    <3> QED
      BY <1>1, <2>1, <3>1
  <2>4. new \in db' /\ \A x \in db' : x <= new
    BY <1>1, <1>2, <1>3, <2>1
  <2> QED
    BY <1>1, <1>5, <2>3, <2>4
<1> QED
  BY <1>1, <1>2, <1>5, <1>6, <1>7 DEF new
-----------------------------------------------------------------------------
LEMMA ListStep ==
  ASSUME ListInv, [SessionsNext]_sessionsVars
  PROVE  ListInv'
<1> DEFINE Same == UNCHANGED <<db, nb_session, session, combo, cursel>>
<1>1. ASSUME Same, now' \in 0 .. MaxDate PROVE ListInv'
  BY <1>1 DEF ListInv
<1>2. ASSUME AddSession, now' = now PROVE ListInv'
  BY <1>2, AddSessionIs
<1>3. now \in 0 .. MaxDate
  BY DEF ListInv
<1> HIDE DEF Same
<1>4. CASE Tick \/ OpenConf \/ CloseConf
  BY <1>1, <1>3, <1>4 DEF Tick, OpenConf, CloseConf, tableVars, listVars, Same
<1>5. ASSUME NEW w \in Writers,
             \/ TakeLastSession(w) \/ TestBegins(w) \/ ScanRow(w) \/ EndScan(w)
             \/ KillScan(w) \/ StartImport(w) \/ ImportAsk(w) \/ ImportNo(w)
             \/ ImportRow(w) \/ EndImport(w)
      PROVE  ListInv'
  BY <1>1, <1>3, <1>5
  DEF TakeLastSession, TestBegins, ScanRow, EndScan, KillScan, StartImport,
      ImportAsk, ImportNo, Answered, ImportRow, EndImport, WriterAt, tableVars,
      listVars, Same
<1>6. ASSUME NEW w \in Writers, AddScanSession(w) \/ ImportYes(w)
      PROVE  ListInv'
  BY <1>2, <1>6 DEF AddScanSession, ImportYes, Answered, WriterAt
<1>7. ASSUME NEW i \in 1 .. Cap, SelectSession(i) PROVE ListInv'
  BY <1>7 DEF SelectSession, tableVars, ListInv
<1>8. ASSUME NEW s, ReadsTable(s, 0, <<>>), db' = s, ShowFirst, now' = now
      PROVE  ListInv'
  <2>1. combo' \in Seq(Int) => cursel' \in 0 .. Len(combo')
    <3>1. combo' \in Seq(Int) /\ combo' # <<>> => Len(combo') >= 1
      BY EmptySeq
    <3> QED
      BY <1>8, <3>1 DEF ShowFirst
  <2>2. combo' \in Seq(Int)
    BY <1>8, ReadsCombo
  <2> QED
    BY <1>3, <1>8, <2>1, <2>2, ReadKeepsList
<1>9. CASE RefreshSessions
  <2>1. ReadsTable(db, 0, <<>>)
    BY <1>9 DEF RefreshSessions, ReadsTable, ListInv
  <2> QED
    BY <1>8, <1>9, <2>1 DEF RefreshSessions, tableVars
<1>10. CASE DeleteSession
  <2>1. db' = db \ {current_session_id} /\ db' \subseteq Int /\ IsFiniteSet(db')
    BY <1>10, FS_RemoveElement DEF DeleteSession, ListInv
  <2>2. ReadsTable(db', 0, <<>>)
    BY <1>10, <2>1 DEF DeleteSession, ReadsTable
  <2> QED
    BY <1>8, <1>10, <2>2 DEF DeleteSession
<1>11. CASE DeleteAllSessions
  <2>1. /\ db' = {} /\ combo' = <<>> /\ cursel' = 0
        /\ UNCHANGED <<now, nb_session, session>>
    BY <1>11 DEF DeleteAllSessions
  <2> QED
    BY <2>1, FS_EmptySet DEF ListInv
<1>12. ASSUME NEW file \in Files, LoadSession(file) PROVE ListInv'
  <2>1. /\ db' = (IF file \intersect db = {} THEN db \union file ELSE db)
        /\ ReadSessions(db', nb_session, combo)
        /\ cursel' = Len(combo') /\ now' = now
    BY <1>12 DEF LoadSession
  <2>2. IsFiniteSet(file) /\ file \subseteq Int
    BY SessionsBounds
  <2>3. db' \subseteq Int /\ IsFiniteSet(db')
    BY <2>1, <2>2, FS_Union DEF ListInv
  <2>4. ReadsTable(db', nb_session, combo)
    BY <2>1, <2>3 DEF ReadsTable
  <2>5. cursel' \in 0 .. Len(combo')
    BY <2>1, <2>4, ReadsCombo
  <2> QED
    BY <1>3, <2>1, <2>4, <2>5, ReadKeepsList
<1>13. CASE UNCHANGED sessionsVars
  BY <1>1, <1>3, <1>13 DEF sessionsVars, tableVars, listVars, Same
<1> QED
  BY <1>4, <1>5, <1>6, <1>7, <1>9, <1>10, <1>11, <1>12, <1>13 DEF SessionsNext

(* One writer goes from one point to another and stays what it is.         *)
ScanTurns == {<<"begin", "write">>, <<"begin", "done">>, <<"write", "write">>,
              <<"write", "done">>, <<"write", "escaped">>,
              <<"escaped", "escaped">>}

ImportTurns == {<<"load", "ask">>, <<"load", "done">>, <<"ask", "write">>,
                <<"write", "write">>, <<"write", "done">>}

Kept(old, new) ==
  /\ new.kind = old.kind /\ new.fresh = old.fresh /\ new.alone = old.alone
  /\ \/ /\ old.kind = "scan" /\ new.id = old.id
        /\ <<old.pc, new.pc>> \in ScanTurns
     \/ /\ old.kind = "import"
        /\ <<old.pc, new.pc>> \in ImportTurns

Turns(w) == \E new \in WriterRecords :
  writer' = [writer EXCEPT ![w] = new] /\ Kept(writer[w], new)

Begins(w, kind, pc) == \E new \in WriterRecords :
  /\ writer[w].pc = "none"
  /\ writer' = [writer EXCEPT ![w] = new]
  /\ new.kind = kind /\ new.pc = pc /\ new.at = {}
  /\ kind = "scan" =>
       /\ new.id = Number(now)
       /\ new.fresh = Fresh /\ new.alone = ~Importing
  /\ kind = "import" => ~new.fresh

LEMMA ScansTurn ==
  ASSUME WritersInv, OneScanInv, ListInv, NEW w \in Writers,
         \/ TakeLastSession(w) \/ TestBegins(w) \/ ScanRow(w)
         \/ EndScan(w) \/ KillScan(w)
  PROVE  Turns(w)
<1>1. writer[w] \in WriterRecords
  BY DEF Writers, WritersInv
<1>2. ASSUME NEW pc \in Wrote, NEW at \in SUBSET Int,
             writer[w].kind = "scan", <<writer[w].pc, pc>> \in ScanTurns,
             writer' = [writer EXCEPT ![w] = [writer[w] EXCEPT !.pc = pc, !.at = at]]
      PROVE  Turns(w)
  <2> DEFINE new == [writer[w] EXCEPT !.pc = pc, !.at = at]
  <2>1. new \in WriterRecords
    BY <1>1, <1>2 DEF WriterRecords, Wrote
  <2>2. /\ new.kind = writer[w].kind /\ new.fresh = writer[w].fresh
        /\ new.alone = writer[w].alone /\ new.id = writer[w].id /\ new.pc = pc
    BY <1>1 DEF WriterRecords
  <2>3. writer' = [writer EXCEPT ![w] = new]
    BY <1>2
  <2> HIDE DEF new
  <2> QED
    BY <1>2, <2>1, <2>2, <2>3 DEF Turns, Kept
<1>3. ASSUME NEW pc \in Wrote, writer[w].kind = "scan",
             <<writer[w].pc, pc>> \in ScanTurns,
             writer' = [writer EXCEPT ![w] = [writer[w] EXCEPT !.pc = pc]]
      PROVE  Turns(w)
  <2>1. /\ writer[w].at \in SUBSET Int
        /\ [writer[w] EXCEPT !.pc = pc]
             = [writer[w] EXCEPT !.pc = pc, !.at = writer[w].at]
    BY <1>1 DEF WriterRecords
  <2> QED
    BY <1>2, <1>3, <2>1
<1>4. CASE TakeLastSession(w)
  <2>1. /\ writer[w].kind = "scan" /\ writer[w].pc = "begin"
        /\ writer' = [writer EXCEPT ![w] =
             [writer[w] EXCEPT !.pc = "write", !.at = {session[nb_session]}]]
    BY <1>4 DEF TakeLastSession, WriterAt
  <2>2. {session[nb_session]} \in SUBSET Int
    BY <2>1 DEF OneScanInv, ScanAt, Writers, ListInv
  <2> QED
    BY <1>2, <2>1, <2>2 DEF ScanTurns, Wrote
<1>5. CASE TestBegins(w)
  <2>1. PICK pc \in {"write", "escaped"} :
          /\ writer[w].kind = "scan" /\ writer[w].pc = pc
          /\ writer' = [writer EXCEPT ![w] =
               [writer[w] EXCEPT !.at = @ \union {current_session_id}]]
    BY <1>5 DEF TestBegins, WriterAt
  <2>2. /\ writer[w].at \union {current_session_id} \in SUBSET Int
        /\ [writer[w] EXCEPT !.at = @ \union {current_session_id}]
             = [writer[w] EXCEPT !.pc = pc,
                                 !.at = writer[w].at \union {current_session_id}]
    BY <1>1, <2>1 DEF WriterRecords, WritersInv
  <2>3. pc \in Wrote /\ <<writer[w].pc, pc>> \in ScanTurns
    BY <2>1 DEF ScanTurns, Wrote
  <2> QED
    BY <1>2, <2>1, <2>2, <2>3
<1>6. CASE ScanRow(w)
  <2>1. PICK pc \in {"write", "escaped"} :
          /\ writer[w].kind = "scan" /\ writer[w].pc = pc
          /\ writer' = [writer EXCEPT ![w] = writer[w]]
    BY <1>6 DEF ScanRow, WriterAt
  <2>2. <<writer[w].pc, writer[w].pc>> \in ScanTurns
    BY <2>1 DEF ScanTurns
  <2> QED
    BY <1>1, <2>1, <2>2 DEF Turns, Kept
<1>7. CASE EndScan(w) \/ KillScan(w)
  <2>1. CASE \E from \in {"begin", "write"} :
               WriterAt(w, "scan", from,
                        [writer[w] EXCEPT !.pc = "done", !.at = {}])
    <3>1. /\ writer[w].kind = "scan" /\ writer[w].pc \in {"begin", "write"}
          /\ writer' = [writer EXCEPT ![w] =
               [writer[w] EXCEPT !.pc = "done", !.at = {}]]
      BY <2>1 DEF WriterAt
    <3>2. <<writer[w].pc, "done">> \in ScanTurns /\ {} \in SUBSET Int
      BY <3>1 DEF ScanTurns
    <3> QED
      BY <1>2, <3>1, <3>2 DEF Wrote
  <2>2. CASE WriterAt(w, "scan", "write", [writer[w] EXCEPT !.pc = "escaped"])
    BY <1>3, <2>2 DEF WriterAt, ScanTurns, Wrote
  <2> QED
    BY <1>7, <2>1, <2>2 DEF EndScan, KillScan
<1> QED
  BY <1>4, <1>5, <1>6, <1>7

LEMMA ImportsTurn ==
  ASSUME WritersInv, ListInv, NEW w \in Writers,
         \/ ImportAsk(w) \/ ImportYes(w) \/ ImportNo(w)
         \/ ImportRow(w) \/ EndImport(w)
  PROVE  Turns(w)
<1>1. writer[w] \in WriterRecords /\ Number(now) \in Int
  <2>1. now \in Nat
    BY SessionsBounds DEF ListInv
  <2> QED
    BY <2>1, NumberType DEF Writers, WritersInv
<1>2. ASSUME NEW pc \in {"ask", "write", "done"}, NEW id \in Int,
             writer[w].kind = "import", <<writer[w].pc, pc>> \in ImportTurns,
             writer' = [writer EXCEPT ![w] = [writer[w] EXCEPT !.pc = pc, !.id = id]]
      PROVE  Turns(w)
  <2> DEFINE new == [writer[w] EXCEPT !.pc = pc, !.id = id]
  <2>1. new \in WriterRecords
    BY <1>1, <1>2 DEF WriterRecords
  <2>2. /\ new.kind = writer[w].kind /\ new.fresh = writer[w].fresh
        /\ new.alone = writer[w].alone /\ new.pc = pc
    BY <1>1 DEF WriterRecords
  <2>3. writer' = [writer EXCEPT ![w] = new]
    BY <1>2
  <2> HIDE DEF new
  <2> QED
    BY <1>2, <2>1, <2>2, <2>3 DEF Turns, Kept
<1>3. ASSUME NEW pc \in {"ask", "write", "done"}, writer[w].kind = "import",
             <<writer[w].pc, pc>> \in ImportTurns,
             writer' = [writer EXCEPT ![w] = [writer[w] EXCEPT !.pc = pc]]
      PROVE  Turns(w)
  <2>1. /\ writer[w].id \in Int
        /\ [writer[w] EXCEPT !.pc = pc]
             = [writer[w] EXCEPT !.pc = pc, !.id = writer[w].id]
    BY <1>1 DEF WriterRecords
  <2> QED
    BY <1>2, <1>3, <2>1
<1>4. CASE ImportYes(w)
  BY <1>1, <1>2, <1>4 DEF ImportYes, Answered, WriterAt, ImportTurns
<1>5. CASE ImportAsk(w)
  BY <1>3, <1>5 DEF ImportAsk, WriterAt, ImportTurns
<1>6. CASE ImportNo(w)
  BY <1>3, <1>6 DEF ImportNo, Answered, WriterAt, ImportTurns
<1>7. CASE EndImport(w)
  <2>1. /\ writer[w].kind = "import" /\ writer[w].pc \in {"load", "write"}
        /\ writer' = [writer EXCEPT ![w] = [writer[w] EXCEPT !.pc = "done"]]
    BY <1>7 DEF EndImport, WriterAt
  <2>2. <<writer[w].pc, "done">> \in ImportTurns
    BY <2>1 DEF ImportTurns
  <2> QED
    BY <1>3, <2>1, <2>2
<1>8. CASE ImportRow(w)
  <2>1. /\ writer[w].kind = "import" /\ writer[w].pc = "write"
        /\ writer' = [writer EXCEPT ![w] = writer[w]]
    BY <1>8 DEF ImportRow, WriterAt
  <2> QED
    BY <1>1, <2>1 DEF Turns, Kept, ImportTurns
<1> QED
  BY <1>4, <1>5, <1>6, <1>7, <1>8

LEMMA BeginIs ==
  ASSUME WritersInv, ListInv, NEW w \in Writers
  PROVE  /\ AddScanSession(w) => Begins(w, "scan", "begin")
         /\ StartImport(w) => Begins(w, "import", "load")
<1>1. NoWriter \in WriterRecords /\ Number(now) \in Int
  <2>1. now \in Nat
    BY SessionsBounds DEF ListInv
  <2> QED
    BY <2>1, NumberType DEF NoWriter, WriterRecords
<1>2. NoWriter.at = {} /\ NoWriter.kind = "scan" /\ ~NoWriter.fresh
  BY DEF NoWriter
<1> DEFINE scan(f, a) == [NoWriter EXCEPT !.pc = "begin", !.id = Number(now),
                                          !.fresh = f, !.alone = a]
           import == [NoWriter EXCEPT !.kind = "import", !.pc = "load"]
<1>3. ASSUME NEW f \in BOOLEAN, NEW a \in BOOLEAN
      PROVE  /\ scan(f, a) \in WriterRecords
             /\ scan(f, a).kind = "scan" /\ scan(f, a).pc = "begin"
             /\ scan(f, a).at = {} /\ scan(f, a).id = Number(now)
             /\ scan(f, a).fresh = f /\ scan(f, a).alone = a
  BY <1>1, <1>2 DEF WriterRecords
<1>4. /\ import \in WriterRecords /\ import.kind = "import"
      /\ import.pc = "load" /\ import.at = {} /\ ~import.fresh
  BY <1>1, <1>2 DEF WriterRecords
<1>5. ASSUME AddScanSession(w) PROVE Begins(w, "scan", "begin")
  <2>1. /\ writer[w].pc = "none"
        /\ writer' = [writer EXCEPT ![w] = scan(Fresh, ~Importing)]
    BY <1>5 DEF AddScanSession, BeginWriter
  <2>2. Fresh \in BOOLEAN /\ (~Importing) \in BOOLEAN
    BY Zenon DEF Fresh, Importing
  <2> HIDE DEF scan
  <2> QED
    BY <1>3, <2>1, <2>2 DEF Begins
<1>6. ASSUME StartImport(w) PROVE Begins(w, "import", "load")
  <2>1. writer[w].pc = "none" /\ writer' = [writer EXCEPT ![w] = import]
    BY <1>6 DEF StartImport, BeginWriter
  <2> HIDE DEF import
  <2> QED
    BY <1>4, <2>1 DEF Begins
<1> QED
  BY <1>5, <1>6

(* In every step one writer begins or turns, or none changes.              *)
LEMMA WriterMoves ==
  ASSUME ListInv, WritersInv, OneScanInv, [SessionsNext]_sessionsVars
  PROVE  \/ writer' = writer
         \/ \E w \in Writers :
              \/ Turns(w)
              \/ Begins(w, "scan", "begin") \/ Begins(w, "import", "load")
<1>1. ASSUME NEW w \in Writers,
             \/ AddScanSession(w) \/ TakeLastSession(w) \/ TestBegins(w)
             \/ ScanRow(w) \/ EndScan(w) \/ KillScan(w)
             \/ StartImport(w) \/ ImportAsk(w) \/ ImportYes(w) \/ ImportNo(w)
             \/ ImportRow(w) \/ EndImport(w)
      PROVE  \/ Turns(w)
             \/ Begins(w, "scan", "begin") \/ Begins(w, "import", "load")
  BY <1>1, ScansTurn, ImportsTurn, BeginIs
<1>2. CASE \/ Tick \/ OpenConf \/ CloseConf
           \/ \E i \in 1 .. Cap : SelectSession(i)
           \/ RefreshSessions \/ DeleteSession \/ DeleteAllSessions
           \/ (\E file \in Files : LoadSession(file)) \/ UNCHANGED sessionsVars
  BY <1>2
  DEF Tick, OpenConf, CloseConf, SelectSession, RefreshSessions,
      DeleteSession, DeleteAllSessions, LoadSession, sessionsVars
<1> QED
  BY <1>1, <1>2 DEF SessionsNext

(* A row that a step writes is a scan's, under a number its tests copied or*)
(* the current one, or an import's, or it comes from a file.               *)
LEMMA RowsAre ==
  ASSUME WritersInv, [SessionsNext]_sessionsVars
  PROVE  \A r \in rows' :
           \/ r \in rows
           \/ r.by = 0
           \/ /\ r.by \in 1 .. MaxWriters /\ UNCHANGED <<db, writer>>
              /\ \/ /\ writer[r.by].kind = "scan"
                    /\ writer[r.by].pc \in {"write", "escaped"}
                    /\ r.session \in writer[r.by].at \union {current_session_id}
                 \/ writer[r.by].kind = "import" /\ writer[r.by].pc = "write"
<1> USE DEF Writers
<1>1. writer \in [1 .. MaxWriters -> WriterRecords]
  BY DEF WritersInv
<1> SUFFICES ASSUME NEW r \in rows', r \notin rows, r.by # 0
             PROVE  /\ r.by \in 1 .. MaxWriters /\ UNCHANGED <<db, writer>>
                    /\ \/ /\ writer[r.by].kind = "scan"
                          /\ writer[r.by].pc \in {"write", "escaped"}
                          /\ r.session \in writer[r.by].at \union {current_session_id}
                       \/ writer[r.by].kind = "import" /\ writer[r.by].pc = "write"
  OBVIOUS
<1>2. ASSUME NEW w \in Writers, ScanRow(w) PROVE
        /\ UNCHANGED <<db, writer>> /\ r.by = w
        /\ writer[w].kind = "scan" /\ writer[w].pc \in {"write", "escaped"}
        /\ r.session \in writer[w].at \union {current_session_id}
  BY <1>1, <1>2 DEF ScanRow, WriterAt
<1>3. ASSUME NEW w \in Writers, ImportRow(w)
      PROVE  /\ UNCHANGED <<db, writer>> /\ r.by = w
             /\ writer[w].kind = "import" /\ writer[w].pc = "write"
  BY <1>1, <1>3 DEF ImportRow, WriterAt
<1>4. ASSUME NEW w \in Writers,
             \/ AddScanSession(w) \/ TakeLastSession(w) \/ TestBegins(w)
             \/ EndScan(w) \/ KillScan(w) \/ StartImport(w)
             \/ ImportAsk(w) \/ ImportYes(w) \/ ImportNo(w) \/ EndImport(w)
      PROVE  rows' = rows
  BY <1>4 DEF AddScanSession, TakeLastSession, TestBegins, EndScan, KillScan,
              StartImport, ImportAsk, ImportYes, ImportNo, Answered, EndImport,
              tableVars
<1>5. CASE \/ Tick \/ OpenConf \/ CloseConf
           \/ \E i \in 1 .. Cap : SelectSession(i)
           \/ RefreshSessions \/ DeleteSession \/ DeleteAllSessions
           \/ (\E file \in Files : LoadSession(file)) \/ UNCHANGED sessionsVars
  <2>1. \A s \in rows' : s \in rows \/ s.by = 0
    BY <1>5
    DEF Tick, OpenConf, CloseConf, SelectSession, RefreshSessions,
        DeleteSession, DeleteAllSessions, LoadSession, sessionsVars, tableVars
  <2> QED
    BY <2>1
<1> QED
  BY <1>2, <1>3, <1>4, <1>5 DEF SessionsNext

LEMMA CurrentIs ==
  ASSUME ListInv, WritersInv, OneScanInv, [SessionsNext]_sessionsVars
  PROVE  current_session_id' \in Int
<1>1. current_session_id \in Int /\ Number(now) \in Int /\ 0 \in Int
  <2>1. now \in Nat
    BY SessionsBounds DEF ListInv
  <2> QED
    BY <2>1, NumberType DEF WritersInv
<1>2. ASSUME NEW w \in Writers, TakeLastSession(w)
      PROVE  current_session_id' \in Int
  <2>1. ScanAt(w) /\ current_session_id' = session[nb_session]
    BY <1>2 DEF TakeLastSession, WriterAt, ScanAt
  <2> QED
    BY <2>1 DEF OneScanInv, Writers, ListInv
<1>3. ASSUME NEW w \in Writers,
             \/ AddScanSession(w) \/ TestBegins(w)
             \/ ScanRow(w) \/ EndScan(w) \/ KillScan(w)
             \/ StartImport(w) \/ ImportAsk(w) \/ ImportYes(w) \/ ImportNo(w)
             \/ ImportRow(w) \/ EndImport(w)
      PROVE  current_session_id' \in Int
  BY <1>1, <1>3
  DEF AddScanSession, TestBegins, ScanRow, EndScan, KillScan, StartImport,
      ImportAsk, ImportYes, ImportNo, ImportRow, EndImport
<1>4. ASSUME NEW i \in 1 .. Cap, SelectSession(i)
      PROVE  current_session_id' \in Int
  BY <1>4 DEF SelectSession, ListInv
<1>5. CASE \/ Tick \/ OpenConf \/ CloseConf
           \/ RefreshSessions \/ DeleteSession \/ DeleteAllSessions
           \/ (\E file \in Files : LoadSession(file)) \/ UNCHANGED sessionsVars
  BY <1>1, <1>5
  DEF Tick, OpenConf, CloseConf, RefreshSessions,
      DeleteSession, DeleteAllSessions, LoadSession, sessionsVars
<1> QED
  BY <1>2, <1>3, <1>4, <1>5 DEF SessionsNext

LEMMA WritersStep ==
  ASSUME ListInv, WritersInv, OneScanInv, [SessionsNext]_sessionsVars
  PROVE  WritersInv'
<1> USE DEF Writers
<1>1. MaxWriters \in Nat /\ writer \in [1 .. MaxWriters -> WriterRecords]
  BY SessionsBounds DEF WritersInv
<1>2. \A r \in rows' :
        /\ r.by \in 0 .. MaxWriters
        /\ r.by # 0 => writer[r.by].pc \in Wrote
  BY <1>1, RowsAre DEF WritersInv, Wrote
<1>3. ASSUME NEW w \in Writers, NEW new \in WriterRecords,
             writer' = [writer EXCEPT ![w] = new],
             new.pc \in {"begin", "escaped"} => new.kind = "scan",
             new.pc \in {"load", "ask"} => new.kind = "import",
             new.fresh => new.kind = "scan",
             writer[w].pc \in Wrote => new.pc \in Wrote
      PROVE  WritersInv'
  <2>1. /\ writer' \in [1 .. MaxWriters -> WriterRecords] /\ writer'[w] = new
        /\ \A v \in 1 .. MaxWriters : v # w => writer'[v] = writer[v]
    BY <1>1, <1>3
  <2>2. \A v \in 1 .. MaxWriters :
          /\ writer'[v].pc \in {"begin", "escaped"} => writer'[v].kind = "scan"
          /\ writer'[v].pc \in {"load", "ask"} => writer'[v].kind = "import"
          /\ writer'[v].fresh => writer'[v].kind = "scan"
    BY <1>3, <2>1 DEF WritersInv
  <2>3. ASSUME NEW r \in rows', r.by # 0
        PROVE  writer'[r.by].pc \in Wrote
    <3>1. r.by \in 1 .. MaxWriters /\ writer[r.by].pc \in Wrote
      BY <1>1, <1>2, <2>3
    <3> QED
      BY <1>3, <2>1, <3>1
  <2> QED
    BY <1>2, <2>1, <2>2, <2>3, CurrentIs DEF WritersInv
<1>4. CASE writer' = writer
  BY <1>2, <1>4, CurrentIs DEF WritersInv
<1>5. ASSUME NEW w \in Writers, Turns(w) PROVE WritersInv'
  <2>1. PICK new \in WriterRecords :
          writer' = [writer EXCEPT ![w] = new] /\ Kept(writer[w], new)
    BY <1>5 DEF Turns
  <2>2. /\ new.pc \in {"begin", "escaped"} => new.kind = "scan"
        /\ new.pc \in {"load", "ask"} => new.kind = "import"
        /\ new.fresh => new.kind = "scan"
        /\ writer[w].pc \in Wrote => new.pc \in Wrote
    BY <2>1 DEF Kept, ScanTurns, ImportTurns, Wrote, WritersInv
  <2> QED
    BY <1>3, <2>1, <2>2
<1>6. ASSUME NEW w \in Writers,
             Begins(w, "scan", "begin") \/ Begins(w, "import", "load")
      PROVE  WritersInv'
  <2>1. PICK new \in WriterRecords :
          /\ writer[w].pc = "none" /\ writer' = [writer EXCEPT ![w] = new]
          /\ \/ new.kind = "scan" /\ new.pc = "begin"
             \/ new.kind = "import" /\ new.pc = "load" /\ ~new.fresh
    BY <1>6 DEF Begins
  <2> QED
    BY <1>3, <2>1 DEF Wrote
<1> QED
  BY <1>4, <1>5, <1>6, WriterMoves

(* Steps at which no scan is at work, or nothing it needs changes.         *)
LEMMA OneScanStays ==
  ASSUME OneScanInv,
         \/ \A w \in 1 .. MaxWriters : ~ScanAt(w)'
         \/ /\ UNCHANGED <<db, nb_session, session, current_session_id, h_conf>>
            /\ \A w \in 1 .. MaxWriters :
                 /\ ScanAt(w)' => ScanAt(w) /\ writer'[w] = writer[w]
                 /\ ImportAt(w)' => ImportAt(w)
  PROVE  OneScanInv'
<1>1. CASE \A w \in 1 .. MaxWriters : ~ScanAt(w)'
  BY <1>1 DEF OneScanInv
<1>2. CASE /\ UNCHANGED <<db, nb_session, session, current_session_id, h_conf>>
           /\ \A w \in 1 .. MaxWriters :
                /\ ScanAt(w)' => ScanAt(w) /\ writer'[w] = writer[w]
                /\ ImportAt(w)' => ImportAt(w)
  BY <1>2 DEF OneScanInv, Listed
<1> QED
  BY <1>1, <1>2

(* An import of its own goes on beside a scan that did not begin alone.    *)
LEMMA ImportBeside ==
  ASSUME ListInv, WritersInv, OneScanInv,
         NEW w \in Writers, ImportAsk(w) \/ ImportYes(w) \/ ImportNo(w)
  PROVE  OneScanInv'
<1> USE DEF Writers
<1>1. writer \in [1 .. MaxWriters -> WriterRecords]
  BY DEF WritersInv
<1>2. PICK new \in WriterRecords :
        /\ writer' = [writer EXCEPT ![w] = new]
        /\ writer[w].kind = "import" /\ new.kind = "import"
        /\ writer[w].pc \in {"load", "ask"}
  <2>1. writer[w].kind = "import" /\ writer[w].pc \in {"load", "ask"}
    BY DEF ImportAsk, ImportYes, ImportNo, Answered, WriterAt
  <2> QED
    BY <2>1, ImportsTurn DEF Turns, Kept
<1>3. /\ ImportAt(w) /\ ~ScanAt(w)'
      /\ \A v \in 1 .. MaxWriters : v # w => writer'[v] = writer[v]
  BY <1>1, <1>2 DEF ImportAt, ScanAt
<1>4. h_conf' = h_conf
  BY DEF ImportAsk, ImportYes, ImportNo, Answered
<1>5. /\ db \subseteq db'
      /\ \/ current_session_id' \in db' \union {0}
         \/ current_session_id' = current_session_id
      /\ \/ nb_session' = nb_session /\ session' = session
         \/ /\ nb_session' >= 1
            /\ \A i \in 1 .. nb_session' : session'[i] \in db'
  <2>1. CASE ImportYes(w)
    BY <2>1, AddSessionIs DEF ImportYes, Answered, WriterAt
  <2>2. CASE ImportAsk(w) \/ ImportNo(w)
    BY <2>2 DEF ImportAsk, ImportNo, tableVars, listVars
  <2> QED
    BY <2>1, <2>2
<1>6. ASSUME NEW v \in 1 .. MaxWriters, ScanAt(v)'
      PROVE  /\ h_conf' /\ \A u \in (1 .. MaxWriters) \ {v} : ~ScanAt(u)'
             /\ ~writer'[v].alone
             /\ nb_session' >= 1 /\ \A i \in 1 .. nb_session' : session'[i] \in db'
             /\ \A n \in writer'[v].at \union {current_session_id'} : Listed(v, n)'
  <2>1. v # w /\ ScanAt(v) /\ writer'[v] = writer[v]
    BY <1>3, <1>6 DEF ScanAt
  <2>2. /\ h_conf /\ \A u \in (1 .. MaxWriters) \ {v} : ~ScanAt(u)
        /\ ~writer[v].alone
        /\ nb_session >= 1 /\ \A i \in 1 .. nb_session : session[i] \in db
        /\ \A n \in writer[v].at \union {current_session_id} : Listed(v, n)
    BY <1>3, <2>1 DEF OneScanInv
  <2>3. \A u \in (1 .. MaxWriters) \ {v} : ~ScanAt(u)'
    BY <1>3, <2>2 DEF ScanAt
  <2>4. \A n \in writer'[v].at \union {current_session_id'} : Listed(v, n)'
    BY <1>5, <2>1, <2>2 DEF Listed
  <2>5. nb_session' >= 1 /\ \A i \in 1 .. nb_session' : session'[i] \in db'
    BY <1>5, <2>2
  <2> QED
    BY <1>4, <2>1, <2>2, <2>3, <2>4, <2>5
<1> QED
  BY <1>6 DEF OneScanInv

LEMMA OneScanStep ==
  ASSUME ListInv, WritersInv, OneScanInv, [SessionsNext]_sessionsVars
  PROVE  OneScanInv'
<1> USE DEF Writers
<1>1. MaxWriters \in Nat /\ writer \in [1 .. MaxWriters -> WriterRecords]
  BY SessionsBounds DEF WritersInv
<1>2. CASE Tick \/ UNCHANGED sessionsVars
  <2>1. /\ writer' = writer
        /\ UNCHANGED <<db, nb_session, session, current_session_id, h_conf>>
    BY <1>2 DEF Tick, sessionsVars, tableVars, listVars, windowVars
  <2> QED
    BY <2>1, OneScanStays DEF ScanAt, ImportAt
<1>3. ASSUME MainEnabled PROVE \A w \in 1 .. MaxWriters : ~ScanAt(w)
  BY <1>3 DEF MainEnabled, OneScanInv
<1>4. CASE \/ OpenConf \/ CloseConf
           \/ \E i \in 1 .. Cap : SelectSession(i)
           \/ RefreshSessions \/ DeleteSession \/ DeleteAllSessions
           \/ (\E file \in Files : LoadSession(file))
  <2>1. writer' = writer /\ \A w \in 1 .. MaxWriters : ~ScanAt(w)
    BY <1>3, <1>4
    DEF OpenConf, CloseConf, Scanning, SelectSession, RefreshSessions,
        DeleteSession, DeleteAllSessions, LoadSession
  <2> QED
    BY <2>1, OneScanStays DEF ScanAt
<1>5. ASSUME NEW w \in Writers, StartImport(w) PROVE OneScanInv'
  <2>1. PICK new : writer' = [writer EXCEPT ![w] = new] /\ new.kind = "import"
    BY <1>5, BeginIs DEF Begins
  <2>2. \A v \in 1 .. MaxWriters : ~ScanAt(v)
    BY <1>3, <1>5 DEF StartImport
  <2> QED
    BY <1>1, <2>1, <2>2, OneScanStays DEF ScanAt
<1>6. ASSUME NEW w \in Writers, EndScan(w) \/ KillScan(w) PROVE OneScanInv'
  <2>1. ScanAt(w)
    BY <1>6 DEF EndScan, KillScan, WriterAt, ScanAt
  <2>2. /\ writer'[w].pc \in {"done", "escaped"}
        /\ \A v \in 1 .. MaxWriters : v # w => writer'[v] = writer[v]
    BY <1>1, <1>6 DEF EndScan, KillScan, WriterAt, WriterRecords
  <2>3. \A v \in 1 .. MaxWriters : ~ScanAt(v)'
    BY <2>1, <2>2 DEF OneScanInv, ScanAt
  <2> QED
    BY <2>3, OneScanStays
<1>7. ASSUME NEW w \in Writers, ScanRow(w) \/ ImportRow(w) PROVE OneScanInv'
  <2>1. /\ writer' = writer
        /\ UNCHANGED <<db, nb_session, session, current_session_id, h_conf>>
    BY <1>1, <1>7 DEF ScanRow, ImportRow, WriterAt, listVars, windowVars
  <2> QED
    BY <2>1, OneScanStays DEF ScanAt, ImportAt
<1>8. ASSUME NEW w \in Writers, EndImport(w) PROVE OneScanInv'
  <2>1. /\ writer[w].kind = "import"
        /\ writer' = [writer EXCEPT ![w] = [writer[w] EXCEPT !.pc = "done"]]
        /\ UNCHANGED <<db, nb_session, session, current_session_id, h_conf>>
    BY <1>8 DEF EndImport, WriterAt, tableVars, listVars, windowVars
  <2>2. /\ writer'[w].pc = "done"
        /\ \A v \in 1 .. MaxWriters : v # w => writer'[v] = writer[v]
    BY <1>1, <2>1 DEF WriterRecords
  <2> QED
    BY <2>1, <2>2, OneScanStays DEF ScanAt, ImportAt
<1>9. ASSUME NEW w \in Writers, AddScanSession(w) PROVE OneScanInv'
  <2>1. /\ h_conf /\ h_conf' = h_conf /\ \A v \in 1 .. MaxWriters : ~ScanAt(v)
        /\ AddSession /\ current_session_id' = Number(now) /\ now' = now
    BY <1>9 DEF AddScanSession, Scanning, windowVars
  <2>2. /\ db' = db \union {Number(now)} /\ nb_session' >= 1
        /\ \A i \in 1 .. nb_session' : session'[i] \in db'
        /\ Fresh => session'[nb_session'] = Number(now)
    BY <2>1, AddSessionIs
  <2>3. PICK new \in WriterRecords :
          /\ writer' = [writer EXCEPT ![w] = new]
          /\ new.kind = "scan" /\ new.pc = "begin" /\ new.at = {}
          /\ new.id = Number(now) /\ new.fresh = Fresh /\ new.alone = ~Importing
    BY <1>9, BeginIs DEF Begins
  <2>4. /\ writer'[w] = new
        /\ \A v \in 1 .. MaxWriters : v # w => writer'[v] = writer[v]
    BY <1>1, <2>3
  <2>5. \A v \in (1 .. MaxWriters) \ {w} : ~ScanAt(v)'
    BY <2>1, <2>4 DEF ScanAt
  <2>6. new.alone => \A v \in 1 .. MaxWriters : ~ImportAt(v)'
    BY <2>3, <2>4 DEF Importing, ImportAt
  <2>7. \A n \in writer'[w].at \union {current_session_id'} :
          n = Number(now) /\ Listed(w, n)'
    BY <2>1, <2>2, <2>3, <2>4 DEF Listed
  <2> QED
    BY <2>1, <2>2, <2>3, <2>4, <2>5, <2>6, <2>7 DEF OneScanInv
<1>10. ASSUME NEW w \in Writers, TakeLastSession(w) \/ TestBegins(w),
              writer[w].pc # "escaped"
       PROVE  OneScanInv'
  <2>1. ScanAt(w)
    BY <1>10 DEF TakeLastSession, TestBegins, WriterAt, ScanAt
  <2>2. UNCHANGED <<db, nb_session, session, h_conf>>
    BY <1>10 DEF TakeLastSession, TestBegins, tableVars, listVars, windowVars
  <2>3. PICK new \in WriterRecords :
          writer' = [writer EXCEPT ![w] = new] /\ Kept(writer[w], new)
    BY <1>10, ScansTurn DEF Turns
  <2>4. /\ writer'[w] = new
        /\ \A v \in 1 .. MaxWriters : v # w => writer'[v] = writer[v]
    BY <1>1, <2>3
  <2>5. /\ new.pc = "write" /\ new.kind = "scan" /\ new.id = writer[w].id
        /\ new.fresh = writer[w].fresh /\ new.alone = writer[w].alone
    <3>1. CASE TakeLastSession(w)
      <4>1. new = [writer[w] EXCEPT !.pc = "write", !.at = {session[nb_session]}]
        BY <1>1, <2>4, <3>1 DEF TakeLastSession, WriterAt
      <4>2. writer[w] \in WriterRecords
        BY <1>1
      <4> QED
        BY <2>1, <4>1, <4>2 DEF ScanAt, WriterRecords
    <3>2. CASE TestBegins(w)
      <4>1. new = [writer[w] EXCEPT !.at = @ \union {current_session_id}]
            /\ writer[w].pc = "write"
        BY <1>1, <1>10, <2>4, <3>2 DEF TestBegins, WriterAt
      <4>2. writer[w] \in WriterRecords
        BY <1>1
      <4> QED
        BY <2>1, <4>1, <4>2 DEF ScanAt, WriterRecords
    <3> QED
      BY <1>10, <3>1, <3>2
  <2>6. \/ /\ writer[w].pc = "begin"
           /\ new.at = {session[nb_session]}
           /\ current_session_id' = session[nb_session]
        \/ /\ new.at = writer[w].at \union {current_session_id}
           /\ current_session_id' = current_session_id
    BY <1>1, <1>10, <2>4
    DEF TakeLastSession, TestBegins, WriterAt, WriterRecords
  <2>7. /\ h_conf /\ \A v \in (1 .. MaxWriters) \ {w} : ~ScanAt(v)
        /\ writer[w].alone => \A v \in 1 .. MaxWriters : ~ImportAt(v)
        /\ nb_session >= 1 /\ \A i \in 1 .. nb_session : session[i] \in db
        /\ \A n \in writer[w].at \union {current_session_id} : Listed(w, n)
        /\ writer[w].fresh /\ writer[w].alone =>
             /\ \A n \in writer[w].at \union {current_session_id} :
                  n = writer[w].id
             /\ writer[w].pc = "begin" => session[nb_session] = writer[w].id
    BY <2>1 DEF OneScanInv
  <2>8. /\ \A v \in (1 .. MaxWriters) \ {w} : ~ScanAt(v)'
        /\ new.alone => \A v \in 1 .. MaxWriters : ~ImportAt(v)'
    BY <2>4, <2>5, <2>7 DEF ScanAt, ImportAt
  <2>9. session[nb_session] \in db
    BY <2>7 DEF ListInv
  <2>10. \A n \in new.at \union {current_session_id'} : Listed(w, n)'
    BY <2>2, <2>4, <2>5, <2>6, <2>7, <2>9 DEF Listed
  <2>11. new.fresh /\ new.alone =>
           \A n \in new.at \union {current_session_id'} : n = new.id
    BY <2>5, <2>6, <2>7
  <2> QED
    BY <2>2, <2>4, <2>5, <2>7, <2>8, <2>10, <2>11 DEF OneScanInv
<1>11. ASSUME NEW w \in Writers, TestBegins(w), writer[w].pc = "escaped"
       PROVE  OneScanInv'
  <2>1. UNCHANGED <<db, nb_session, session, current_session_id, h_conf>>
    BY <1>11 DEF TestBegins, tableVars, listVars, windowVars
  <2>2. PICK new \in WriterRecords :
          writer' = [writer EXCEPT ![w] = new] /\ Kept(writer[w], new)
    BY <1>11, ScansTurn DEF Turns
  <2>3. new.pc = "escaped" /\ new.kind = "scan"
    BY <1>11, <2>2 DEF Kept, ScanTurns, TestBegins, WriterAt
  <2>4. /\ writer'[w] = new
        /\ \A v \in 1 .. MaxWriters : v # w => writer'[v] = writer[v]
    BY <1>1, <2>2
  <2> QED
    BY <2>1, <2>3, <2>4, OneScanStays DEF ScanAt, ImportAt
<1>12. ASSUME NEW w \in Writers, TakeLastSession(w) \/ TestBegins(w)
       PROVE  OneScanInv'
  <2>1. CASE writer[w].pc = "escaped"
    BY <1>11, <1>12, <2>1 DEF TakeLastSession, WriterAt
  <2>2. CASE writer[w].pc # "escaped"
    BY <1>10, <1>12, <2>2
  <2> QED
    BY <2>1, <2>2
<1>13. ASSUME NEW w \in Writers,
              ImportAsk(w) \/ ImportYes(w) \/ ImportNo(w)
       PROVE  OneScanInv'
  BY <1>13, ImportBeside
<1> QED
  BY <1>2, <1>4, <1>5, <1>6, <1>7, <1>8, <1>9, <1>12, <1>13 DEF SessionsNext

(* What a writer of rows is does not change, but that its tests escape.    *)
LEMMA WrittenByKept ==
  ASSUME ListInv, WritersInv, OneScanInv, [SessionsNext]_sessionsVars
  PROVE  \A r \in rows : r.by # 0 =>
           /\ r.by \in 1 .. MaxWriters
           /\ writer'[r.by].kind = writer[r.by].kind
           /\ writer'[r.by].fresh = writer[r.by].fresh
           /\ writer'[r.by].alone = writer[r.by].alone
           /\ writer[r.by].kind = "scan" => writer'[r.by].id = writer[r.by].id
           /\ writer[r.by].pc = "escaped" => writer'[r.by].pc = "escaped"
<1> USE DEF Writers
<1>1. /\ writer \in [1 .. MaxWriters -> WriterRecords]
      /\ \A r \in rows : r.by # 0 =>
           r.by \in 1 .. MaxWriters /\ writer[r.by].pc \in Wrote
  BY SessionsBounds DEF WritersInv
<1> SUFFICES ASSUME NEW v \in 1 .. MaxWriters, writer[v].pc \in Wrote
             PROVE  /\ writer'[v].kind = writer[v].kind
                    /\ writer'[v].fresh = writer[v].fresh
                    /\ writer'[v].alone = writer[v].alone
                    /\ writer[v].kind = "scan" => writer'[v].id = writer[v].id
                    /\ writer[v].pc = "escaped" => writer'[v].pc = "escaped"
  BY <1>1
<1>2. CASE writer' = writer
  BY <1>2
<1>3. ASSUME NEW w \in Writers, Turns(w)
      PROVE  writer'[v] = writer[v] \/ Kept(writer[v], writer'[v])
  BY <1>1, <1>3 DEF Turns
<1>4. ASSUME NEW w \in Writers,
             Begins(w, "scan", "begin") \/ Begins(w, "import", "load")
      PROVE  writer'[v] = writer[v]
  <2>1. writer[w].pc = "none" /\ \E new : writer' = [writer EXCEPT ![w] = new]
    BY <1>4 DEF Begins
  <2> QED
    BY <1>1, <2>1 DEF Wrote
<1>5. ASSUME Kept(writer[v], writer'[v])
      PROVE  /\ writer'[v].kind = writer[v].kind
             /\ writer'[v].fresh = writer[v].fresh
             /\ writer'[v].alone = writer[v].alone
             /\ writer[v].kind = "scan" => writer'[v].id = writer[v].id
             /\ writer[v].pc = "escaped" => writer'[v].pc = "escaped"
  BY <1>5 DEF Kept, ScanTurns, ImportTurns
<1> QED
  BY <1>2, <1>3, <1>4, <1>5, WriterMoves

(* The table loses a session only with its rows.                           *)
LEMMA TableKeeps ==
  ASSUME [SessionsNext]_sessionsVars
  PROVE  \A r \in rows' : r \in rows /\ r.session \in db => r.session \in db'
<1>1. ASSUME NEW w \in Writers,
             \/ AddScanSession(w) \/ TakeLastSession(w) \/ TestBegins(w)
             \/ ScanRow(w) \/ EndScan(w) \/ KillScan(w)
             \/ StartImport(w) \/ ImportAsk(w) \/ ImportYes(w) \/ ImportNo(w)
             \/ ImportRow(w) \/ EndImport(w)
      PROVE  db \subseteq db'
  BY <1>1
  DEF AddScanSession, TakeLastSession, TestBegins, ScanRow, EndScan, KillScan,
      StartImport, ImportAsk, ImportYes, ImportNo, ImportRow, EndImport,
      tableVars, AddSession
<1>2. CASE DeleteSession
  BY <1>2 DEF DeleteSession
<1>3. CASE DeleteAllSessions
  BY <1>3 DEF DeleteAllSessions
<1>4. CASE \/ Tick \/ OpenConf \/ CloseConf
           \/ (\E i \in 1 .. Cap : SelectSession(i)) \/ RefreshSessions
           \/ (\E file \in Files : LoadSession(file)) \/ UNCHANGED sessionsVars
  <2>1. db \subseteq db'
    BY <1>4 DEF Tick, OpenConf, CloseConf, SelectSession, RefreshSessions,
                LoadSession, sessionsVars, tableVars
  <2> QED
    BY <2>1
<1> QED
  BY <1>1, <1>2, <1>3, <1>4 DEF SessionsNext

LEMMA RowsListedStep ==
  ASSUME ListInv, WritersInv, OneScanInv, ScanRowsListed,
         [SessionsNext]_sessionsVars
  PROVE  ScanRowsListed'
<1> SUFFICES ASSUME NEW r \in rows', r.by # 0, writer'[r.by].kind = "scan",
                    writer'[r.by].pc # "escaped"
             PROVE  r.session \in db' \/ (r.session = 0 /\ ~writer'[r.by].alone)
  BY DEF ScanRowsListed
<1>1. CASE r \in rows
  <2>1. /\ writer[r.by].kind = "scan" /\ writer[r.by].pc # "escaped"
        /\ writer'[r.by].alone = writer[r.by].alone
    BY <1>1, WrittenByKept
  <2>2. r.session \in db \/ (r.session = 0 /\ ~writer[r.by].alone)
    BY <1>1, <2>1 DEF ScanRowsListed
  <2> QED
    BY <1>1, <2>1, <2>2, TableKeeps
<1>2. CASE r \notin rows
  <2>1. /\ r.by \in 1 .. MaxWriters /\ UNCHANGED <<db, writer>>
        /\ writer[r.by].kind = "scan" /\ writer[r.by].pc = "write"
        /\ r.session \in writer[r.by].at \union {current_session_id}
    BY <1>2, RowsAre
  <2>2. Listed(r.by, r.session)
    BY <2>1 DEF OneScanInv, ScanAt
  <2> QED
    BY <2>1, <2>2 DEF Listed
<1> QED
  BY <1>1, <1>2

(* A scan that works and owns its session did so before, or begins.        *)
LEMMA OwnerBegins ==
  ASSUME ListInv, WritersInv, OneScanInv, [SessionsNext]_sessionsVars,
         NEW w \in 1 .. MaxWriters, ScanAt(w)', Own(w)'
  PROVE  \/ ScanAt(w) /\ Own(w) /\ writer'[w].id = writer[w].id
         \/ writer'[w].id = Number(now) /\ Fresh
<1> USE DEF Writers
<1>1. writer \in [1 .. MaxWriters -> WriterRecords]
  BY DEF WritersInv
<1>2. CASE writer'[w] = writer[w]
  BY <1>2 DEF ScanAt, Own
<1>3. ASSUME NEW v \in Writers, Turns(v)
      PROVE  writer'[w] = writer[w] \/ Kept(writer[w], writer'[w])
  BY <1>1, <1>3 DEF Turns
<1>4. CASE Kept(writer[w], writer'[w])
  BY <1>4 DEF Kept, ScanTurns, ScanAt, Own
<1>5. ASSUME NEW v \in Writers,
             Begins(v, "scan", "begin") \/ Begins(v, "import", "load")
      PROVE  writer'[w] = writer[w] \/ (writer'[w].id = Number(now) /\ Fresh)
  <2>1. PICK new : /\ writer' = [writer EXCEPT ![v] = new]
                   /\ new.fresh => new.id = Number(now) /\ Fresh
    BY <1>5 DEF Begins
  <2> QED
    BY <1>1, <2>1 DEF Own
<1> QED
  BY <1>2, <1>3, <1>4, <1>5, WriterMoves

(* A row by a scan that owns its session.                                  *)
LEMMA OwnStep ==
  ASSUME ListInv, WritersInv, OneScanInv, OwnInv,
         ScanRowsListed, [SessionsNext]_sessionsVars
  PROVE  OwnInv'
<1>1. ASSUME NEW r \in rows, ByOwner(r)'
      PROVE  /\ ByOwner(r) /\ writer'[r.by].id = writer[r.by].id
             /\ r.by \in 1 .. MaxWriters /\ writer[r.by].kind = "scan"
  <2>1. /\ r.by # 0 /\ r.by \in 1 .. MaxWriters /\ ByOwner(r)
    BY <1>1, WrittenByKept DEF ByOwner, Own
  <2>2. writer[r.by].kind = "scan"
    BY <2>1 DEF ByOwner, Own, WritersInv
  <2> QED
    BY <1>1, <2>1, <2>2, WrittenByKept
<1>2. ASSUME NEW r \in rows', ByOwner(r)', r \notin rows
      PROVE  /\ r.by \in 1 .. MaxWriters /\ UNCHANGED <<db, writer>>
             /\ ScanAt(r.by) /\ Own(r.by)
             /\ r.session = writer[r.by].id
  <2>1. /\ r.by \in 1 .. MaxWriters /\ UNCHANGED <<db, writer>>
        /\ \/ /\ writer[r.by].kind = "scan"
              /\ writer[r.by].pc \in {"write", "escaped"}
              /\ r.session \in writer[r.by].at \union {current_session_id}
           \/ writer[r.by].kind = "import"
    BY <1>2, RowsAre DEF ByOwner
  <2>2. Own(r.by)
    BY <1>2, <2>1 DEF ByOwner, Own
  <2>3. writer[r.by].kind = "scan" /\ writer[r.by].pc # "escaped"
    BY <2>1, <2>2 DEF WritersInv, Own
  <2>4. ScanAt(r.by)
    BY <2>1, <2>3 DEF ScanAt
  <2> QED
    BY <2>1, <2>2, <2>3, <2>4 DEF OneScanInv, Own
<1>3. \A r \in rows' : ByOwner(r)' => r.session = writer'[r.by].id
  BY <1>1, <1>2 DEF OwnInv
<1>4. ASSUME NEW r \in rows', NEW s \in rows',
             ByOwner(r)', ByOwner(s)', r.session = s.session
      PROVE  r.by = s.by
  <2>1. CASE r \in rows /\ s \in rows
    BY <1>1, <1>4, <2>1 DEF OwnInv
  <2>2. CASE r \notin rows /\ s \in rows
    BY <1>1, <1>2, <1>4, <2>2 DEF OwnInv
  <2>3. CASE r \in rows /\ s \notin rows
    BY <1>1, <1>2, <1>4, <2>3 DEF OwnInv
  <2>4. CASE r \notin rows /\ s \notin rows
    BY <1>2, <1>4, <2>4 DEF OneScanInv
  <2> QED
    BY <2>1, <2>2, <2>3, <2>4
<1>5. ASSUME NEW w \in 1 .. MaxWriters, ScanAt(w)', Own(w)',
             NEW r \in rows', ByOwner(r)', r.by # w
      PROVE  r.session # writer'[w].id
  <2>1. CASE r \notin rows
    <3>1. ScanAt(r.by) /\ writer' = writer /\ r.by \in 1 .. MaxWriters
      BY <1>2, <1>5, <2>1
    <3> QED
      BY <1>5, <3>1 DEF OneScanInv, ScanAt
  <2>2. CASE r \in rows
    <3>1. \/ ScanAt(w) /\ Own(w) /\ writer'[w].id = writer[w].id
          \/ writer'[w].id = Number(now) /\ Fresh
      BY <1>5, OwnerBegins
    <3>2. CASE ScanAt(w) /\ Own(w) /\ writer'[w].id = writer[w].id
      BY <1>1, <1>5, <2>2, <3>2 DEF OwnInv
    <3>3. CASE writer'[w].id = Number(now) /\ Fresh
      <4>1. ByOwner(r) /\ writer[r.by].kind = "scan"
        BY <1>1, <1>5, <2>2
      <4>2. r.session \in db
        BY <2>2, <4>1 DEF ScanRowsListed, ByOwner, Own
      <4>3. r.session < Number(now) /\ r.session \in Int
        BY <3>3, <4>2 DEF Fresh, ListInv
      <4> QED
        BY <3>3, <4>3
    <3> QED
      BY <3>1, <3>2, <3>3
  <2> QED
    BY <2>1, <2>2
<1> QED
  BY <1>3, <1>4, <1>5 DEF OwnInv

LEMMA SessionsInitially ==
  ASSUME SessionsInit
  PROVE  SessionInv
<1>1. ListInv
  BY FS_EmptySet, EmptySeq, SessionsBounds DEF SessionsInit, ListInv
<1>2. \A w \in 1 .. MaxWriters : writer[w] = NoWriter
  BY DEF SessionsInit, Writers
<1>3. NoWriter \in WriterRecords /\ NoWriter.pc = "none" /\ ~NoWriter.fresh
  BY DEF WriterRecords, NoWriter
<1>4. WritersInv
  <2>1. /\ writer \in [1 .. MaxWriters -> WriterRecords] /\ rows = {}
        /\ current_session_id \in Int
    BY <1>3 DEF SessionsInit, Writers
  <2> QED
    BY <1>2, <1>3, <2>1 DEF WritersInv
<1>5. \A w \in 1 .. MaxWriters : ~ScanAt(w)
  BY <1>2, <1>3 DEF ScanAt
<1>6. OneScanInv /\ OwnInv /\ ScanRowsListed
  BY <1>5 DEF SessionsInit, OneScanInv, OwnInv, ScanRowsListed
<1> QED
  BY <1>1, <1>4, <1>6 DEF SessionInv

LEMMA SessionInvHolds ==
  SessionsSpec => []SessionInv
<1>1. SessionsInit => SessionInv
  BY SessionsInitially
<1>2. SessionInv /\ [SessionsNext]_sessionsVars => SessionInv'
  BY ListStep, WritersStep, OneScanStep, RowsListedStep, OwnStep DEF SessionInv
<1> QED
  BY <1>1, <1>2, PTL DEF SessionsSpec

(* Whatever is deleted, merged from files or numbered alike, what a scan   *)
(* wrote stays reachable under a session of the table -- or is under none, *)
(* if an import was beside it, which makes 0 the current session. Scans    *)
(* with a test that outlived the dialog are left out.                      *)
THEOREM ScansRowsAreListed ==
  SessionsSpec => []ScanRowsListed
<1>1. SessionInv => ScanRowsListed
  BY DEF SessionInv
<1> QED
  BY <1>1, SessionInvHolds, PTL

(* A scan whose number was the greatest when it began, with room for it in *)
(* the array, no import beside it, not even one loading its file, and no   *)
(* test that outlived the dialog, writes into the session made for it,     *)
(* which no other such scan writes into.                                   *)
THEOREM ScansOwnTheirSessions ==
  SessionsSpec => []ScanOwnsSession
<1>1. SessionInv => ScanOwnsSession
  BY DEF SessionInv, OwnInv, ByOwner, ScanOwnsSession
<1> QED
  BY <1>1, SessionInvHolds, PTL

(* Outside the time between the deletion of all sessions and the next      *)
(* reading from the start, an entry of the combo box selects its own       *)
(* session.                                                                *)
THEOREM EntriesAreSessions ==
  SessionsSpec => []EntryIsSession
<1>1. ListInv => EntryIsSession
  BY SessionsBounds DEF ListInv, EntryIsSession
<1>2. SessionInv => EntryIsSession
  BY <1>1 DEF SessionInv
<1> QED
  BY <1>2, SessionInvHolds, PTL
=============================================================================
