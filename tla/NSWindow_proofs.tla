--------------------------- MODULE NSWindow_proofs ---------------------------
(***************************************************************************)
(* Proofs about the runs of NS's window, for any number of runs, addresses *)
(* and permits: as long as no run has reached into another one in one of   *)
(* the named ways, rows stay, the limit of threads is kept, handles stay   *)
(* open for who needs them, and runs do not overlap.                       *)
(***************************************************************************)
EXTENDS NSWindow, FiniteSetTheorems, TLAPS

(* Where a coordinator is while its workers are at work, and where it has  *)
(* its list to itself.                                                     *)
Live == {"spawn", "acquire", "branch", "poll", "drain"}

Mid == Live \union {"load", "close", "buttons"}

Before == {"none", "init", "boot", "list", "load", "spawn", "acquire", "branch"}

(* The types, and what a coordinator's counts are at each of its points.   *)
PointsInv ==
  /\ \A k \in Runs :
       /\ pc[k] = "acquire" => made[k] < NbIp
       /\ pc[k] \in Before => taken[k] = 0
       /\ pc[k] = "drain" => taken[k] < Limit
  /\ \A w \in Workers :
       /\ wst[w] # "none" => w[2] <= made[w[1]]
       /\ wst[w] = "none" => row[w] = "none"

CountsInv == TypeOK /\ PointsInv

Ended == {w \in Workers : w[1] = gen /\ wst[w] = "done"}

(* One run at a time, with nobody loading a list beside it.                *)
OneRun ==
  /\ \A j, k \in Runs : Busy(j) /\ Busy(k) => j = k
  /\ loader # "none" => \A k \in Runs : ~Busy(k)

(* The buttons say so: while a run is under way, one of them is Stop, or   *)
(* none can be clicked.                                                    *)
ButtonsInv ==
  window = "open" =>
    /\ pc[0] \in {"boot", "list"} => scan_start
    /\ \A k \in Runs : pc[k] \in Mid =>
         ~(startOn /\ reOn) /\ (startOn \/ reOn => scan_start)

(* The semaphores are those of the run under way, and only its workers are *)
(* at work.                                                                *)
HandlesInv ==
  /\ \A k \in Runs :
       /\ pc[k] \in Live => gen = k /\ open[k]
       /\ pc[k] \in {"acquire", "drain"} => hs[k] = k
  /\ \A w \in Testing : pc[w[1]] \in Live

(* Permits are free, with a worker, drained or lost; and the counter of    *)
(* tested addresses is not ahead of the workers that ended.                *)
PermitsInv ==
  /\ \A k \in Runs :
       pc[k] \in Live => sem[k] + taken[k] + Cardinality(Testing) <= Limit
  /\ nb_test_ip <= Cardinality(Ended)

CalmInv == OneRun /\ ButtonsInv /\ HandlesInv /\ PermitsInv /\ RowsStay

WindowInv == CountsInv /\ (Calm => CalmInv)
-----------------------------------------------------------------------------
(* Types and counts: no bound is ever passed, calm or not.                 *)

LEMMA InitCounts == Init => CountsInv
<1> SUFFICES ASSUME Init PROVE CountsInv
  OBVIOUS
<1> USE BoundsAssumption
<1>1. 0 \in Runs /\ 0 \in 0 .. NbIp /\ 0 \in 0 .. Limit
  BY DEF Runs
<1>2. TypeOK
  BY <1>1 DEF Init, TypeOK, RunPcs, Leaks
<1> QED
  BY <1>1, <1>2 DEF Init, CountsInv, PointsInv, Before

(* A coordinator goes to a point for which its counts are right.           *)
LEMMA MoveCounts ==
  ASSUME CountsInv, NEW k \in Runs, NEW to \in RunPcs,
         pc' = [pc EXCEPT ![k] = to],
         UNCHANGED <<made, wst>>, MoveRows \/ UNCHANGED row,
         \A j \in Runs \ {k} : taken'[j] = taken[j],
         to = "acquire" => made[k] < NbIp,
         to \in Before => taken'[k] = 0,
         to = "drain" => taken'[k] < Limit
  PROVE  pc' \in [Runs -> RunPcs] /\ PointsInv'
<1>1. /\ pc' \in [Runs -> RunPcs]
      /\ pc'[k] = to
      /\ \A j \in Runs \ {k} : pc'[j] = pc[j]
  BY DEF CountsInv, TypeOK
<1>2. \A j \in Runs :
        /\ pc'[j] = "acquire" => made'[j] < NbIp
        /\ pc'[j] \in Before => taken'[j] = 0
        /\ pc'[j] = "drain" => taken'[j] < Limit
  BY <1>1 DEF CountsInv, PointsInv
<1>3. \A w \in Workers :
        /\ wst'[w] # "none" => w[2] <= made'[w[1]]
        /\ wst'[w] = "none" => row'[w] = "none"
  BY DEF CountsInv, PointsInv, TypeOK, MoveRows
<1> QED
  BY <1>1, <1>2, <1>3 DEF PointsInv

(* The clicks and load_file_ip.                                            *)
LEMMA GuiCounts ==
  ASSUME CountsInv, DlgMain \/ Loader
  PROVE  CountsInv'
<1> USE DEF TypeOK, MoveRows, buttonVars, runVars, semVars, workerVars
<1>1. ASSUME NEW k \in Runs, NEW what \in {"scan", "extract"}, Begin(k, what),
             UNCHANGED <<startOn, reOn>> \/ (reOn' = FALSE /\ UNCHANGED startOn)
               \/ (startOn' = FALSE /\ UNCHANGED reOn)
      PROVE  CountsInv'
  <2>1. /\ pc' = [pc EXCEPT ![k] = "load"] /\ pc[k] = "none"
        /\ UNCHANGED <<made, wst, taken>>
    BY <1>1 DEF Begin, Unused
  <2>2. taken[k] = 0 /\ MoveRows
    BY <1>1, <2>1 DEF Begin, CountsInv, PointsInv, Before
  <2>3. pc' \in [Runs -> RunPcs] /\ PointsInv'
    BY <2>1, <2>2, MoveCounts DEF RunPcs
  <2>4. kind' \in [Runs -> {"none", "boot", "scan", "extract", "auto"}]
    BY <1>1 DEF Begin, CountsInv
  <2>5. row' \in [Workers -> {"none", "valid", "stale"}]
    BY <1>1 DEF Begin, CountsInv
  <2>6. leaks' \subseteq Leaks
    BY <1>1 DEF Begin, CountsInv, Leaks, EarlyClick
  <2> QED
    BY <1>1, <2>3, <2>4, <2>5, <2>6 DEF Begin, CountsInv
<1>2. CASE Stop \/ CheckLoad \/ Close
  <2>1. leaks' \subseteq Leaks
    BY <1>2 DEF Stop, CheckLoad, Close, CountsInv, Leaks, EarlyClick
  <2> QED
    BY <1>2, <2>1 DEF Stop, CheckLoad, Close, CountsInv, PointsInv
<1>3. CASE Sort
  BY <1>3 DEF Sort, CountsInv, PointsInv
<1>4. CASE Loader
  BY <1>4 DEF Loader, LoadBegin, LoadFile, LoadEnd, CountsInv, PointsInv
<1> QED
  BY <1>1, <1>2, <1>3, <1>4 DEF DlgMain, StartScan, StartExtract

(* Thread auto_scan.                                                       *)
LEMMA AutoCounts ==
  ASSUME CountsInv, AutoScan
  PROVE  CountsInv'
<1>0. 0 \in Runs
  BY BoundsAssumption DEF Runs
<1> USE DEF TypeOK, MoveRows, buttonVars, runVars, semVars, workerVars
<1>1. /\ pc' \in [Runs -> RunPcs] /\ PointsInv'
  <2>1. PICK from \in RunPcs, to \in RunPcs :
          /\ pc[0] = from /\ pc' = [pc EXCEPT ![0] = to]
          /\ to \in {"boot", "clear", "done", "list", "load", "auto_clear",
                     "auto_start"}
          /\ to \in Before => from \in Before
    BY DEF AutoScan, BootBegin, BootManual, BootList, BootScan, AutoEnd, At,
           RunPcs, Before
  <2>2. UNCHANGED <<made, wst, taken>> /\ (MoveRows \/ UNCHANGED row)
    BY DEF AutoScan, BootBegin, BootManual, BootList, BootScan, AutoEnd
  <2>3. to \in Before => taken[0] = 0
    BY <1>0, <2>1 DEF CountsInv, PointsInv
  <2> QED
    BY <1>0, <2>1, <2>2, <2>3, MoveCounts
<1>2. CASE BootBegin
  BY <1>1, <1>2 DEF BootBegin, CountsInv
<1>3. CASE BootManual \/ BootList
  BY <1>1, <1>3 DEF BootManual, BootList, CountsInv
<1>4. CASE BootScan
  <2>1. leaks' \subseteq Leaks
    BY <1>4 DEF BootScan, CountsInv, Leaks
  <2> QED
    BY <1>0, <1>1, <1>4, <2>1 DEF BootScan, CountsInv
<1>5. CASE AutoEnd
  BY <1>1, <1>5 DEF AutoEnd, CountsInv
<1> QED
  BY <1>2, <1>3, <1>4, <1>5 DEF AutoScan

(* A coordinator.                                                          *)
LEMMA CoordinatorCounts ==
  ASSUME CountsInv, NEW k \in Runs, Coordinator(k)
  PROVE  CountsInv'
<1> USE BoundsAssumption
    DEF TypeOK, At, buttonVars, runVars, semVars, workerVars
<1>1. CASE Create(k)
  <2>1. pc' \in [Runs -> RunPcs] /\ PointsInv'
    BY <1>1, MoveCounts DEF Create, RunPcs, Before, CountsInv, PointsInv
  <2> QED
    BY <1>1, <2>1 DEF Create, CountsInv
<1>2. CASE NoDirectory(k) \/ PollDone(k) \/ PollTimeout(k)
  <2>1. pc' \in [Runs -> RunPcs] /\ PointsInv'
    BY <1>2, MoveCounts DEF NoDirectory, PollDone, PollTimeout, RunPcs, Before
  <2>2. leaks' \subseteq Leaks
    BY <1>2 DEF NoDirectory, PollDone, PollTimeout, CountsInv, Leaks
  <2> QED
    BY <1>2, <2>1, <2>2 DEF NoDirectory, PollDone, PollTimeout, CountsInv
<1>3. CASE SpawnTest(k) \/ Branch(k)
  <2>1. PICK to \in {"acquire", "branch", "drain", "poll"} :
          /\ pc' = [pc EXCEPT ![k] = to]
          /\ to = "acquire" => made[k] < NbIp
    BY <1>3 DEF SpawnTest, Branch
  <2>2. taken[k] = 0
    BY <1>3 DEF SpawnTest, Branch, CountsInv, PointsInv, Before
  <2>3. /\ to \in RunPcs
        /\ UNCHANGED <<made, wst, row, taken>>
        /\ to = "drain" => taken[k] < Limit
    BY <1>3, <2>1, <2>2 DEF SpawnTest, Branch, RunPcs
  <2>4. pc' \in [Runs -> RunPcs] /\ PointsInv'
    BY <2>1, <2>2, <2>3, MoveCounts
  <2> QED
    BY <1>3, <2>4 DEF SpawnTest, Branch, CountsInv
<1>4. CASE Spawn(k)
  <2>1. sem' \in [Runs -> 0 .. Limit]
    BY <1>4 DEF Spawn, Acquire, CountsInv
  <2>2. made[k] + 1 \in 1 .. NbIp /\ made' = [made EXCEPT ![k] = @ + 1]
    BY <1>4 DEF Spawn, CountsInv, PointsInv
  <2>3. <<k, made[k] + 1>> \in Workers /\ made'[k] = made[k] + 1
    BY <2>2 DEF Workers, CountsInv
  <2>4. wst' = [wst EXCEPT ![<<k, made[k] + 1>>] = "born"]
    BY <1>4, <2>3 DEF Spawn
  <2>5. \A w \in Workers :
          /\ wst'[w] # "none" => w[2] <= made'[w[1]]
          /\ wst'[w] = "none" => row'[w] = "none"
    BY <1>4, <2>2, <2>3, <2>4 DEF Spawn, Workers, CountsInv, PointsInv
  <2>6. pc' \in [Runs -> RunPcs] /\ pc'[k] = "spawn"
        /\ \A j \in Runs \ {k} : pc'[j] = pc[j]
    BY <1>4 DEF Spawn, CountsInv, RunPcs
  <2>7. /\ made' \in [Runs -> 0 .. NbIp] /\ \A j \in Runs \ {k} : made'[j] = made[j]
        /\ UNCHANGED taken
    BY <1>4, <2>2 DEF Spawn, CountsInv
  <2>8. \A j \in Runs :
          /\ pc'[j] = "acquire" => made'[j] < NbIp
          /\ pc'[j] \in Before => taken'[j] = 0
          /\ pc'[j] = "drain" => taken'[j] < Limit
    BY <1>4, <2>6, <2>7 DEF Spawn, Before, CountsInv, PointsInv
  <2> QED
    BY <1>4, <2>1, <2>3, <2>4, <2>5, <2>6, <2>7, <2>8
    DEF Spawn, CountsInv, PointsInv
<1>5. CASE Drain(k)
  <2>1. sem' \in [Runs -> 0 .. Limit]
    BY <1>5 DEF Drain, Acquire, CountsInv
  <2>2. /\ taken[k] + 1 \in 0 .. Limit
        /\ taken' = [taken EXCEPT ![k] = @ + 1]
    BY <1>5 DEF Drain, CountsInv, PointsInv
  <2>3. /\ taken'[k] = taken[k] + 1 /\ UNCHANGED <<made, wst, row>>
        /\ \A j \in Runs \ {k} : taken'[j] = taken[j]
    BY <1>5, <2>2 DEF Drain, CountsInv
  <2>4. CASE taken[k] + 1 = Limit
    <3>1. pc' = [pc EXCEPT ![k] = "close"]
      BY <1>5, <2>4 DEF Drain
    <3>2. pc' \in [Runs -> RunPcs] /\ PointsInv'
      BY <2>3, <3>1, MoveCounts DEF RunPcs, Before
    <3> QED
      BY <1>5, <2>1, <2>2, <3>2 DEF Drain, CountsInv
  <2>5. CASE taken[k] + 1 # Limit
    <3>1. pc' = [pc EXCEPT ![k] = "drain"] /\ taken'[k] < Limit
      BY <1>5, <2>2, <2>3, <2>5 DEF Drain
    <3>2. pc' \in [Runs -> RunPcs] /\ PointsInv'
      BY <2>3, <3>1, MoveCounts DEF RunPcs, Before
    <3> QED
      BY <1>5, <2>1, <2>2, <3>2 DEF Drain, CountsInv
  <2> QED
    BY <2>4, <2>5
<1>6. CASE CloseHandles(k) \/ EnableStart(k) \/ EnableRe(k) \/ Clear(k)
  <2>1. pc' \in [Runs -> RunPcs] /\ PointsInv'
    BY <1>6, MoveCounts
    DEF CloseHandles, EnableStart, EnableRe, Clear, RunPcs, Before
  <2> QED
    BY <1>6, <2>1 DEF CloseHandles, EnableStart, EnableRe, Clear, CountsInv
<1> QED
  BY <1>1, <1>2, <1>3, <1>4, <1>5, <1>6 DEF Coordinator

(* A worker.                                                               *)
LEMMA WorkerCounts ==
  ASSUME CountsInv, NEW w \in Workers, Worker(w)
  PROVE  CountsInv'
<1> USE DEF CountsInv, TypeOK, PointsInv, GoOn,
        buttonVars, runVars, semVars, workerVars
<1>1. CASE Enter(w)
  BY <1>1 DEF Enter, Leaks
<1>2. CASE InsertRow(w)
  BY <1>2 DEF InsertRow
<1>3. CASE Release(w)
  <2>1. sem' \in [Runs -> 0 .. Limit]
    BY <1>3, BoundsAssumption DEF Release
  <2> QED
    BY <1>3, <2>1 DEF Release
<1>4. CASE Count(w)
  BY <1>4 DEF Count, Leaks
<1> QED
  BY <1>1, <1>2, <1>3, <1>4 DEF Worker

LEMMA CountsStep == CountsInv /\ [Next]_vars => CountsInv'
<1>1. CountsInv /\ (UNCHANGED vars \/ Over) => CountsInv'
  BY DEF CountsInv, TypeOK, PointsInv, Over, vars, buttonVars, runVars, semVars,
         workerVars
<1> QED
  BY <1>1, GuiCounts, AutoCounts, CoordinatorCounts, WorkerCounts DEF Next
-----------------------------------------------------------------------------
(* What steps do to the runs and to leaks.                                 *)

(* A coordinator moves from a point of a run under way.                    *)
LEMMA CoordinatorMoves ==
  ASSUME NEW k \in Runs, Coordinator(k) \/ (k = 0 /\ AutoScan)
  PROVE  /\ Busy(k) /\ \E to : pc' = [pc EXCEPT ![k] = to]
         /\ UNCHANGED <<loader, window>>
         /\ window = "open"
         /\ leaks \subseteq leaks'
<1> USE DEF At, Busy
<1>1. CASE k = 0 /\ AutoScan
  BY <1>1 DEF AutoScan, BootBegin, BootManual, BootList, BootScan, AutoEnd
<1>2. CASE Create(k) \/ NoDirectory(k) \/ SpawnTest(k) \/ Spawn(k) \/ Branch(k)
  BY <1>2 DEF Create, NoDirectory, SpawnTest, Spawn, Branch
<1>3. CASE PollDone(k) \/ PollTimeout(k) \/ Drain(k)
  BY <1>3 DEF PollDone, PollTimeout, Drain
<1>4. CASE CloseHandles(k) \/ EnableStart(k) \/ EnableRe(k) \/ Clear(k)
  BY <1>4 DEF CloseHandles, EnableStart, EnableRe, Clear
<1> QED
  BY <1>1, <1>2, <1>3, <1>4 DEF Coordinator

(* A worker moves no run.                                                  *)
LEMMA WorkerStays ==
  ASSUME NEW w \in Workers, Worker(w)
  PROVE  /\ UNCHANGED <<scan_start, buttonVars, runVars, gen, open, loader,
                        window>>
         /\ leaks \subseteq leaks'
BY DEF Worker, Enter, InsertRow, Release, Count, semVars

(* The window and the loader move none but the one that begins.            *)
LEMMA GuiStays ==
  ASSUME DlgMain \/ Loader
  PROVE  /\ leaks \subseteq leaks'
         /\ UNCHANGED <<made, taken, hs, semVars, wst, nb_test_ip>>
         /\ \/ UNCHANGED pc
            \/ \E k \in Runs, what \in {"scan", "extract"} : Begin(k, what)
<1>1. CASE Stop \/ Sort \/ CheckLoad \/ Close
  BY <1>1 DEF Stop, Sort, CheckLoad, Close, runVars, workerVars
<1>2. CASE Loader
  BY <1>2 DEF Loader, LoadBegin, LoadFile, LoadEnd, runVars, workerVars
<1>3. ASSUME NEW k \in Runs, StartScan(k) \/ StartExtract(k)
      PROVE  \E what \in {"scan", "extract"} : Begin(k, what)
  BY <1>3 DEF StartScan, StartExtract
<1>4. ASSUME NEW k \in Runs, NEW what, Begin(k, what)
      PROVE  /\ leaks \subseteq leaks'
             /\ UNCHANGED <<made, taken, hs, semVars, wst, nb_test_ip>>
  BY <1>4 DEF Begin
<1> QED
  BY <1>1, <1>2, <1>3, <1>4 DEF DlgMain

(* What went wrong is not forgotten.                                       *)
LEMMA CalmBefore == [Next]_vars /\ Calm' => Calm
<1>1. 0 \in Runs
  BY BoundsAssumption DEF Runs
<1>2. UNCHANGED vars \/ Over => leaks' = leaks
  BY DEF vars, Over
<1> QED
  BY <1>1, <1>2, CoordinatorMoves, WorkerStays, GuiStays DEF Next, Calm

(* In a calm state the other runs are not under way.                       *)
LEMMA OthersIdle ==
  ASSUME OneRun, NEW k \in Runs, Busy(k)
  PROVE  \A j \in Runs \ {k} : pc[j] \in {"none", "done"}
BY DEF OneRun, Busy

LEMMA LiveBusy ==
  ASSUME NEW k \in Runs
  PROVE  /\ pc[k] \in Live => pc[k] \in Mid
         /\ pc[k] \in Mid => Busy(k)
BY DEF Live, Mid, Busy

(* A run that begins calmly begins alone.                                  *)
LEMMA BeginAlone ==
  ASSUME NEW k \in Runs, NEW what, Begin(k, what), Calm'
  PROVE  /\ \A j \in Runs : ~Busy(j)
         /\ loader = "none"
BY DEF Begin, Calm

(* Nobody is at work while no run is where its workers are.                *)
LEMMA NobodyAtWork ==
  ASSUME HandlesInv, \A k \in Runs : pc[k] \notin Live
  PROVE  Testing = {}
BY DEF HandlesInv, Testing, Workers

LEMMA IdleNobody ==
  ASSUME OneRun, HandlesInv, NEW k \in Runs, Busy(k), pc[k] \notin Live
  PROVE  /\ \A j \in Runs : pc[j] \notin Live
         /\ Testing = {}
<1>1. \A j \in Runs : pc[j] \notin Live
  BY OthersIdle DEF Live
<1> QED
  BY <1>1, NobodyAtWork
-----------------------------------------------------------------------------
LEMMA OneRunStep ==
  ASSUME CountsInv, OneRun, [Next]_vars, Calm'
  PROVE  OneRun'
<1> USE DEF OneRun, Busy
<1>1. ASSUME NEW k \in Runs, NEW what \in {"scan", "extract"}, Begin(k, what)
      PROVE  OneRun'
  <2>1. \A j \in Runs \ {k} : pc'[j] \in {"none", "done"}
    BY <1>1, BeginAlone DEF Begin, CountsInv, TypeOK
  <2>2. loader' = "none"
    BY <1>1, BeginAlone DEF Begin
  <2> QED
    BY <2>1, <2>2
<1>2. ASSUME NEW k \in Runs, Coordinator(k) \/ (k = 0 /\ AutoScan)
      PROVE  OneRun'
  <2>1. PICK to : /\ Busy(k) /\ pc' = [pc EXCEPT ![k] = to]
                  /\ UNCHANGED loader
    BY <1>2, CoordinatorMoves
  <2>2. \A j \in Runs : Busy(j)' => Busy(j)
    BY <2>1 DEF CountsInv, TypeOK
  <2> QED
    BY <2>1, <2>2
<1>3. CASE CheckLoad
  <2>1. \A j \in Runs : ~Busy(j)
    BY <1>3 DEF CheckLoad, Calm
  <2> QED
    BY <1>3, <2>1 DEF CheckLoad, runVars
<1>4. CASE Stop \/ Sort \/ Close
  BY <1>4 DEF Stop, Sort, Close, runVars
<1>5. CASE Loader
  BY <1>5 DEF Loader, LoadBegin, LoadFile, LoadEnd, runVars
<1>6. ASSUME NEW w \in Workers, Worker(w)
      PROVE  OneRun'
  BY <1>6, WorkerStays DEF runVars
<1>7. CASE UNCHANGED vars \/ Over
  BY <1>7 DEF vars, Over, runVars
<1>8. 0 \in Runs
  BY BoundsAssumption DEF Runs
<1> QED
  BY <1>1, <1>2, <1>3, <1>4, <1>5, <1>6, <1>7, <1>8
  DEF Next, DlgMain, StartScan, StartExtract

LEMMA ButtonsStep ==
  ASSUME CountsInv, OneRun, ButtonsInv, [Next]_vars, Calm'
  PROVE  ButtonsInv'
<1> SUFFICES ASSUME window' = "open"
             PROVE  /\ pc'[0] \in {"boot", "list"} => scan_start'
                    /\ \A k \in Runs : pc'[k] \in Mid =>
                         /\ ~(startOn' /\ reOn')
                         /\ startOn' \/ reOn' => scan_start'
  BY DEF ButtonsInv
<1>0. 0 \in Runs /\ pc \in [Runs -> RunPcs]
  BY BoundsAssumption DEF Runs, CountsInv, TypeOK
<1>1. ASSUME NEW k \in Runs, StartScan(k) \/ StartExtract(k)
      PROVE  scan_start' /\ ~(startOn' /\ reOn')
  BY <1>1 DEF StartScan, StartExtract, Begin
<1>2. CASE Stop
  <2>1. pc[0] \notin {"boot", "list"} /\ UNCHANGED pc
    BY <1>2 DEF Stop, EarlyClick, Calm, runVars
  <2>2. (\E k \in Runs : pc[k] \in Mid) => ~startOn' /\ ~reOn'
    BY <1>2 DEF Stop, GuiFree, ButtonsInv, CountsInv, TypeOK
  <2> QED
    BY <2>1, <2>2
<1>3. CASE Sort \/ CheckLoad \/ Close
  BY <1>3 DEF Sort, CheckLoad, Close, GuiFree, ButtonsInv, buttonVars, runVars
<1>4. CASE Loader
  <2>1. \A k \in Runs : ~Busy(k) /\ pc'[k] = pc[k]
    BY <1>4 DEF Loader, LoadBegin, LoadFile, LoadEnd, OneRun, runVars
  <2> QED
    BY <1>0, <2>1, LiveBusy DEF Mid, Live, Busy
<1>5. CASE AutoScan
  <2>1. Busy(0)
    BY <1>0, <1>5, CoordinatorMoves
  <2>2. \A j \in Runs \ {0} : pc[j] \in {"none", "done"}
    BY <1>0, <2>1, OthersIdle
  <2>3. \A j \in Runs \ {0} : pc'[j] \notin Mid
    BY <1>0, <1>5, <2>2, CoordinatorMoves DEF Mid, Live
  <2>4. CASE BootBegin \/ BootManual
    BY <1>0, <2>3, <2>4 DEF BootBegin, BootManual, At, Mid, Live
  <2>5. CASE BootList
    BY <1>0, <2>3, <2>5 DEF BootList, At, Mid, Live, ButtonsInv
  <2>6. CASE BootScan
    BY <1>0, <2>3, <2>6 DEF BootScan, At, ButtonsInv
  <2>7. CASE AutoEnd
    BY <1>0, <2>3, <2>7 DEF AutoEnd, At, Mid, Live
  <2> QED
    BY <1>5, <2>4, <2>5, <2>6, <2>7 DEF AutoScan
<1>6. ASSUME NEW k \in Runs, Coordinator(k)
      PROVE  /\ pc'[0] \in {"boot", "list"} => scan_start'
             /\ \A j \in Runs : pc'[j] \in Mid =>
                  /\ ~(startOn' /\ reOn')
                  /\ startOn' \/ reOn' => scan_start'
  <2>1. Busy(k)
    BY <1>6, CoordinatorMoves
  <2>2. \A j \in Runs \ {k} : pc'[j] \in {"none", "done"}
    BY <1>0, <1>6, <2>1, OthersIdle, CoordinatorMoves
  <2>3. CASE /\ pc[k] \in Mid /\ UNCHANGED <<scan_start, startOn, reOn>>
             /\ pc'[k] \notin {"boot", "list"}
    <3>1. /\ ~(startOn' /\ reOn')
          /\ startOn' \/ reOn' => scan_start'
      BY <1>6, <2>3, CoordinatorMoves DEF ButtonsInv
    <3> QED
      BY <1>0, <2>2, <2>3, <3>1
  <2>4. CASE pc'[k] \in {"re", "clear", "done"}
    BY <1>0, <2>2, <2>4 DEF Mid, Live
  <2>5. CASE Create(k) \/ NoDirectory(k) \/ SpawnTest(k) \/ Spawn(k) \/ Branch(k)
    BY <1>0, <2>3, <2>5
    DEF Create, NoDirectory, SpawnTest, Spawn, Branch, At, buttonVars, Mid, Live
  <2>6. CASE PollDone(k) \/ PollTimeout(k) \/ Drain(k) \/ CloseHandles(k)
    BY <1>0, <2>3, <2>6
    DEF PollDone, PollTimeout, Drain, CloseHandles, At, buttonVars, Mid, Live
  <2>7. CASE EnableStart(k) \/ EnableRe(k) \/ Clear(k)
    BY <1>0, <2>4, <2>7 DEF EnableStart, EnableRe, Clear, At
  <2> QED
    BY <1>6, <2>5, <2>6, <2>7 DEF Coordinator
<1>7. ASSUME NEW w \in Workers, Worker(w)
      PROVE  UNCHANGED <<pc, scan_start, startOn, reOn, window>>
  BY <1>7, WorkerStays DEF runVars, buttonVars
<1>8. CASE UNCHANGED vars \/ Over
  BY <1>8 DEF vars, Over, runVars, buttonVars, ButtonsInv
<1> QED
  <2>1. CASE \E k \in Runs : StartScan(k) \/ StartExtract(k)
    BY <1>1, <2>1
  <2>2. CASE \E w \in Workers : Worker(w)
    BY <1>7, <2>2 DEF ButtonsInv
  <2> QED
    BY <1>2, <1>3, <1>4, <1>5, <1>6, <1>8, <2>1, <2>2 DEF Next, DlgMain
-----------------------------------------------------------------------------
(* The workers at work, and how many they are.                             *)

LEMMA TestingFinite ==
  /\ IsFiniteSet(Workers)
  /\ \A S : S \subseteq Workers => IsFiniteSet(S) /\ Cardinality(S) \in Nat
<1>1. IsFiniteSet(Runs) /\ IsFiniteSet(1 .. NbIp)
  BY FS_Interval, BoundsAssumption DEF Runs
<1>2. IsFiniteSet(Workers)
  BY <1>1, FS_Product DEF Workers
<1> QED
  BY <1>2, FS_Subset, FS_CardinalityType

(* The steps of a worker that ends its work, and of one that counts.       *)
LEMMA TestingShrinks ==
  ASSUME TypeOK, NEW w \in Workers, wst[w] \in {"born", "test"},
         NEW to \in {"count", "done"}, wst' = [wst EXCEPT ![w] = to]
  PROVE  /\ Testing' = Testing \ {w}
         /\ Cardinality(Testing) = Cardinality(Testing') + 1
<1>1. Testing' = Testing \ {w} /\ w \in Testing
  BY DEF Testing, TypeOK
<1>2. Testing \subseteq Workers
  BY DEF Testing
<1>3. Cardinality(Testing \ {w}) = Cardinality(Testing) - 1
  BY <1>1, <1>2, TestingFinite, FS_RemoveElement
<1> QED
  BY <1>1, <1>2, <1>3, TestingFinite

(* A run whose counter reached the number of its workers has none at work. *)
LEMMA PollOver ==
  ASSUME CountsInv, OneRun, HandlesInv, PermitsInv,
         NEW k \in Runs, pc[k] = "poll", nb_test_ip >= made[k]
  PROVE  Testing = {}
<1> DEFINE mine == {w \in Workers : w[1] = k /\ w[2] <= made[k]}
           nums == 1 .. made[k]
<1>1. gen = k /\ made[k] \in 0 .. NbIp
  BY DEF HandlesInv, Live, CountsInv, TypeOK
<1>2. Ended \subseteq mine
  BY <1>1 DEF Ended, CountsInv, PointsInv
<1>3. IsFiniteSet(mine) /\ Cardinality(mine) = made[k]
  <2>1. IsFiniteSet(nums) /\ Cardinality(nums) = made[k]
    BY <1>1, FS_Interval
  <2>2. IsFiniteSet({k}) /\ Cardinality({k}) = 1
    BY FS_Singleton
  <2>3. mine = {k} \X nums
    <3>1. \A w \in mine : w \in {k} \X nums
      BY <1>1 DEF Workers
    <3>2. ASSUME NEW w \in {k} \X nums
          PROVE  w \in mine
      <4>1. w = <<w[1], w[2]>> /\ w[1] = k /\ w[2] \in nums
        OBVIOUS
      <4>2. w[2] \in 1 .. NbIp /\ w[2] <= made[k]
        BY <1>1, <4>1, BoundsAssumption
      <4>3. w \in Workers
        BY <4>1, <4>2 DEF Workers
      <4> QED
        BY <4>1, <4>2, <4>3
    <3> QED
      BY <3>1, <3>2
  <2> QED
    BY <1>1, <2>1, <2>2, <2>3, FS_Product
<1>4. Cardinality(Ended) >= made[k] /\ Cardinality(Ended) <= Cardinality(mine)
  <2>1. Cardinality(Ended) \in Nat
    BY TestingFinite DEF Ended
  <2> QED
    BY <1>1, <1>2, <1>3, <2>1, FS_Subset DEF PermitsInv, CountsInv, TypeOK
<1>5. Ended = mine
  <2>1. Cardinality(Ended) \in Nat
    BY TestingFinite DEF Ended
  <2> QED
    BY <1>1, <1>2, <1>3, <1>4, <2>1, FS_Subset
<1>6. \A w \in Testing : w[1] = k
  <2>1. \A w \in Testing : w[1] \in Runs /\ Busy(w[1])
    BY LiveBusy DEF HandlesInv, Testing, Workers
  <2>2. Busy(k)
    BY DEF Busy
  <2> QED
    BY <2>1, <2>2 DEF OneRun
<1> QED
  BY <1>1, <1>5, <1>6 DEF Ended, Testing, CountsInv, PointsInv

(* Nor has a run that has all its permits back.                            *)
LEMMA DrainOver ==
  ASSUME CountsInv, OneRun, HandlesInv, PermitsInv,
         NEW k \in Runs, Drain(k)
  PROVE  /\ sem' = [sem EXCEPT ![k] = @ - 1] /\ sem[k] > 0
         /\ taken[k] + 1 = Limit => Testing = {}
<1>1. pc[k] = "drain" /\ hs[k] = k /\ open[k]
  BY DEF Drain, At, HandlesInv, Live
<1>2. sem[k] > 0 /\ sem' = [sem EXCEPT ![k] = @ - 1]
  BY <1>1 DEF Drain, Acquire
<1>3. ASSUME taken[k] + 1 = Limit
      PROVE  Testing = {}
  <2>1. Testing \subseteq Workers
    BY DEF Testing
  <2>2. sem[k] + taken[k] + Cardinality(Testing) <= Limit
    BY <1>1 DEF PermitsInv, Live
  <2>3. Cardinality(Testing) = 0
    BY <1>2, <1>3, <2>1, <2>2, TestingFinite, BoundsAssumption DEF CountsInv, TypeOK
  <2> QED
    BY <2>1, <2>3, TestingFinite, FS_EmptySet
<1> QED
  BY <1>2, <1>3
-----------------------------------------------------------------------------
(* A coordinator that is not where its workers are, before or after.       *)
Aside(k) ==
  /\ Busy(k) /\ pc[k] \notin Live
  /\ pc'[k] \notin Live /\ \A j \in Runs \ {k} : pc'[j] = pc[j]
  /\ UNCHANGED <<gen, sem, taken, wst, nb_test_ip>>

LEMMA AutoAside ==
  ASSUME TypeOK, AutoScan
  PROVE  0 \in Runs /\ Aside(0)
<1>1. 0 \in Runs
  BY BoundsAssumption DEF Runs
<1> USE DEF At, TypeOK, Aside, Busy, Live, semVars, workerVars
<1>2. CASE BootBegin \/ BootManual \/ BootList
  BY <1>1, <1>2 DEF BootBegin, BootManual, BootList
<1>3. CASE BootScan \/ AutoEnd
  BY <1>1, <1>3 DEF BootScan, AutoEnd
<1> QED
  BY <1>1, <1>2, <1>3 DEF AutoScan

LEMMA EndAside ==
  ASSUME TypeOK, NEW k \in Runs,
         \/ NoDirectory(k) \/ CloseHandles(k) \/ EnableStart(k) \/ EnableRe(k)
         \/ Clear(k)
  PROVE  Aside(k)
BY DEF NoDirectory, CloseHandles, EnableStart, EnableRe, Clear, At, TypeOK, Aside,
       Busy, Live, semVars, workerVars

LEMMA AsideHandles ==
  ASSUME OneRun, HandlesInv, NEW k \in Runs, Aside(k)
  PROVE  HandlesInv'
<1>1. (\A j \in Runs : pc[j] \notin Live) /\ Testing = {}
  BY IdleNobody DEF Aside
<1>2. (\A j \in Runs : pc'[j] \notin Live) /\ Testing' = {}
  BY <1>1 DEF Aside, Testing
<1> QED
  BY <1>2 DEF HandlesInv, Live

LEMMA HandlesStep ==
  ASSUME CountsInv, OneRun, HandlesInv, PermitsInv, [Next]_vars, Calm'
  PROVE  HandlesInv'
<1>0. TypeOK
  BY DEF CountsInv
<1>1. ASSUME NEW k \in Runs, NEW what \in {"scan", "extract"}, Begin(k, what)
      PROVE  HandlesInv'
  <2>1. \A j \in Runs : ~Busy(j)
    BY <1>1, BeginAlone
  <2>2. Testing = {}
    BY <2>1, LiveBusy, NobodyAtWork
  <2>3. \A j \in Runs : pc'[j] \notin Live
    BY <1>0, <1>1, <2>1 DEF Begin, TypeOK, Busy, Live
  <2>4. Testing' = {}
    BY <1>1, <2>2 DEF Begin, Testing
  <2> QED
    BY <2>3, <2>4 DEF HandlesInv, Live
<1>2. CASE (DlgMain \/ Loader) /\ UNCHANGED pc
  BY <1>2, GuiStays DEF HandlesInv, Testing, semVars
<1>3. CASE AutoScan
  BY <1>0, <1>3, AutoAside, AsideHandles
<1>4. ASSUME NEW k \in Runs, Coordinator(k)
      PROVE  HandlesInv'
  <2>0. Busy(k) /\ \A j \in Runs \ {k} : pc'[j] \in {"none", "done"}
    <3>1. Busy(k) /\ \A j \in Runs \ {k} : pc'[j] = pc[j]
      BY <1>0, <1>4, CoordinatorMoves DEF TypeOK
    <3> QED
      BY <3>1, OthersIdle
  <2>1. CASE \/ NoDirectory(k) \/ CloseHandles(k) \/ EnableStart(k) \/ EnableRe(k)
             \/ Clear(k)
    BY <1>0, <2>1, EndAside, AsideHandles
  <2>2. CASE Create(k)
    <3>1. Testing = {}
      BY <2>0, <2>2, IdleNobody DEF Create, At, Live
    <3>2. Testing' = {}
      BY <2>2, <3>1 DEF Create, Testing
    <3>3. gen' = k /\ open'[k] /\ pc'[k] = "spawn"
      BY <1>0, <2>2 DEF Create, At, TypeOK
    <3> QED
      BY <2>0, <3>2, <3>3 DEF HandlesInv, Live
  <2>3. CASE SpawnTest(k) \/ Branch(k)
    <3>1. pc[k] \in Live /\ gen = k /\ open[k]
      BY <2>3 DEF SpawnTest, Branch, At, Live, HandlesInv
    <3>2. pc'[k] \in Live /\ hs'[k] = k /\ UNCHANGED <<gen, open, wst>>
      BY <1>0, <2>3, <3>1 DEF SpawnTest, Branch, At, Live, TypeOK, semVars, workerVars
    <3>3. \A w \in Testing : w[1] = k
      BY <2>0, LiveBusy DEF HandlesInv, OneRun, Testing, Workers
    <3> QED
      BY <2>0, <3>1, <3>2, <3>3 DEF HandlesInv, Testing, Live
  <2>4. CASE Spawn(k)
    <3>1. pc[k] \in Live /\ gen = k /\ open[k]
      BY <2>4 DEF Spawn, At, Live, HandlesInv
    <3>2. pc'[k] = "spawn" /\ UNCHANGED <<gen, open>>
      BY <1>0, <2>4 DEF Spawn, At, TypeOK
    <3>3. \A w \in Testing' : w[1] = k
      <4>1. \A w \in Testing : w[1] = k
        BY <2>0, LiveBusy DEF HandlesInv, OneRun, Testing, Workers
      <4>2. \A w \in Workers : w # <<k, made'[k]>> => wst'[w] = wst[w]
        BY <1>0, <2>4 DEF Spawn, TypeOK
      <4> QED
        BY <4>1, <4>2 DEF Testing, Workers
    <3> QED
      BY <2>0, <3>1, <3>2, <3>3 DEF HandlesInv, Live
  <2>5. CASE PollDone(k)
    <3>1. Testing = {}
      BY <2>5, PollOver DEF PollDone, At
    <3>2. Testing' = {}
      BY <2>5, <3>1 DEF PollDone, Testing, workerVars
    <3>3. pc'[k] = "close"
      BY <1>0, <2>5 DEF PollDone, At, TypeOK
    <3> QED
      BY <2>0, <3>2, <3>3 DEF HandlesInv, Live
  <2>6. CASE PollTimeout(k)
    BY <2>6 DEF PollTimeout, Calm
  <2>7. CASE Drain(k)
    <3>1. gen = k /\ open[k]
      BY <2>7 DEF Drain, At, Live, HandlesInv
    <3>2. /\ hs'[k] = k /\ UNCHANGED <<gen, open, wst>>
          /\ pc'[k] = IF taken[k] + 1 = Limit THEN "close" ELSE "drain"
      BY <1>0, <2>7, <3>1 DEF Drain, At, TypeOK, workerVars
    <3>3. CASE taken[k] + 1 = Limit
      <4>1. Testing' = {}
        BY <2>7, <3>2, <3>3, DrainOver DEF Testing
      <4> QED
        BY <2>0, <3>2, <3>3, <4>1 DEF HandlesInv, Live
    <3>4. CASE taken[k] + 1 # Limit
      <4>1. \A w \in Testing : w[1] = k
        BY <2>0, LiveBusy DEF HandlesInv, OneRun, Testing, Workers
      <4> QED
        BY <2>0, <3>1, <3>2, <3>4, <4>1 DEF HandlesInv, Testing, Live
    <3> QED
      BY <3>3, <3>4
  <2> QED
    BY <1>4, <2>1, <2>2, <2>3, <2>4, <2>5, <2>6, <2>7 DEF Coordinator
<1>5. ASSUME NEW w \in Workers, Worker(w)
      PROVE  HandlesInv'
  <2>1. UNCHANGED <<pc, gen, open, hs>>
    BY <1>5, WorkerStays DEF runVars
  <2>2. Testing' \subseteq Testing
    BY <1>0, <1>5 DEF Worker, Enter, InsertRow, Release, Count, GoOn, Testing, TypeOK
  <2> QED
    BY <2>1, <2>2 DEF HandlesInv
<1>6. CASE UNCHANGED vars \/ Over
  BY <1>6 DEF vars, Over, runVars, semVars, workerVars, HandlesInv, Testing
<1> QED
  BY <1>1, <1>2, <1>3, <1>4, <1>5, <1>6, GuiStays DEF Next
-----------------------------------------------------------------------------
(* A coordinator that is not where its workers are moves no permit.        *)
LEMMA AsidePermits ==
  ASSUME OneRun, PermitsInv, NEW k \in Runs, Aside(k)
  PROVE  PermitsInv'
<1>1. \A j \in Runs : pc'[j] \notin Live
  BY OthersIdle DEF Aside, Live
<1>2. Ended' = Ended /\ nb_test_ip' = nb_test_ip
  BY DEF Aside, Ended
<1> QED
  BY <1>1, <1>2 DEF PermitsInv

(* A worker's end of work gives at most its own permit back, and it counts *)
(* itself at most once.                                                    *)
LEMMA WorkerPermits ==
  ASSUME CountsInv, OneRun, HandlesInv, PermitsInv, Calm',
         NEW w \in Workers, Worker(w)
  PROVE  PermitsInv'
<1> USE DEF GoOn
<1>0. /\ TypeOK /\ UNCHANGED <<pc, taken, gen, open>>
      /\ Testing \subseteq Workers /\ Ended \subseteq Workers
      /\ Testing' \subseteq Workers /\ Ended' \subseteq Workers
  BY WorkerStays DEF runVars, CountsInv, Testing, Ended
<1>1. /\ Cardinality(Testing) \in Nat /\ Cardinality(Ended) \in Nat
      /\ Cardinality(Testing') \in Nat /\ Cardinality(Ended') \in Nat
  BY <1>0, TestingFinite
<1>2. ASSUME sem' = sem \/ (Cardinality(Testing') + 1 = Cardinality(Testing)
               /\ sem[gen] < Limit /\ sem' = [sem EXCEPT ![gen] = @ + 1]),
             Cardinality(Testing') <= Cardinality(Testing)
      PROVE  \A k \in Runs : pc'[k] \in Live =>
               sem'[k] + taken'[k] + Cardinality(Testing') <= Limit
  <2> SUFFICES ASSUME NEW k \in Runs, pc[k] \in Live
               PROVE  sem'[k] + taken[k] + Cardinality(Testing') <= Limit
    BY <1>0
  <2>1. sem[k] + taken[k] + Cardinality(Testing) <= Limit
    BY DEF PermitsInv
  <2>2. /\ sem[k] \in Nat /\ sem[gen] \in Nat /\ taken[k] \in Nat
        /\ Limit \in Nat /\ gen \in Runs
    BY <1>0, BoundsAssumption DEF TypeOK
  <2>3. sem'[k] = sem[k] \/ (sem'[k] = sem[k] + 1
                               /\ Cardinality(Testing') + 1 = Cardinality(Testing))
    BY <1>0, <1>2, <2>2 DEF TypeOK
  <2> QED
    BY <1>1, <1>2, <2>1, <2>2, <2>3
<1>3. ASSUME NEW to \in {"count", "done"}, wst[w] \in {"born", "test"},
             wst' = [wst EXCEPT ![w] = to]
      PROVE  Cardinality(Testing) = Cardinality(Testing') + 1
  BY <1>0, <1>3, TestingShrinks
<1>4. CASE Enter(w)
  <2>1. nb_test_ip' = nb_test_ip /\ sem' = sem
    BY <1>4 DEF Enter, semVars
  <2>2. Ended \subseteq Ended'
    BY <1>0, <1>4 DEF Enter, Ended, TypeOK
  <2>3. Cardinality(Ended) <= Cardinality(Ended')
    BY <1>0, <2>2, TestingFinite, FS_Subset
  <2>4. Cardinality(Testing') <= Cardinality(Testing)
    <3>1. CASE wst' = [wst EXCEPT ![w] = "done"]
      <4>1. wst[w] \in {"born", "test"}
        BY <1>4 DEF Enter
      <4> QED
        BY <1>1, <1>3, <3>1, <4>1
    <3>2. CASE wst' = [wst EXCEPT ![w] = "test"]
      <4>1. Testing' = Testing
        BY <1>0, <1>4, <3>2 DEF Enter, Testing, TypeOK
      <4> QED
        BY <1>1, <4>1
    <3> QED
      BY <1>4, <3>1, <3>2 DEF Enter
  <2> QED
    BY <1>0, <1>1, <1>2, <2>1, <2>3, <2>4 DEF PermitsInv, TypeOK
<1>5. CASE InsertRow(w)
  <2>1. UNCHANGED <<wst, nb_test_ip, sem>>
    BY <1>0, <1>5 DEF InsertRow, semVars, TypeOK
  <2>2. Testing' = Testing /\ Ended' = Ended
    BY <1>0, <2>1 DEF Testing, Ended
  <2> QED
    BY <1>0, <2>1, <2>2 DEF PermitsInv
<1>6. CASE Release(w)
  <2>1. Cardinality(Testing') + 1 = Cardinality(Testing)
    <3>1. wst[w] \in {"born", "test"} /\ wst' = [wst EXCEPT ![w] = "count"]
      BY <1>6 DEF Release
    <3> QED
      BY <1>1, <1>3, <3>1
  <2>2. sem' = sem \/ (sem[gen] < Limit /\ sem' = [sem EXCEPT ![gen] = @ + 1])
    BY <1>6 DEF Release
  <2>3. nb_test_ip' = nb_test_ip /\ Ended' = Ended
    BY <1>0, <1>6 DEF Release, Ended, TypeOK
  <2>4. Cardinality(Testing') <= Cardinality(Testing)
    BY <1>1, <2>1
  <2> QED
    BY <1>2, <2>1, <2>2, <2>3, <2>4 DEF PermitsInv
<1>7. CASE Count(w)
  <2>1. gen = w[1] /\ wst[w] = "count" /\ wst' = [wst EXCEPT ![w] = "done"]
        /\ sem' = sem
    BY <1>7 DEF Count, Calm, semVars
  <2>2. Testing' = Testing
    BY <1>0, <2>1 DEF Testing, TypeOK
  <2>3. Ended' = Ended \union {w} /\ w \notin Ended
    BY <1>0, <2>1 DEF Ended, TypeOK
  <2>4. Cardinality(Ended') = Cardinality(Ended) + 1
    BY <1>0, <2>3, TestingFinite, FS_AddElement
  <2>5. nb_test_ip' <= nb_test_ip + 1
    BY <1>0, <1>7 DEF Count, TypeOK
  <2>6. nb_test_ip' \in Nat /\ nb_test_ip \in Nat
    BY <1>0, <1>7 DEF Count, TypeOK
  <2>7. nb_test_ip' <= Cardinality(Ended')
    BY <1>1, <2>4, <2>5, <2>6 DEF PermitsInv
  <2>8. Cardinality(Testing') <= Cardinality(Testing)
    BY <1>1, <2>2
  <2> QED
    BY <1>2, <2>1, <2>7, <2>8 DEF PermitsInv
<1> QED
  BY <1>4, <1>5, <1>6, <1>7 DEF Worker

(* A coordinator takes permits for its workers, or for itself.             *)
LEMMA CoordinatorPermits ==
  ASSUME CountsInv, OneRun, HandlesInv, PermitsInv, Calm',
         NEW k \in Runs, Coordinator(k)
  PROVE  PermitsInv'
<1>0. /\ TypeOK /\ Limit \in Nat \ {0} /\ NbIp \in Nat
      /\ Testing \subseteq Workers /\ Ended \subseteq Workers
      /\ Cardinality(Testing) \in Nat /\ Cardinality(Ended) \in Nat
  BY TestingFinite, BoundsAssumption DEF CountsInv, Testing, Ended
<1>1. /\ Busy(k) /\ \A j \in Runs \ {k} : pc'[j] \notin Live
  <2>1. Busy(k) /\ \A j \in Runs \ {k} : pc'[j] = pc[j]
    BY <1>0, CoordinatorMoves DEF TypeOK
  <2> QED
    BY <2>1, OthersIdle DEF Live
<1>2. CASE \/ NoDirectory(k) \/ CloseHandles(k) \/ EnableStart(k) \/ EnableRe(k)
           \/ Clear(k)
  BY <1>0, <1>2, EndAside, AsidePermits
<1>3. CASE Create(k)
  <2>1. Testing = {}
    BY <1>1, <1>3, IdleNobody DEF Create, At, Live
  <2>2. Testing' = {} /\ Cardinality(Testing') = 0
    BY <1>3, <2>1, FS_EmptySet DEF Create, Testing
  <2>3. taken'[k] = 0 /\ sem'[k] = Limit /\ nb_test_ip' = 0
    BY <1>0, <1>3 DEF Create, At, CountsInv, PointsInv, Before, TypeOK
  <2>4. Cardinality(Ended') \in Nat
    BY TestingFinite DEF Ended
  <2> QED
    BY <1>0, <1>1, <2>2, <2>3, <2>4 DEF PermitsInv
<1>4. CASE SpawnTest(k) \/ Branch(k)
  <2>1. UNCHANGED <<sem, taken, nb_test_ip, wst, gen>> /\ pc[k] \in Live
    BY <1>4 DEF SpawnTest, Branch, At, Live, semVars, workerVars
  <2>2. Testing' = Testing /\ Ended' = Ended
    BY <2>1 DEF Testing, Ended
  <2> QED
    BY <1>1, <2>1, <2>2 DEF PermitsInv
<1>5. CASE Spawn(k)
  <2> DEFINE w == <<k, made'[k]>>
  <2>1. /\ pc[k] = "acquire" /\ hs[k] = k /\ open[k]
    BY <1>5 DEF Spawn, At, HandlesInv, Live
  <2>2. sem[k] > 0 /\ sem' = [sem EXCEPT ![k] = @ - 1]
    BY <1>5, <2>1 DEF Spawn, Acquire
  <2>3. /\ made'[k] = made[k] + 1 /\ made[k] \in 0 .. NbIp /\ made[k] < NbIp
        /\ wst' = [wst EXCEPT ![w] = "born"]
    BY <1>0, <1>5, <2>1 DEF Spawn, CountsInv, PointsInv, TypeOK
  <2>4. w \in Workers /\ wst[w] = "none"
    BY <1>0, <2>3 DEF Workers, CountsInv, PointsInv
  <2>5. Testing' = Testing \union {w} /\ w \notin Testing
    BY <1>0, <2>3, <2>4 DEF Testing, TypeOK
  <2>6. Cardinality(Testing') = Cardinality(Testing) + 1
    BY <1>0, <2>5, TestingFinite, FS_AddElement
  <2>7. Ended' = Ended /\ UNCHANGED <<taken, nb_test_ip>>
    BY <1>0, <1>5, <2>3, <2>4 DEF Spawn, Ended, TypeOK
  <2>8. sem[k] + taken[k] + Cardinality(Testing) <= Limit
    BY <2>1 DEF PermitsInv, Live
  <2>9. sem'[k] = sem[k] - 1 /\ sem[k] \in Nat /\ taken[k] \in Nat
    BY <1>0, <2>2 DEF TypeOK
  <2>10. sem'[k] + taken'[k] + Cardinality(Testing') <= Limit
    BY <1>0, <2>6, <2>7, <2>8, <2>9
  <2> QED
    BY <1>1, <2>7, <2>10 DEF PermitsInv
<1>6. CASE PollDone(k)
  <2>1. pc'[k] = "close" /\ UNCHANGED <<nb_test_ip, wst, gen>>
    BY <1>0, <1>6 DEF PollDone, At, semVars, workerVars, TypeOK
  <2>2. Ended' = Ended
    BY <2>1 DEF Ended
  <2> QED
    BY <1>1, <2>1, <2>2 DEF PermitsInv, Live
<1>7. CASE PollTimeout(k)
  BY <1>7 DEF PollTimeout, Calm
<1>8. CASE Drain(k)
  <2>1. sem' = [sem EXCEPT ![k] = @ - 1] /\ pc[k] \in Live
    BY <1>8, DrainOver DEF Drain, At, Live
  <2>2. UNCHANGED <<nb_test_ip, wst, gen>> /\ taken'[k] = taken[k] + 1
    BY <1>0, <1>8 DEF Drain, workerVars, TypeOK
  <2>3. Testing' = Testing /\ Ended' = Ended
    BY <2>2 DEF Testing, Ended
  <2>4. sem'[k] = sem[k] - 1 /\ sem[k] \in Nat /\ taken[k] \in Nat
    BY <1>0, <2>1 DEF TypeOK
  <2>5. sem[k] + taken[k] + Cardinality(Testing) <= Limit
    BY <2>1 DEF PermitsInv
  <2>6. sem'[k] + taken'[k] + Cardinality(Testing') <= Limit
    BY <1>0, <2>2, <2>3, <2>4, <2>5
  <2> QED
    BY <1>1, <2>2, <2>3, <2>6 DEF PermitsInv
<1> QED
  BY <1>2, <1>3, <1>4, <1>5, <1>6, <1>7, <1>8 DEF Coordinator

LEMMA PermitsStep ==
  ASSUME CountsInv, OneRun, HandlesInv, PermitsInv, [Next]_vars, Calm'
  PROVE  PermitsInv'
<1>0. TypeOK
  BY DEF CountsInv
<1>1. ASSUME NEW k \in Runs, NEW what \in {"scan", "extract"}, Begin(k, what)
      PROVE  PermitsInv'
  <2>1. \A j \in Runs : pc'[j] \notin Live
    BY <1>0, <1>1, BeginAlone DEF Begin, TypeOK, Busy, Live
  <2>2. Ended' = Ended /\ nb_test_ip' = nb_test_ip
    BY <1>1 DEF Begin, Ended, semVars
  <2> QED
    BY <2>1, <2>2 DEF PermitsInv
<1>2. CASE (DlgMain \/ Loader) /\ UNCHANGED pc
  <2>1. UNCHANGED <<taken, semVars, wst, nb_test_ip>>
    BY <1>2, GuiStays
  <2>2. Testing' = Testing /\ Ended' = Ended
    BY <2>1 DEF Testing, Ended, semVars
  <2> QED
    BY <1>2, <2>1, <2>2 DEF PermitsInv, semVars
<1>3. CASE AutoScan
  BY <1>0, <1>3, AutoAside, AsidePermits
<1>4. CASE UNCHANGED vars \/ Over
  <2>1. UNCHANGED <<pc, taken, gen, sem, wst, nb_test_ip>>
    BY <1>4 DEF vars, Over, runVars, semVars, workerVars
  <2>2. Testing' = Testing /\ Ended' = Ended
    BY <2>1 DEF Testing, Ended
  <2> QED
    BY <2>1, <2>2 DEF PermitsInv
<1> QED
  BY <1>1, <1>2, <1>3, <1>4, GuiStays, CoordinatorPermits, WorkerPermits DEF Next
-----------------------------------------------------------------------------
(* Whoever is at work keeps its row, or its row is new.                    *)
LEMMA KeptRows ==
  ASSUME RowsStay, Calm,
         \A w \in Testing' : (w \in Testing /\ row'[w] = row[w]) \/ row'[w] # "stale"
  PROVE  RowsStay'
BY DEF RowsStay, Testing

(* Rows move only when nobody is at work: a run that begins, begins alone; *)
(* and the list is not sorted while a run has its workers, whose button is *)
(* Stop or cannot be clicked.                                              *)
LEMMA RowsStep ==
  ASSUME CountsInv, OneRun, ButtonsInv, HandlesInv, RowsStay, [Next]_vars, Calm'
  PROVE  RowsStay'
<1>0. TypeOK /\ Calm
  BY CalmBefore DEF CountsInv
<1>1. ASSUME Testing = {}, UNCHANGED wst
      PROVE  RowsStay'
  BY <1>1 DEF Testing, RowsStay
<1>2. ASSUME UNCHANGED <<wst, row>>
      PROVE  RowsStay'
  BY <1>0, <1>2, KeptRows DEF Testing
<1>3. ASSUME NEW k \in Runs, NEW what \in {"scan", "extract"}, Begin(k, what)
      PROVE  RowsStay'
  <2>1. \A j \in Runs : ~Busy(j)
    BY <1>3, BeginAlone
  <2>2. Testing = {}
    BY <2>1, LiveBusy, NobodyAtWork
  <2> QED
    BY <1>1, <1>3, <2>2 DEF Begin
<1>4. CASE Stop \/ CheckLoad \/ Close \/ Loader
  BY <1>2, <1>4
  DEF Stop, CheckLoad, Close, Loader, LoadBegin, LoadFile, LoadEnd, workerVars
<1>5. CASE Sort
  <2>1. ~scan_start /\ startOn /\ window = "open" /\ UNCHANGED wst
    BY <1>5 DEF Sort, GuiFree
  <2>2. \A k \in Runs : pc[k] \notin Live
    BY <2>1, LiveBusy DEF ButtonsInv
  <2> QED
    BY <1>1, <2>1, <2>2, NobodyAtWork
<1>6. CASE BootBegin
  <2>1. 0 \in Runs /\ Busy(0) /\ pc[0] \notin Live /\ UNCHANGED wst
    BY <1>6, BoundsAssumption DEF BootBegin, At, Busy, Live, Runs
  <2>2. Testing = {}
    BY <2>1, IdleNobody
  <2> QED
    BY <1>1, <2>1, <2>2
<1>7. CASE BootManual \/ BootList \/ BootScan \/ AutoEnd
  BY <1>2, <1>7 DEF BootManual, BootList, BootScan, AutoEnd, workerVars
<1>8. ASSUME NEW k \in Runs, Coordinator(k)
      PROVE  RowsStay'
  <2>1. CASE Spawn(k)
    <3> DEFINE w == <<k, made'[k]>>
    <3>1. /\ made'[k] = made[k] + 1 /\ made[k] \in 0 .. NbIp /\ made[k] < NbIp
          /\ wst' = [wst EXCEPT ![w] = "born"] /\ UNCHANGED row
      BY <1>0, <2>1 DEF Spawn, At, CountsInv, PointsInv, TypeOK
    <3>2. w \in Workers /\ row[w] = "none"
      BY <3>1, BoundsAssumption DEF Workers, CountsInv, PointsInv
    <3>3. \A v \in Testing' : v = w \/ v \in Testing
      BY <1>0, <3>1, <3>2 DEF Testing, TypeOK
    <3>4. \A v \in Testing' : (v \in Testing /\ row'[v] = row[v]) \/ row'[v] # "stale"
      BY <3>1, <3>2, <3>3
    <3> QED
      BY <1>0, <3>4, KeptRows
  <2>2. CASE Create(k) \/ NoDirectory(k) \/ SpawnTest(k) \/ Branch(k)
    BY <1>2, <2>2 DEF Create, NoDirectory, SpawnTest, Branch, workerVars
  <2>3. CASE PollDone(k) \/ PollTimeout(k) \/ Drain(k) \/ CloseHandles(k)
    BY <1>2, <2>3 DEF PollDone, PollTimeout, Drain, CloseHandles, workerVars
  <2>4. CASE EnableStart(k) \/ EnableRe(k) \/ Clear(k)
    BY <1>2, <2>4 DEF EnableStart, EnableRe, Clear, workerVars
  <2> QED
    BY <1>8, <2>1, <2>2, <2>3, <2>4 DEF Coordinator
<1>9. ASSUME NEW w \in Workers, Worker(w)
      PROVE  RowsStay'
  <2>1. Testing' \subseteq Testing
    BY <1>0, <1>9 DEF Worker, Enter, InsertRow, Release, Count, GoOn, Testing, TypeOK
  <2>2. row' = row \/ row' = [row EXCEPT ![w] = "valid"]
    BY <1>9 DEF Worker, Enter, InsertRow, Release, Count
  <2>3. \A v \in Testing' : (v \in Testing /\ row'[v] = row[v]) \/ row'[v] # "stale"
    BY <1>0, <2>1, <2>2 DEF TypeOK, Testing
  <2> QED
    BY <1>0, <2>3, KeptRows
<1>10. CASE UNCHANGED vars \/ Over
  BY <1>2, <1>10 DEF vars, Over, workerVars
<1> QED
  BY <1>3, <1>4, <1>5, <1>6, <1>7, <1>8, <1>9, <1>10
  DEF Next, DlgMain, StartScan, StartExtract, AutoScan
-----------------------------------------------------------------------------
LEMMA InitCalm == Init => CalmInv
<1> SUFFICES ASSUME Init PROVE CalmInv
  OBVIOUS
<1>1. /\ \A k \in Runs : k # 0 => pc[k] = "none"
      /\ pc[0] = "init" /\ loader = "none" /\ Testing = {} /\ nb_test_ip = 0
      /\ 0 \in Runs
  BY BoundsAssumption DEF Init, Testing, Runs
<1>2. OneRun /\ HandlesInv /\ RowsStay
  BY <1>1 DEF OneRun, Busy, HandlesInv, Live, RowsStay
<1>3. ButtonsInv
  BY <1>1 DEF ButtonsInv, Mid, Live
<1>4. PermitsInv
  <2>1. Cardinality(Ended) \in Nat
    BY TestingFinite DEF Ended
  <2> QED
    BY <1>1, <2>1 DEF PermitsInv, Live
<1> QED
  BY <1>2, <1>3, <1>4 DEF CalmInv

LEMMA WindowStep == WindowInv /\ [Next]_vars => WindowInv'
<1> SUFFICES ASSUME WindowInv, [Next]_vars PROVE WindowInv'
  OBVIOUS
<1>1. CountsInv'
  BY CountsStep DEF WindowInv
<1>2. ASSUME Calm' PROVE CalmInv'
  <2>1. CountsInv /\ CalmInv
    BY <1>2, CalmBefore DEF WindowInv
  <2> QED
    BY <1>2, <2>1, OneRunStep, ButtonsStep, HandlesStep, PermitsStep, RowsStep
    DEF CalmInv
<1> QED
  BY <1>1, <1>2 DEF WindowInv

(* Whatever the user clicks and however the threads interleave, the runs   *)
(* keep the invariant WindowInv.                                           *)
THEOREM WindowKept == Spec => []WindowInv
<1>1. Init => WindowInv
  BY InitCounts, InitCalm DEF WindowInv
<1>2. WindowInv /\ [Next]_vars => WindowInv'
  BY WindowStep
<1> QED
  BY <1>1, <1>2, PTL DEF Spec

(* The list is not emptied or sorted under a worker that holds an index    *)
(* into it, as long as no run reached into another one.                    *)
THEOREM RowsStayAlways == Spec => []RowsStay
<1>1. WindowInv => RowsStay
  BY DEF WindowInv, CalmInv, RowsStay
<1> QED
  BY <1>1, WindowKept, PTL

(* Over all the runs together, no more workers are at work than hs_threads *)
(* has permits.                                                            *)
THEOREM LimitAlwaysKept == Spec => []LimitKept
<1>1. WindowInv => LimitKept
  <2> SUFFICES ASSUME CountsInv, Calm => CalmInv, Calm
               PROVE  TypeOK /\ Cardinality(Testing) <= Limit
    BY DEF WindowInv, LimitKept, CountsInv
  <2>1. /\ TypeOK /\ HandlesInv /\ PermitsInv /\ Limit \in Nat
        /\ Cardinality(Testing) \in Nat
    BY TestingFinite, BoundsAssumption DEF CountsInv, CalmInv, Testing
  <2>2. CASE Testing = {}
    BY <2>1, <2>2, FS_EmptySet
  <2>3. CASE Testing # {}
    <3>1. PICK k \in Runs : pc[k] \in Live
      BY <2>1, <2>3 DEF HandlesInv, Testing, Workers
    <3>2. /\ sem[k] + taken[k] + Cardinality(Testing) <= Limit
          /\ sem[k] \in Nat /\ taken[k] \in Nat
      BY <2>1, <3>1, BoundsAssumption DEF PermitsInv, TypeOK
    <3> QED
      BY <2>1, <3>2
  <2> QED
    BY <2>2, <2>3
<1> QED
  BY <1>1, WindowKept, PTL

(* A worker at work finds the semaphores of its own run in the global      *)
(* handles, and they are open.                                             *)
THEOREM HandlesAlwaysHeld == Spec => []HandlesHeld
<1>1. WindowInv => HandlesHeld
  BY DEF WindowInv, CalmInv, HandlesInv, HandlesHeld, Testing, Workers
<1> QED
  BY <1>1, WindowKept, PTL

(* No run begins while another is between loading its list and enabling    *)
(* the buttons again.                                                      *)
THEOREM RunsStayApart == Spec => RunsApart
<1> DEFINE Apart ==
      \A k \in Runs :
        pc[k] = "none" /\ pc'[k] = "load" /\ Calm =>
          \A j \in Runs : Busy(j) => pc[j] \in {"init", "boot", "list", "re", "clear",
                                         "auto_clear", "auto_start"}
<1>1. WindowInv /\ [Next]_vars => [Apart]_vars
  <2> SUFFICES ASSUME WindowInv, Next,
                      NEW k \in Runs, pc[k] = "none", pc'[k] = "load", Calm,
                      NEW j \in Runs, Busy(j)
               PROVE  pc[j] \notin Mid
    BY DEF WindowInv, CountsInv, TypeOK, RunPcs, Mid, Live, Busy
  <2>1. TypeOK /\ ButtonsInv
    BY DEF WindowInv, CalmInv, CountsInv
  <2>2. StartScan(k) \/ StartExtract(k)
    <3>1. ASSUME NEW i \in Runs, Coordinator(i) \/ (i = 0 /\ AutoScan)
          PROVE  FALSE
      <4>1. Busy(i) /\ \E to : pc' = [pc EXCEPT ![i] = to]
        BY <3>1, CoordinatorMoves
      <4> QED
        BY <2>1, <4>1 DEF Busy, TypeOK
    <3>2. ASSUME NEW i \in Runs, StartScan(i) \/ StartExtract(i)
          PROVE  i = k
      BY <2>1, <3>2 DEF StartScan, StartExtract, Begin, TypeOK
    <3>3. 0 \in Runs /\ pc' # pc
      BY BoundsAssumption DEF Runs
    <3>4. ~(Stop \/ Sort \/ CheckLoad \/ Close \/ Loader \/ Over)
      BY <3>3 DEF Stop, Sort, CheckLoad, Close, Loader, LoadBegin, LoadFile,
                  LoadEnd, Over, vars, runVars
    <3>5. \A w \in Workers : ~Worker(w)
      BY <3>3, WorkerStays DEF runVars
    <3> QED
      BY <3>1, <3>2, <3>3, <3>4, <3>5 DEF Next, DlgMain
  <2>3. window = "open" /\ ~scan_start /\ (startOn \/ reOn)
    BY <2>2 DEF StartScan, StartExtract, Begin, GuiFree
  <2> QED
    BY <2>1, <2>3 DEF ButtonsInv
<1> QED
  BY <1>1, WindowKept, PTL DEF Spec, RunsApart
=============================================================================
