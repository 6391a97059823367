---------------------------- MODULE NSScan_proofs ----------------------------
(***************************************************************************)
(* Proofs about module NSScan, for any list, any limits and any set of     *)
(* test selections: types, permits, the rows of the hosts found, the       *)
(* counter of tested addresses, the two ways the coordinator waits, and    *)
(* the contract of module ScanContract.                                    *)
(***************************************************************************)
EXTENDS NSScan, FiniteSetTheorems, TLAPS

USE NbIpAssumption, LimitAssumption, ConfigsAssumption

(* The points that name a section of their own are points of a worker.     *)
LEMMA PointsType ==
  /\ Section["threads"] \subseteq WorkerPoints
  /\ Counting \subseteq WorkerPoints
  /\ "none" \in WorkerPoints /\ "done" \in WorkerPoints
BY DEF WorkerPoints

(* A wait and a release keep every count within 0 .. Limit.                *)
LEMMA SemType ==
  ASSUME TypeOK, NEW s \in Sems, Wait(s) \/ Release(s)
  PROVE  /\ sem' \in [Sems -> Nat]
         /\ \A t \in Sems : sem'[t] <= Limit[t]
<1>1. CASE Wait(s)
  BY <1>1 DEF TypeOK, Wait
<1>2. CASE Release(s)
  BY <1>2 DEF TypeOK, Release
<1>3. QED
  BY <1>1, <1>2

LEMMA InitType == Init => TypeOK
<1> SUFFICES ASSUME Init PROVE TypeOK
  OBVIOUS
<1>1. sem \in [Sems -> Nat] /\ \A s \in Sems : sem[s] <= Limit[s]
  BY DEF Init
<1>2. NoLocals \in Locals
  BY DEF NoLocals, Locals, Ttls
<1>3. wpc \in [Workers -> WorkerPoints] /\ loc = [w \in Workers |-> NoLocals]
  BY PointsType DEF Init
<1>4. /\ config \in [ConfigFields -> BOOLEAN]
      /\ taken \in [Sems -> Nat]
      /\ tmp \in [Workers -> Nat]
      /\ i \in 0 .. NbIp
  BY DEF Init
<1> QED
  BY <1>1, <1>2, <1>3, <1>4 DEF Init, TypeOK, CoordPoints

(* The coordinator's steps keep the types.                                 *)
LEMMA CoordinatorType == TypeOK /\ Coordinator => TypeOK'
<1> SUFFICES ASSUME TypeOK, Coordinator PROVE TypeOK'
  OBVIOUS
<1> USE DEF coordVars, countVars
<1>1. CASE SpawnTest
  BY <1>1 DEF TypeOK, SpawnTest, CoordPoints
<1>2. CASE Spawn
  <2>1. i \in Workers
    BY <1>2 DEF TypeOK, Spawn, Workers
  <2>2. wpc' \in [Workers -> WorkerPoints]
    BY <1>2, <2>1, PointsType DEF TypeOK, Spawn, Move, Goto, Section
  <2>3. "threads" \in Sems /\ Wait("threads")
    BY <1>2 DEF Spawn, Sems
  <2> QED
    BY <1>2, <2>2, <2>3, SemType DEF TypeOK, Spawn, CoordPoints
<1>3. CASE Branch
  BY <1>3 DEF TypeOK, Branch, CoordPoints
<1>4. CASE PollDone \/ PollTimeout
  BY <1>4 DEF TypeOK, PollDone, PollTimeout, CoordPoints
<1>5. ASSUME NEW s \in Sems, Drain(s) PROVE TypeOK'
  BY <1>5, SemType DEF TypeOK, Drain
<1>6. CASE DrainThreads
  BY <1>6, <1>5 DEF DrainThreads, Sems
<1>7. CASE DrainOthers
  BY <1>7, <1>5 DEF DrainOthers, Sems, DrainOrder
<1>8. CASE DrainDone
  BY <1>8 DEF TypeOK, DrainDone, CoordPoints
<1>9. CASE CloseHandles
  BY <1>9 DEF TypeOK, CloseHandles, CoordPoints
<1>10. CASE Finish
  BY <1>10 DEF TypeOK, Finish, CoordPoints
<1> QED
  BY <1>1, <1>2, <1>3, <1>4, <1>6, <1>7, <1>8, <1>9, <1>10 DEF Coordinator

(* So do a worker's.                                                       *)
LEMMA EnterType ==
  ASSUME TypeOK, NEW w \in Workers, NEW s \in Sems, NEW a,
         NEW b \in WorkerPoints, Enter(w, s, a, b)
  PROVE  TypeOK'
BY SemType DEF Enter, Move, Goto, TypeOK, coordVars, countVars

LEMMA StepType ==
  ASSUME TypeOK, NEW w \in Workers, NEW a, NEW b \in WorkerPoints,
         Step(w, a, b)
  PROVE  TypeOK'
BY DEF Step, Move, Goto, TypeOK, coordVars, countVars

LEMMA LeaveType ==
  ASSUME TypeOK, NEW w \in Workers, NEW s \in Sems, NEW a,
         NEW b \in WorkerPoints, Leave(w, s, a, b),
         loc' \in [Workers -> Locals],
         rows' \in SUBSET Workers
  PROVE  TypeOK'
BY SemType DEF Leave, Move, Goto, TypeOK, coordVars, countVars

LEMMA DiscoverType ==
  ASSUME TypeOK, NEW w \in Workers, Discover(w)
  PROVE  TypeOK'
<1> USE PointsType DEF Section
<1>1. CASE Start(w)
  BY <1>1, StepType DEF Start
<1>2. CASE EnterDisco(w)
  BY <1>2, EnterType DEF EnterDisco, Sems
<1>0. loc[w] \in Locals /\ config.dns_discovery \in BOOLEAN
  BY DEF TypeOK, ConfigFields
<1>3. CASE Resolve(w)
  <2>1. [loc[w] EXCEPT !.named = TRUE, !.exist = config.dns_discovery,
                       !.dnsok = config.dns_discovery] \in Locals
    BY <1>0 DEF Locals
  <2>2. loc' \in [Workers -> Locals]
    BY <1>3, <2>1 DEF Resolve, TypeOK
  <2> QED
    BY <1>3, <2>2 DEF Resolve, Move, Goto, AddRow, TypeOK, coordVars, countVars
<1>4. CASE ResolveError(w)
  BY <1>4, LeaveType DEF ResolveError, AddRow, TypeOK, Sems
<1>5. CASE ReleaseError(w)
  <2>1. NoLocals \in Locals
    BY DEF NoLocals, Locals, Ttls
  <2> QED
    BY <1>5, <2>1, LeaveType DEF ReleaseError, TypeOK, Sems, Counting
<1>6. CASE Icmp(w)
  <2>1. \A t \in Ttls : [loc[w] EXCEPT !.ttl = t, !.exist = TRUE] \in Locals
    BY <1>0 DEF Locals
  <2>2. loc' \in [Workers -> Locals]
    BY <1>6, <2>1 DEF Icmp, TypeOK
  <2>3. rows' \in SUBSET Workers
    BY <1>6 DEF Icmp, AddRow, TypeOK
  <2> QED
    BY <1>6, <2>2, <2>3 DEF Icmp, Move, Goto, TypeOK, coordVars, countVars
<1>7. CASE Dns(w)
  <2>1. [loc[w] EXCEPT !.named = TRUE, !.dnsok = TRUE, !.exist = TRUE]
          \in Locals
    BY <1>0 DEF Locals
  <2>2. loc' \in [Workers -> Locals] /\ rows' \in SUBSET Workers
    BY <1>7, <2>1 DEF Dns, AddRow, TypeOK
  <2> QED
    BY <1>7, <2>2, LeaveType DEF Dns, Sems
<1> QED
  BY <1>1, <1>2, <1>3, <1>4, <1>5, <1>6, <1>7 DEF Discover

LEMMA TestType ==
  ASSUME TypeOK, NEW w \in Workers, Test(w)
  PROVE  TypeOK'
<1> USE PointsType DEF Section
<1>1. CASE NetbiosTest(w) \/ SmbTest(w) \/ FileTest(w) \/ SshTest(w)
  BY <1>1, StepType DEF NetbiosTest, SmbTest, FileTest, SshTest
<1>2. CASE EnterNetbios(w) \/ EnterTcp445(w) \/ EnterRegistry(w)
           \/ EnterFile(w) \/ EnterTcp22(w) \/ EnterSsh(w)
  BY <1>2, EnterType DEF EnterNetbios, EnterTcp445, EnterRegistry, EnterFile,
                         EnterTcp22, EnterSsh, Sems
<1>3. CASE Netbios(w)
  <2>1. [loc[w] EXCEPT !.netBIOS = TRUE] \in Locals
    BY DEF Locals, TypeOK
  <2>2. loc' \in [Workers -> Locals] /\ rows' \in SUBSET Workers
    BY <1>3, <2>1 DEF Netbios, TypeOK
  <2> QED
    BY <1>3, <2>2, LeaveType DEF Netbios, Sems
<1>4. CASE Tcp445(w) \/ Registry(w) \/ Files(w) \/ Tcp22(w) \/ Ssh(w)
  BY <1>4, LeaveType DEF Tcp445, Registry, Files, Tcp22, Ssh, TypeOK, Sems
<1> QED
  BY <1>1, <1>2, <1>3, <1>4 DEF Test

LEMMA AccountType ==
  ASSUME TypeOK, NEW w \in Workers, Account(w)
  PROVE  TypeOK'
<1> USE PointsType DEF Counting
<1>1. CASE ReleaseThread(w)
  <2>1. NoLocals \in Locals
    BY DEF NoLocals, Locals, Ttls
  <2> QED
    BY <1>1, <2>1, LeaveType DEF ReleaseThread, TypeOK, Sems
<1>2. CASE Count(w)
  BY <1>2, StepType DEF Count
<1>3. CASE EnterSync(w) \/ RawRead(w)
  BY <1>3 DEF EnterSync, RawRead, CountRead, Move, Goto, TypeOK, coordVars
<1>4. CASE LeaveSync(w) \/ RawWrite(w)
  BY <1>4 DEF LeaveSync, RawWrite, CountWrite, Move, Goto, TypeOK, coordVars
<1> QED
  BY <1>1, <1>2, <1>3, <1>4 DEF Account

LEMMA NextType == TypeOK /\ [Next]_vars => TypeOK'
<1> SUFFICES ASSUME TypeOK, [Next]_vars PROVE TypeOK'
  OBVIOUS
<1>1. CASE Stop
  BY <1>1 DEF Stop, TypeOK, coordVars, countVars
<1>2. CASE UNCHANGED vars
  BY <1>2 DEF vars, TypeOK, coordVars, countVars
<1> QED
  BY <1>1, <1>2, CoordinatorType, DiscoverType, TestType, AccountType
  DEF Next, ScanIp, Terminated

(* Every variable keeps its range, and no count leaves 0 .. Limit.         *)
THEOREM TypeCorrect == Spec => []TypeOK
BY InitType, NextType, PTL DEF Spec
-----------------------------------------------------------------------------
(* Counting the threads inside a section.                                  *)

LEMMA InsideFinite ==
  ASSUME NEW s
  PROVE  IsFiniteSet(Inside(s)) /\ Cardinality(Inside(s)) \in Nat
<1>1. IsFiniteSet(Workers)
  BY FS_Interval DEF Workers
<1>2. Inside(s) \subseteq Workers
  BY DEF Inside
<1> QED
  BY <1>1, <1>2, FS_Subset, FS_CardinalityType

(* A thread that moves leaves a section, enters it, or does neither.       *)
LEMMA MoveInside ==
  ASSUME TypeOK, NEW w \in Workers, NEW a, NEW b, Move(w, a, b), NEW s
  PROVE  /\ (a \in Section[s] <=> b \in Section[s]) =>
              Inside(s)' = Inside(s)
         /\ a \notin Section[s] /\ b \in Section[s] =>
              Cardinality(Inside(s))' = Cardinality(Inside(s)) + 1
         /\ a \in Section[s] /\ b \notin Section[s] =>
              Cardinality(Inside(s)) = Cardinality(Inside(s))' + 1
<1> USE DEF Move, Goto
<1>1. /\ wpc \in [Workers -> WorkerPoints]
      /\ wpc[w] = a
      /\ wpc' = [wpc EXCEPT ![w] = b]
  BY DEF TypeOK
<1>2. ASSUME a \in Section[s] <=> b \in Section[s]
      PROVE  Inside(s)' = Inside(s)
  BY <1>1, <1>2 DEF Inside
<1>3. ASSUME a \notin Section[s], b \in Section[s]
      PROVE  Cardinality(Inside(s))' = Cardinality(Inside(s)) + 1
  <2>1. w \notin Inside(s) /\ Inside(s)' = Inside(s) \union {w}
    BY <1>1, <1>3 DEF Inside
  <2> QED
    BY <2>1, InsideFinite, FS_AddElement
<1>4. ASSUME a \in Section[s], b \notin Section[s]
      PROVE  Cardinality(Inside(s)) = Cardinality(Inside(s))' + 1
  <2>1. w \in Inside(s) /\ Inside(s)' = Inside(s) \ {w}
    BY <1>1, <1>4 DEF Inside
  <2>2. Cardinality(Inside(s)') = Cardinality(Inside(s)) - 1
    BY <2>1, InsideFinite, FS_RemoveElement
  <2> QED
    BY <2>2, InsideFinite
<1> QED
  BY <1>2, <1>3, <1>4
-----------------------------------------------------------------------------
(* Entering and leaving a section, or moving within sections, conserves    *)
(* the permits of every semaphore.                                         *)

(* A move from a to b changes no section other than those in S.            *)
Neutral(a, b, S) ==
  \A t \in Sems \ S : a \in Section[t] <=> b \in Section[t]

LEMMA EnterConserves ==
  ASSUME TypeOK, PermitsConserved, NEW w \in Workers, NEW s \in Sems,
         NEW a, NEW b, Move(w, a, b), Wait(s), UNCHANGED <<handles, taken>>,
         a \notin Section[s], b \in Section[s], Neutral(a, b, {s})
  PROVE  PermitsConserved'
<1> SUFFICES ASSUME handles = "open", NEW t \in Sems
             PROVE  sem'[t] + Cardinality(Inside(t))' + taken[t] = Limit[t]
  BY DEF PermitsConserved
<1>1. sem[t] + Cardinality(Inside(t)) + taken[t] = Limit[t]
  BY DEF PermitsConserved
<1>2. sem[s] > 0 /\ sem' = [sem EXCEPT ![s] = @ - 1]
  BY DEF Wait
<1>3. CASE t = s
  <2>1. Cardinality(Inside(s))' = Cardinality(Inside(s)) + 1
    BY MoveInside
  <2> QED
    BY <1>1, <1>2, <1>3, <2>1, InsideFinite DEF TypeOK
<1>4. CASE t # s
  <2>1. Inside(t)' = Inside(t)
    BY <1>4, MoveInside DEF Neutral
  <2> QED
    BY <1>1, <1>2, <1>4, <2>1 DEF TypeOK
<1> QED
  BY <1>3, <1>4

LEMMA LeaveConserves ==
  ASSUME TypeOK, PermitsConserved, NEW w \in Workers, NEW s \in Sems,
         NEW a, NEW b, Move(w, a, b), Release(s), UNCHANGED <<handles, taken>>,
         a \in Section[s], b \notin Section[s], Neutral(a, b, {s})
  PROVE  PermitsConserved'
<1> SUFFICES ASSUME handles = "open", NEW t \in Sems
             PROVE  sem'[t] + Cardinality(Inside(t))' + taken[t] = Limit[t]
  BY DEF PermitsConserved
<1>1. \A r \in Sems : sem[r] + Cardinality(Inside(r)) + taken[r] = Limit[r]
  BY DEF PermitsConserved
<1>2. /\ Cardinality(Inside(s)) = Cardinality(Inside(s))' + 1
      /\ Cardinality(Inside(s))' \in Nat
  <2>1. Cardinality(Inside(s)) = Cardinality(Inside(s))' + 1
    BY MoveInside
  <2>2. w \in Inside(s) /\ Inside(s)' = Inside(s) \ {w}
    BY DEF Inside, Move, Goto, TypeOK
  <2> QED
    BY <2>1, <2>2, InsideFinite, FS_RemoveElement, FS_CardinalityType
<1>3. sem[s] < Limit[s]
  BY <1>1, <1>2 DEF TypeOK
<1>4. sem' = [sem EXCEPT ![s] = @ + 1]
  BY <1>3 DEF Release
<1>5. CASE t = s
  BY <1>1, <1>2, <1>4, <1>5 DEF TypeOK
<1>6. CASE t # s
  <2>1. Inside(t)' = Inside(t)
    BY <1>6, MoveInside DEF Neutral
  <2> QED
    BY <1>1, <1>4, <1>6, <2>1 DEF TypeOK
<1> QED
  BY <1>5, <1>6

LEMMA StepConserves ==
  ASSUME TypeOK, PermitsConserved, NEW w \in Workers,
         NEW a, NEW b, Move(w, a, b), UNCHANGED <<sem, handles, taken>>,
         Neutral(a, b, {})
  PROVE  PermitsConserved'
<1>1. \A t \in Sems : Inside(t)' = Inside(t)
  BY MoveInside DEF Neutral
<1> QED
  BY <1>1 DEF PermitsConserved
-----------------------------------------------------------------------------
(* The actions, one by one.                                                *)

LEMMA CoordinatorConserves ==
  ASSUME TypeOK, PermitsConserved, Coordinator
  PROVE  PermitsConserved'
<1> USE DEF coordVars
<1>1. CASE SpawnTest \/ Branch \/ PollDone \/ PollTimeout \/ DrainDone
           \/ Finish
  BY <1>1 DEF SpawnTest, Branch, PollDone, PollTimeout, DrainDone, Finish,
              PermitsConserved, Inside
<1>2. CASE Spawn
  <2>1. i \in Workers
    BY <1>2 DEF TypeOK, Spawn, Workers
  <2>2. "none" \notin Section["threads"] /\ "start" \in Section["threads"]
    BY DEF Section
  <2>3. Neutral("none", "start", {"threads"})
    BY DEF Neutral, Section, Sems
  <2> QED
    BY <1>2, <2>1, <2>2, <2>3, EnterConserves DEF Spawn, Sems
<1>3. ASSUME NEW s \in Sems, Drain(s) PROVE PermitsConserved'
  <2> SUFFICES ASSUME handles = "open", NEW t \in Sems
               PROVE  sem'[t] + Cardinality(Inside(t))' + taken'[t] = Limit[t]
    BY <1>3 DEF PermitsConserved, Drain
  <2>1. sem[t] + Cardinality(Inside(t)) + taken[t] = Limit[t]
    BY DEF PermitsConserved
  <2>2. Inside(t)' = Inside(t)
    BY <1>3 DEF Drain, Inside
  <2>3. sem[s] > 0 /\ sem' = [sem EXCEPT ![s] = @ - 1]
    BY <1>3 DEF Drain, Wait
  <2>4. taken' = [taken EXCEPT ![s] = @ + 1]
    BY <1>3 DEF Drain
  <2> QED
    BY <2>1, <2>2, <2>3, <2>4, InsideFinite DEF TypeOK
<1>4. CASE DrainThreads \/ DrainOthers
  BY <1>3, <1>4 DEF DrainThreads, DrainOthers, DrainOrder, Sems
<1>5. CASE CloseHandles
  BY <1>5 DEF CloseHandles, PermitsConserved
<1> QED
  BY <1>1, <1>2, <1>4, <1>5 DEF Coordinator

LEMMA DiscoverConserves ==
  ASSUME TypeOK, PermitsConserved, NEW w \in Workers, Discover(w)
  PROVE  PermitsConserved'
<1> USE DEF coordVars, Neutral, Section, Sems
<1>1. CASE Start(w)
  BY <1>1, StepConserves DEF Start, Step
<1>2. CASE EnterDisco(w)
  BY <1>2, EnterConserves DEF EnterDisco, Enter
<1>3. CASE Resolve(w)
  BY <1>3, StepConserves DEF Resolve
<1>4. CASE ResolveError(w)
  BY <1>4, LeaveConserves DEF ResolveError, Leave
<1>5. CASE ReleaseError(w)
  BY <1>5, LeaveConserves DEF ReleaseError, Leave
<1>6. CASE Icmp(w)
  <2>1. Move(w, "icmp", "dns") /\ UNCHANGED <<sem, handles, taken>>
    BY <1>6 DEF Icmp
  <2> QED
    BY <2>1, StepConserves
<1>7. CASE Dns(w)
  BY <1>7, LeaveConserves DEF Dns, Leave
<1> QED
  BY <1>1, <1>2, <1>3, <1>4, <1>5, <1>6, <1>7 DEF Discover

LEMMA TestConserves ==
  ASSUME TypeOK, PermitsConserved, NEW w \in Workers, Test(w)
  PROVE  PermitsConserved'
<1> USE DEF coordVars, Neutral, Section, Sems
<1>1. CASE NetbiosTest(w) \/ SmbTest(w) \/ FileTest(w) \/ SshTest(w)
  BY <1>1, StepConserves DEF NetbiosTest, SmbTest, FileTest, SshTest, Step
<1>2. CASE EnterNetbios(w) \/ EnterTcp445(w) \/ EnterRegistry(w)
  BY <1>2, EnterConserves DEF EnterNetbios, EnterTcp445, EnterRegistry, Enter
<1>3. CASE EnterFile(w) \/ EnterTcp22(w) \/ EnterSsh(w)
  BY <1>3, EnterConserves DEF EnterFile, EnterTcp22, EnterSsh, Enter
<1>4. CASE Netbios(w) \/ Tcp445(w) \/ Registry(w)
  BY <1>4, LeaveConserves DEF Netbios, Tcp445, Registry, Leave
<1>5. CASE Files(w) \/ Tcp22(w) \/ Ssh(w)
  BY <1>5, LeaveConserves DEF Files, Tcp22, Ssh, Leave
<1> QED
  BY <1>1, <1>2, <1>3, <1>4, <1>5 DEF Test

LEMMA AccountConserves ==
  ASSUME TypeOK, PermitsConserved, NEW w \in Workers, Account(w)
  PROVE  PermitsConserved'
<1> USE DEF coordVars, Neutral, Section, Sems
<1>1. CASE ReleaseThread(w)
  BY <1>1, LeaveConserves DEF ReleaseThread, Leave
<1>2. CASE Count(w)
  BY <1>2, StepConserves DEF Count, Step
<1>3. CASE EnterSync(w) \/ RawRead(w)
  BY <1>3, StepConserves DEF EnterSync, RawRead, CountRead
<1>4. CASE LeaveSync(w) \/ RawWrite(w)
  BY <1>4, StepConserves DEF LeaveSync, RawWrite, CountWrite
<1> QED
  BY <1>1, <1>2, <1>3, <1>4 DEF Account

LEMMA InitConserves == Init => PermitsConserved
<1> SUFFICES ASSUME Init, NEW s \in Sems
             PROVE  sem[s] + Cardinality(Inside(s)) + taken[s] = Limit[s]
  BY DEF PermitsConserved
<1>1. Inside(s) = {}
  BY DEF Init, Inside, Section, Sems
<1> QED
  BY <1>1, FS_EmptySet DEF Init

(* No path out of ScanIp loses or doubles a permit of any semaphore, so    *)
(* never more than Limit[s] threads are in the section s guards.           *)
THEOREM PermitsAreConserved == Spec => []PermitsConserved
<1>1. TypeOK /\ PermitsConserved /\ [Next]_vars => PermitsConserved'
  <2> SUFFICES ASSUME TypeOK, PermitsConserved, [Next]_vars
               PROVE  PermitsConserved'
    OBVIOUS
  <2>1. CASE Stop \/ UNCHANGED vars
    BY <2>1 DEF Stop, vars, coordVars, PermitsConserved, Inside
  <2> QED
    BY <2>1, CoordinatorConserves, DiscoverConserves, TestConserves,
       AccountConserves
    DEF Next, ScanIp, Terminated
<1> QED
  BY <1>1, InitConserves, TypeCorrect, PTL DEF Spec
-----------------------------------------------------------------------------
(* How a scan ends.                                                        *)

(* A worker's step that does not touch the counter: it moves w from a to b *)
(* and leaves alone what the coordinator works with.                       *)
Ordinary(w, a, b) ==
  /\ Move(w, a, b)
  /\ a \in Section["threads"] \union {"count"}
  /\ b \in Section["threads"] \union {"count", "w_sync", "raw"}
  /\ a = "count" => b \in {"w_sync", "raw"}
  /\ b = "raw" => ~scan_start
  /\ UNCHANGED <<config, scan_start, handles, coordVars, countVars>>

LEMMA DiscoverOrdinary ==
  ASSUME NEW w \in Workers, Discover(w)
  PROVE  \E a, b : Ordinary(w, a, b)
<1> USE DEF Ordinary, Section, coordVars, countVars
<1>1. CASE Start(w)
  BY <1>1 DEF Start, Step
<1>2. CASE EnterDisco(w)
  BY <1>2 DEF EnterDisco, Enter
<1>3. CASE Resolve(w)
  BY <1>3 DEF Resolve
<1>4. CASE ResolveError(w) \/ ReleaseError(w) \/ Dns(w)
  BY <1>4 DEF ResolveError, ReleaseError, Dns, Leave
<1>5. CASE Icmp(w)
  BY <1>5 DEF Icmp
<1> QED
  BY <1>1, <1>2, <1>3, <1>4, <1>5 DEF Discover

LEMMA TestOrdinary ==
  ASSUME NEW w \in Workers, Test(w)
  PROVE  \E a, b : Ordinary(w, a, b)
<1> USE DEF Ordinary, Section, coordVars, countVars
<1>1. CASE NetbiosTest(w) \/ SmbTest(w) \/ FileTest(w) \/ SshTest(w)
  BY <1>1 DEF NetbiosTest, SmbTest, FileTest, SshTest, Step
<1>2. CASE EnterNetbios(w) \/ EnterTcp445(w) \/ EnterRegistry(w)
           \/ EnterFile(w) \/ EnterTcp22(w) \/ EnterSsh(w)
  BY <1>2 DEF EnterNetbios, EnterTcp445, EnterRegistry, EnterFile, EnterTcp22,
              EnterSsh, Enter
<1>3. CASE Netbios(w) \/ Tcp445(w) \/ Registry(w) \/ Files(w) \/ Tcp22(w)
           \/ Ssh(w)
  BY <1>3 DEF Netbios, Tcp445, Registry, Files, Tcp22, Ssh, Leave
<1> QED
  BY <1>1, <1>2, <1>3 DEF Test

(* Every step of a worker is ordinary or is one half of an increment.      *)
LEMMA WorkerStep ==
  ASSUME NEW w \in Workers, ScanIp(w)
  PROVE  \/ \E a, b : Ordinary(w, a, b)
         \/ EnterSync(w) \/ LeaveSync(w) \/ RawRead(w) \/ RawWrite(w)
<1> USE DEF Ordinary, Section, coordVars, countVars
<1>1. CASE ReleaseThread(w)
  BY <1>1 DEF ReleaseThread, Leave
<1>2. CASE Count(w) /\ scan_start
  <2>1. Ordinary(w, "count", "w_sync")
    BY <1>2 DEF Count, Step, Move, Goto
  <2> QED
    BY <2>1
<1>3. CASE Count(w) /\ ~scan_start
  <2>1. Ordinary(w, "count", "raw")
    BY <1>3 DEF Count, Step, Move, Goto
  <2> QED
    BY <2>1
<1> QED
  BY <1>1, <1>2, <1>3, DiscoverOrdinary, TestOrdinary DEF ScanIp, Account
-----------------------------------------------------------------------------
LEMMA DoneFinite == IsFiniteSet(Done) /\ Cardinality(Done) \in Nat
<1>1. IsFiniteSet(Workers)
  BY FS_Interval DEF Workers
<1>2. Done \subseteq Workers
  BY DEF Done
<1> QED
  BY <1>1, <1>2, FS_Subset, FS_CardinalityType

LEMMA DoneSame ==
  ASSUME TypeOK, NEW w \in Workers, NEW a, NEW b, Move(w, a, b),
         a # "done", b # "done"
  PROVE  Done' = Done
BY DEF TypeOK, Move, Goto, Done

LEMMA DoneGrows ==
  ASSUME TypeOK, NEW w \in Workers, NEW a, Move(w, a, "done"), a # "done"
  PROVE  Cardinality(Done)' = Cardinality(Done) + 1
<1>1. w \notin Done /\ Done' = Done \union {w}
  BY DEF TypeOK, Move, Goto, Done
<1> QED
  BY <1>1, DoneFinite, FS_AddElement

LEMMA OrdinaryDone ==
  ASSUME TypeOK, NEW w \in Workers, NEW a, NEW b, Ordinary(w, a, b)
  PROVE  Done' = Done
BY DoneSame DEF Ordinary, Section

(* The coordinator and Stop do not move workers except for Spawn.          *)
LEMMA CoordinatorDone ==
  ASSUME TypeOK, Stop \/ Coordinator
  PROVE  /\ Done' = Done
         /\ UNCHANGED countVars
         /\ \A w \in Workers : wpc'[w] \in {"in_sync", "raw", "in_raw"} =>
              wpc'[w] = wpc[w]
         /\ scan_start' => scan_start
<1>1. CASE Spawn
  <2>1. i \in Workers
    BY <1>1 DEF TypeOK, Spawn, Workers
  <2>2. Done' = Done
    BY <1>1, <2>1, DoneSame DEF Spawn
  <2>3. wpc' = [wpc EXCEPT ![i] = "start"]
    BY <1>1 DEF Spawn, Move, Goto
  <2>4. \A w \in Workers : wpc'[w] # "start" => wpc'[w] = wpc[w]
    BY <2>1, <2>3 DEF TypeOK
  <2>5. UNCHANGED countVars /\ UNCHANGED scan_start
    BY <1>1 DEF Spawn, countVars
  <2> QED
    BY <2>2, <2>4, <2>5
<1>2. CASE Stop \/ SpawnTest \/ Branch \/ PollDone \/ PollTimeout
           \/ DrainDone \/ CloseHandles \/ Finish
  BY <1>2 DEF Stop, SpawnTest, Branch, PollDone, PollTimeout, DrainDone,
              CloseHandles, Finish, Done
<1>3. CASE DrainThreads \/ DrainOthers
  BY <1>3 DEF DrainThreads, DrainOthers, Drain, Done
<1> QED
  BY <1>1, <1>2, <1>3 DEF Coordinator

LEMMA CounterStep == TypeOK /\ CounterInv /\ [Next]_vars => CounterInv'
<1> SUFFICES ASSUME TypeOK, CounterInv, [Next]_vars PROVE CounterInv'
  OBVIOUS
<1> USE DEF CounterInv, NeverOverCounted
<1>1. CASE Stop \/ Coordinator
  BY <1>1, CoordinatorDone DEF countVars
<1>2. ASSUME NEW w \in Workers, NEW a, NEW b, Ordinary(w, a, b)
      PROVE  CounterInv'
  BY <1>2, OrdinaryDone DEF Ordinary, Move, Goto, Section, TypeOK, countVars
<1>3. ASSUME NEW w \in Workers, EnterSync(w) \/ RawRead(w)
      PROVE  CounterInv'
  <2>1. Done' = Done
    BY <1>3, DoneSame DEF EnterSync, RawRead, CountRead
  <2> QED
    BY <1>3, <2>1 DEF EnterSync, RawRead, CountRead, Move, Goto, TypeOK
<1>4. ASSUME NEW w \in Workers, LeaveSync(w) \/ RawWrite(w)
      PROVE  CounterInv'
  <2>1. Cardinality(Done)' = Cardinality(Done) + 1
    BY <1>4, DoneGrows DEF LeaveSync, RawWrite, CountWrite
  <2>2. tmp[w] <= Cardinality(Done) /\ nb_test_ip' = tmp[w] + 1
    BY <1>4 DEF LeaveSync, RawWrite, CountWrite, Move
  <2>3. nb_test_ip' <= Cardinality(Done)'
    BY <2>1, <2>2, DoneFinite DEF TypeOK
  <2>4. ASSUME NEW v \in Workers, wpc'[v] \in {"in_sync", "in_raw"}
        PROVE  tmp'[v] <= Cardinality(Done)'
    <3>1. v # w /\ wpc'[v] = wpc[v] /\ tmp'[v] = tmp[v]
      BY <1>4, <2>4 DEF LeaveSync, RawWrite, CountWrite, Move, Goto, TypeOK
    <3>2. tmp[v] <= Cardinality(Done) /\ tmp[v] \in Nat
      BY <2>4, <3>1 DEF TypeOK
    <3> QED
      BY <2>1, <3>1, <3>2, DoneFinite
  <2> QED
    BY <2>3, <2>4
<1>5. CASE UNCHANGED vars
  BY <1>5 DEF vars, countVars, Done
<1> QED
  BY <1>1, <1>2, <1>3, <1>4, <1>5, WorkerStep DEF Next, Terminated

LEMMA InitCounter == Init => CounterInv /\ ExactInv
<1> SUFFICES ASSUME Init PROVE CounterInv /\ ExactInv
  OBVIOUS
<1>1. Done = {}
  BY DEF Init, Done
<1> QED
  BY <1>1, FS_EmptySet
  DEF Init, CounterInv, ExactInv, NeverOverCounted, CountExact

(* Lost updates after a Stop only lose: nb_test_ip is never ahead of the   *)
(* threads that ended, which is what the polling branch relies on.         *)
THEOREM CounterNeverAhead == Spec => []NeverOverCounted
<1>1. CounterInv => NeverOverCounted
  BY DEF CounterInv
<1> QED
  BY <1>1, InitCounter, CounterStep, TypeCorrect, PTL DEF Spec

LEMMA ExactStep == TypeOK /\ ExactInv /\ [Next]_vars => ExactInv'
<1> SUFFICES ASSUME TypeOK, ExactInv, [Next]_vars PROVE ExactInv'
  OBVIOUS
<1> USE DEF ExactInv, CountExact
<1>1. CASE Stop \/ Coordinator
  BY <1>1, CoordinatorDone DEF countVars
<1>2. ASSUME NEW w \in Workers, NEW a, NEW b, Ordinary(w, a, b)
      PROVE  ExactInv'
  BY <1>2, OrdinaryDone DEF Ordinary, Move, Goto, Section, TypeOK, countVars
<1>3. ASSUME NEW w \in Workers, EnterSync(w) PROVE ExactInv'
  <2>1. Done' = Done
    BY <1>3, DoneSame DEF EnterSync, CountRead
  <2>2. \A v \in Workers : wpc[v] # "in_sync"
    BY <1>3 DEF EnterSync, NoOwner, Workers
  <2> QED
    BY <1>3, <2>1, <2>2 DEF EnterSync, CountRead, Move, Goto, TypeOK
<1>4. ASSUME NEW w \in Workers, LeaveSync(w) PROVE ExactInv'
  <2>1. Cardinality(Done)' = Cardinality(Done) + 1
    BY <1>4, DoneGrows DEF LeaveSync, CountWrite
  <2>2. \A v \in Workers \ {w} : wpc[v] # "in_sync"
    BY <1>4 DEF LeaveSync, CountWrite, Move
  <2> QED
    BY <1>4, <2>1, <2>2 DEF LeaveSync, CountWrite, Move, Goto, TypeOK
<1>5. ASSUME NEW w \in Workers, RawRead(w) \/ RawWrite(w) PROVE ExactInv'
  BY <1>5 DEF RawRead, RawWrite, CountRead, CountWrite, Move, Goto, TypeOK
<1>6. CASE UNCHANGED vars
  BY <1>6 DEF vars, countVars, Done
<1> QED
  BY <1>1, <1>2, <1>3, <1>4, <1>5, <1>6, WorkerStep DEF Next, Terminated

(* Until somebody clears scan_start the counter in the title is exact.     *)
THEOREM CounterExact == Spec => []CountExact
<1>1. ExactInv => CountExact
  BY DEF ExactInv
<1> QED
  BY <1>1, InitCounter, ExactStep, TypeCorrect, PTL DEF Spec
-----------------------------------------------------------------------------
(* Where the coordinator is, and what that says of its threads.            *)

(* A worker, once created, never falls back: not to "none", and not from   *)
(* counting to testing.                                                    *)
Advances(w) ==
  /\ \E b \in WorkerPoints \ {"none"} : wpc' = [wpc EXCEPT ![w] = b]
  /\ wpc[w] # "none"
  /\ wpc[w] \in Counting => wpc'[w] \in Counting \union {"done"}
  /\ wpc[w] # "done"
  /\ UNCHANGED <<config, scan_start, handles, coordVars>>

LEMMA WorkerAdvances ==
  ASSUME TypeOK, NEW w \in Workers, ScanIp(w)
  PROVE  Advances(w)
<1> USE DEF Advances, Move, Goto, Counting, TypeOK
<1>1. ASSUME NEW a, NEW b, Ordinary(w, a, b) PROVE Advances(w)
  <2>1. b \in WorkerPoints \ {"none"}
    BY <1>1 DEF Ordinary, WorkerPoints, Section
  <2> QED
    BY <1>1, <2>1 DEF Ordinary, Section
<1>2. CASE EnterSync(w) \/ RawRead(w)
  BY <1>2 DEF EnterSync, RawRead, CountRead, WorkerPoints
<1>3. CASE LeaveSync(w) \/ RawWrite(w)
  BY <1>3 DEF LeaveSync, RawWrite, CountWrite, WorkerPoints
<1> QED
  BY <1>1, <1>2, <1>3, WorkerStep

LEMMA InitPhase == Init => PhaseInv
BY DEF Init, PhaseInv, Workers, Sems

(* The drain has taken every permit of hs_threads: nobody can hold one.    *)
LEMMA DrainQuiet ==
  ASSUME TypeOK, PermitsConserved, PhaseInv, DrainDone
  PROVE  Quiet
<1>1. handles = "open" /\ taken["threads"] = Limit["threads"]
  BY DEF DrainDone, PhaseInv
<1>2. "threads" \in Sems
  BY DEF Sems
<1>3. sem["threads"] + Cardinality(Inside("threads")) + taken["threads"]
        = Limit["threads"]
  BY <1>1, <1>2 DEF PermitsConserved
<1>4. sem["threads"] \in Nat /\ Limit["threads"] \in Nat
  BY <1>2 DEF TypeOK
<1>5. Cardinality(Inside("threads")) = 0
  BY <1>1, <1>3, <1>4, InsideFinite
<1>6. Inside("threads") = {}
  BY <1>5, InsideFinite, FS_EmptySet
<1>7. ASSUME NEW w \in Workers, w < i
      PROVE  wpc[w] \in Counting \union {"done"}
  <2>1. wpc[w] # "none"
    BY <1>7 DEF PhaseInv, TypeOK, Workers
  <2>2. wpc[w] \notin Section["threads"]
    BY <1>6 DEF Inside
  <2> QED
    BY <2>1, <2>2 DEF TypeOK, WorkerPoints
<1> QED
  BY <1>7 DEF Quiet

(* The counter reached the number of threads created: all of them ended.   *)
LEMMA PollQuiet ==
  ASSUME TypeOK, CounterInv, PhaseInv, PollDone
  PROVE  Quiet
<1> DEFINE Created == 0 .. i - 1
<1>1. i \in Nat /\ IsFiniteSet(Created) /\ Cardinality(Created) = i
  BY FS_Interval DEF TypeOK
<1>2. Done \subseteq Created
  BY DEF Done, PhaseInv, Workers, TypeOK
<1>3. Cardinality(Done) >= i
  BY <1>1, DoneFinite DEF CounterInv, NeverOverCounted, PollDone, TypeOK
<1>4. Cardinality(Done) <= i
  BY <1>1, <1>2, FS_Subset
<1>5. Cardinality(Created) = Cardinality(Done)
  BY <1>1, <1>3, <1>4, DoneFinite
<1>6. Done = Created
  BY <1>1, <1>2, <1>5, FS_Subset
<1> QED
  BY <1>1, <1>6 DEF Quiet, Done, Workers

LEMMA PhaseStep ==
  TypeOK /\ PermitsConserved /\ CounterInv /\ PhaseInv /\ [Next]_vars
    => PhaseInv'
<1> SUFFICES ASSUME TypeOK, PermitsConserved, CounterInv, PhaseInv, [Next]_vars
             PROVE  PhaseInv'
  OBVIOUS
<1> USE DEF PhaseInv, Quiet
<1>0. i \in Nat /\ Limit["threads"] # 0 /\ taken \in [Sems -> Nat]
  BY DEF TypeOK, Sems
<1>1. CASE Stop
  BY <1>1 DEF Stop, coordVars
<1>2. CASE SpawnTest
  BY <1>0, <1>2 DEF SpawnTest, TypeOK
<1>3. CASE Spawn
  <2>1. i \in Workers /\ i < NbIp
    BY <1>3 DEF TypeOK, Spawn, Workers
  <2>2. wpc' = [wpc EXCEPT ![i] = "start"] /\ i' = i + 1
    BY <1>3 DEF Spawn, Move, Goto
  <2>3. \A w \in Workers : wpc'[w] = "none" <=> i' <= w
    BY <1>0, <2>1, <2>2 DEF TypeOK, Workers
  <2> QED
    BY <1>0, <1>3, <2>3 DEF Spawn
<1>4. CASE Branch
  BY <1>0, <1>4 DEF Branch
<1>5. CASE PollDone
  BY <1>0, <1>5, PollQuiet DEF PollDone
<1>6. CASE PollTimeout
  BY <1>0, <1>6 DEF PollTimeout
<1>7. ASSUME NEW s \in Sems, Drain(s) PROVE PhaseInv'
  BY <1>0, <1>7 DEF Drain, Sems
<1>8. CASE DrainThreads \/ DrainOthers
  BY <1>7, <1>8 DEF DrainThreads, DrainOthers, DrainOrder, Sems
<1>9. CASE DrainDone
  BY <1>0, <1>9, DrainQuiet DEF DrainDone
<1>10. CASE CloseHandles
  BY <1>10 DEF CloseHandles
<1>11. CASE Finish
  BY <1>11 DEF Finish
<1>12. ASSUME NEW w \in Workers, ScanIp(w) PROVE PhaseInv'
  BY <1>12, WorkerAdvances DEF Advances, coordVars, TypeOK
<1>13. CASE UNCHANGED vars
  BY <1>13 DEF vars, coordVars
<1> QED
  BY <1>1, <1>2, <1>3, <1>4, <1>5, <1>6, <1>8, <1>9, <1>10, <1>11, <1>12, <1>13
  DEF Next, Coordinator, Terminated

LEMMA PhasesHold == Spec => []PhaseInv
BY InitPhase, PhaseStep, InitCounter, CounterStep, PermitsAreConserved,
   TypeCorrect, PTL DEF Spec

(* Closing the seven handles takes them from nobody, except after the      *)
(* timeout of the polling branch.                                          *)
THEOREM ClosingIsSafe == Spec => []CloseSafe
<1>1. TypeOK /\ PhaseInv => CloseSafe
  <2> SUFFICES ASSUME TypeOK, PhaseInv, handles = "closed", ~timedOut,
                      NEW w \in Workers
               PROVE  wpc[w] \in Counting \union {"none", "done"}
    BY DEF CloseSafe
  <2>1. Quiet
    BY DEF PhaseInv, TypeOK, CoordPoints
  <2> QED
    BY <2>1 DEF Quiet, PhaseInv, TypeOK, Workers
<1> QED
  BY <1>1, PhasesHold, TypeCorrect, PTL

(* A scan whose permits were all taken back tested its whole list.         *)
THEOREM DrainTestsAll == Spec => []DrainedMeansTested
<1>1. TypeOK /\ PhaseInv => DrainedMeansTested
  <2> SUFFICES ASSUME TypeOK, PhaseInv, handles = "closed",
                      taken["threads"] = Limit["threads"], NEW w \in Workers
               PROVE  wpc[w] \in Counting \union {"done"}
    BY DEF DrainedMeansTested
  <2>1. taken["threads"] # 0
    BY DEF Sems
  <2>2. Quiet /\ i = NbIp
    BY <2>1 DEF PhaseInv, TypeOK, CoordPoints
  <2> QED
    BY <2>2 DEF Quiet, Workers
<1> QED
  BY <1>1, PhasesHold, TypeCorrect, PTL
-----------------------------------------------------------------------------
(* Refinement of ScanContract.                                             *)

StatusOf(l) ==
  IF l = "none" THEN "todo"
  ELSE IF l \in Section["threads"] THEN "testing" ELSE "tested"

LEMMA StatusMoves ==
  ASSUME TypeOK, NEW w \in Workers, NEW b, wpc' = [wpc EXCEPT ![w] = b]
  PROVE  Status' = [Status EXCEPT ![w] = StatusOf(b)]
BY DEF Status, StatusOf, TypeOK

LEMMA StatusValue ==
  ASSUME NEW w \in Workers
  PROVE  Status[w] = StatusOf(wpc[w])
BY DEF Status, StatusOf

USE DEF Contract!Addresses

LEMMA ContractInit == Init => Contract!Init
<1> SUFFICES ASSUME Init PROVE Contract!Init
  OBVIOUS
<1>1. Status = [w \in Workers |-> "todo"]
  BY DEF Init, Status
<1> QED
  BY <1>1 DEF Init, Contract!Init, Workers

(* The coordinator only moves threads when it creates one; a step of its   *)
(* own that leaves handles and scan_start alone is invisible.              *)
LEMMA ContractStutter ==
  ASSUME UNCHANGED <<wpc, scan_start, handles>>,
         handles = "open" \/ UNCHANGED timedOut,
         (scan_start \/ pc = "w_threads") <=> (scan_start \/ pc' = "w_threads")
  PROVE  UNCHANGED Contract!vars
<1>1. Status' = Status
  BY DEF Status
<1>2. (scan_start \/ pc = "w_threads")' = (scan_start \/ pc = "w_threads")
  OBVIOUS
<1> QED
  BY <1>1, <1>2 DEF Contract!vars

LEMMA ContractSpawn ==
  ASSUME TypeOK, PhaseInv, Spawn
  PROVE  Contract!Begin(i)
<1>1. i \in Workers /\ i \in Nat
  BY DEF TypeOK, Spawn, Workers
<1>2. /\ wpc' = [wpc EXCEPT ![i] = "start"]
      /\ wpc[i] = "none"
      /\ pc = "w_threads" /\ pc' = "spawn"
      /\ UNCHANGED <<scan_start, handles, timedOut>>
  BY DEF Spawn, Move, Goto
<1>3. handles = "open"
  BY <1>2 DEF PhaseInv
<1>4. Status[i] = "todo"
  BY <1>1, <1>2, StatusValue DEF StatusOf
<1>5. \A b \in 0 .. i - 1 : Status[b] # "todo"
  <2> TAKE b \in 0 .. i - 1
  <2>1. b \in Workers /\ wpc[b] # "none"
    BY <1>1 DEF PhaseInv, Workers
  <2> QED
    BY <2>1, StatusValue DEF StatusOf
<1>6. Status' = [Status EXCEPT ![i] = "testing"]
  BY <1>1, <1>2, StatusMoves DEF StatusOf, Section
<1>7. (scan_start \/ pc = "w_threads")' = ~(~scan_start)
  BY <1>2 DEF TypeOK
<1> QED
  BY <1>2, <1>3, <1>4, <1>5, <1>6, <1>7 DEF Contract!Begin

LEMMA ContractClose ==
  ASSUME TypeOK, PhaseInv, CloseHandles
  PROVE  Contract!End \/ Contract!GiveUp
<1>1. /\ pc = "close" /\ pc' = "report"
      /\ handles = "open" /\ handles' = "closed"
      /\ UNCHANGED <<scan_start, timedOut, wpc>>
  BY DEF CloseHandles, PhaseInv
<1>2. Status' = Status
  BY <1>1 DEF Status
<1>3. (scan_start \/ pc = "w_threads")' = (scan_start \/ pc = "w_threads")
  BY <1>1
<1>4. CASE timedOut
  <2>1. ~scan_start
    BY <1>4 DEF PhaseInv
  <2> QED
    BY <1>1, <1>2, <1>3, <1>4, <2>1 DEF Contract!GiveUp
<1>5. CASE ~timedOut
  <2>1. Quiet
    BY <1>1, <1>5 DEF PhaseInv
  <2>2. \A a \in Workers : Status[a] # "testing"
    <3> TAKE a \in Workers
    <3>1. wpc[a] \in Counting \union {"none", "done"}
      BY <2>1 DEF Quiet, PhaseInv, TypeOK, Workers
    <3> QED
      BY <3>1, StatusValue DEF StatusOf, Counting, Section
  <2>3. i = NbIp => \A a \in Workers : Status[a] = "tested"
    <3> SUFFICES ASSUME i = NbIp, NEW a \in Workers PROVE Status[a] = "tested"
      OBVIOUS
    <3>1. wpc[a] \in Counting \union {"done"}
      BY <2>1 DEF Quiet, Workers
    <3> QED
      BY <3>1, StatusValue DEF StatusOf, Counting, Section
  <2>4. ~scan_start \/ i = NbIp
    BY <1>1 DEF PhaseInv
  <2> QED
    BY <1>1, <1>2, <1>3, <1>5, <2>2, <2>3, <2>4 DEF Contract!End, Workers
<1> QED
  BY <1>4, <1>5

LEMMA ContractWorker ==
  ASSUME TypeOK, NEW w \in Workers, ScanIp(w)
  PROVE  Contract!Complete(w) \/ UNCHANGED Contract!vars
<1>1. Advances(w)
  BY WorkerAdvances
<1>2. PICK b \in WorkerPoints \ {"none"} : wpc' = [wpc EXCEPT ![w] = b]
  BY <1>1 DEF Advances
<1>3. Status' = [Status EXCEPT ![w] = StatusOf(b)]
  BY <1>2, StatusMoves
<1>4. /\ UNCHANGED <<scan_start, handles, timedOut, pc>>
      /\ wpc[w] # "none" /\ wpc[w] # "done" /\ wpc'[w] = b
      /\ wpc[w] \in Counting => b \in Counting \union {"done"}
  BY <1>1, <1>2 DEF Advances, coordVars, TypeOK
<1>5. Status[w] = StatusOf(wpc[w])
  BY StatusValue
<1>6. CASE StatusOf(b) = Status[w]
  <2>1. Status' = Status
    BY <1>3, <1>6 DEF Status
  <2> QED
    BY <1>4, <2>1 DEF Contract!vars
<1>7. CASE StatusOf(b) # Status[w]
  <2>1. wpc[w] \in Section["threads"]
    BY <1>4, <1>5, <1>7 DEF StatusOf, TypeOK, WorkerPoints, Counting, Section
  <2>2. Status[w] = "testing"
    BY <1>4, <1>5, <2>1 DEF StatusOf
  <2>3. StatusOf(b) = "tested"
    BY <1>2, <1>7, <2>2 DEF StatusOf
  <2> QED
    BY <1>3, <1>4, <2>2, <2>3 DEF Contract!Complete
<1> QED
  BY <1>6, <1>7

LEMMA ContractStep ==
  TypeOK /\ PhaseInv /\ [Next]_vars => [Contract!Next]_(Contract!vars)
<1> SUFFICES ASSUME TypeOK, PhaseInv, [Next]_vars
             PROVE  [Contract!Next]_(Contract!vars)
  OBVIOUS
<1>1. CASE Stop
  <2>1. Status' = Status
    BY <1>1 DEF Stop, Status
  <2> QED
    BY <1>1, <2>1 DEF Stop, coordVars, Contract!Stop, Contract!Next
<1>2. CASE SpawnTest \/ Branch \/ PollDone \/ DrainDone \/ DrainThreads
           \/ DrainOthers
  BY <1>2, ContractStutter
  DEF SpawnTest, Branch, PollDone, DrainDone, DrainThreads, DrainOthers, Drain
<1>3. CASE PollTimeout
  BY <1>3, ContractStutter DEF PollTimeout, PhaseInv
<1>4. CASE Spawn
  <2>1. i \in Contract!Addresses
    BY <1>4 DEF TypeOK, Spawn
  <2> QED
    BY <1>4, <2>1, ContractSpawn DEF Contract!Next
<1>5. CASE CloseHandles
  BY <1>5, ContractClose DEF Contract!Next
<1>6. CASE Finish
  <2>1. Status' = Status
    BY <1>6 DEF Finish, Status
  <2>2. CASE scan_start
    BY <1>6, <2>1, <2>2 DEF Finish, Contract!Stop, Contract!Next
  <2>3. CASE ~scan_start
    BY <1>6, <2>1, <2>3, ContractStutter DEF Finish, TypeOK
  <2> QED
    BY <2>2, <2>3
<1>7. ASSUME NEW w \in Workers, ScanIp(w)
      PROVE  [Contract!Next]_(Contract!vars)
  BY <1>7, ContractWorker DEF Contract!Next, Workers
<1>8. CASE UNCHANGED vars
  BY <1>8, ContractStutter DEF vars, coordVars
<1> QED
  BY <1>1, <1>2, <1>3, <1>4, <1>5, <1>6, <1>7, <1>8
  DEF Next, Coordinator, Terminated

(* The threads and semaphores of NS together keep the promise a user sees. *)
THEOREM ScanKeepsContract == Spec => KeepsContract
BY ContractInit, ContractStep, PhasesHold, TypeCorrect, PTL
DEF Spec, KeepsContract, Contract!Spec
-----------------------------------------------------------------------------
(* The rows of the hosts found.                                            *)

(* Until its name or its answer is known a host does not count as found,   *)
(* and a host found by its name has its row at once.                       *)
HostsInv ==
  /\ \A w \in Workers :
       /\ wpc[w] \in {"none", "start", "w_disco", "resolve"} => ~loc[w].exist
       /\ wpc[w] = "icmp" /\ loc[w].exist => w \in rows
  /\ FoundHostHasRow

(* What HostsInv says of one worker.                                       *)
HostInv(w) ==
  /\ wpc[w] \in {"none", "start", "w_disco", "resolve"} => ~loc[w].exist
  /\ wpc[w] = "icmp" /\ loc[w].exist => w \in rows
  /\ wpc[w] \in {"dns", "netbios_test"} /\ loc[w].exist =>
       w \in rows \/ loc[w].ttl = "router"

LEMMA HostByHost == HostsInv <=> \A w \in Workers : HostInv(w)
BY DEF HostsInv, HostInv, FoundHostHasRow

(* A worker's step is not felt by another one.                             *)
LEMMA OtherHosts ==
  ASSUME TypeOK, HostsInv, NEW w \in Workers, ScanIp(w), NEW v \in Workers, v # w
  PROVE  HostInv(v)'
<1> USE DEF Enter, Leave, Step, Move, Goto, AddRow, coordVars, countVars
<1>1. (wpc')[v] = wpc[v] /\ (loc')[v] = loc[v] /\ rows \subseteq rows'
  <2>1. CASE Discover(w)
    BY <2>1 DEF Discover, Start, EnterDisco, Resolve, ResolveError, ReleaseError,
                Icmp, Dns, TypeOK
  <2>2. CASE Test(w)
    BY <2>2 DEF Test, NetbiosTest, EnterNetbios, Netbios, SmbTest, EnterTcp445, Tcp445,
                EnterRegistry, Registry, FileTest, EnterFile, Files, SshTest,
                EnterTcp22, Tcp22, EnterSsh, Ssh, TypeOK
  <2>3. CASE Account(w)
    BY <2>3 DEF Account, ReleaseThread, Count, EnterSync, LeaveSync, RawRead, RawWrite,
                CountRead, CountWrite, TypeOK
  <2> QED
    BY <2>1, <2>2, <2>3 DEF ScanIp
<1> QED
  BY <1>1, HostByHost DEF HostInv

LEMMA DiscoverHosts ==
  ASSUME TypeOK, HostsInv, NEW w \in Workers, Discover(w)
  PROVE  HostInv(w)'
<1> USE DEF HostInv, Move, Goto
<1>0. /\ loc[w] \in Locals /\ HostInv(w)
      /\ wpc \in [Workers -> WorkerPoints] /\ loc \in [Workers -> Locals]
      /\ config.dns_discovery \in BOOLEAN
  BY HostByHost DEF TypeOK, ConfigFields
<1>1. CASE Start(w)
  BY <1>0, <1>1 DEF Start, Step
<1>2. CASE EnterDisco(w)
  BY <1>0, <1>2 DEF EnterDisco, Enter
<1>3. CASE Resolve(w)
  <2>1. wpc'[w] = "icmp"
    BY <1>0, <1>3 DEF Resolve
  <2>2. loc'[w].exist => w \in rows'
    <3>1. CASE UNCHANGED <<loc, rows>>
      BY <1>0, <1>3, <3>1 DEF Resolve
    <3>2. CASE loc' = [loc EXCEPT ![w] =
                      [@ EXCEPT !.named = TRUE,
                                !.exist = config.dns_discovery,
                                !.dnsok = config.dns_discovery]]
               /\ (config.dns_discovery => AddRow(w))
      <4>1. loc'[w].exist = config.dns_discovery
        BY <1>0, <3>2 DEF Locals
      <4> QED
        BY <3>2, <4>1 DEF AddRow
    <3> QED
      BY <1>3, <3>1, <3>2 DEF Resolve
  <2> QED
    BY <2>1, <2>2
<1>4. CASE ResolveError(w)
  BY <1>0, <1>4 DEF ResolveError, Leave
<1>5. CASE ReleaseError(w)
  BY <1>0, <1>5 DEF ReleaseError, Leave
<1>6. CASE Icmp(w)
  <2>1. wpc'[w] = "dns" /\ wpc[w] = "icmp"
    BY <1>0, <1>6 DEF Icmp
  <2>2. loc'[w].exist => w \in rows' \/ loc'[w].ttl = "router"
    <3>1. CASE UNCHANGED <<loc, rows>>
      BY <1>0, <2>1, <3>1
    <3>2. ASSUME NEW t \in Ttls \ {"none"},
                 loc' = [loc EXCEPT ![w] = [@ EXCEPT !.ttl = t, !.exist = TRUE]],
                 IF ~loc[w].exist /\ t \in {"linux", "windows"} THEN AddRow(w)
                 ELSE UNCHANGED rows
          PROVE  w \in rows' \/ loc'[w].ttl = "router"
      <4>1. loc'[w].ttl = t
        BY <1>0, <3>2 DEF Locals
      <4> QED
        BY <1>0, <2>1, <3>2, <4>1 DEF AddRow, Ttls
    <3> QED
      BY <1>6, <3>1, <3>2 DEF Icmp
  <2> QED
    BY <2>1, <2>2
<1>7. CASE Dns(w)
  <2>1. wpc'[w] = "netbios_test" /\ wpc[w] = "dns"
    BY <1>0, <1>7 DEF Dns, Leave
  <2>2. loc'[w].exist => w \in rows' \/ loc'[w].ttl = "router"
    <3>1. CASE UNCHANGED <<loc, rows>>
      BY <1>0, <2>1, <3>1
    <3>2. CASE /\ loc' = [loc EXCEPT ![w] = [@ EXCEPT !.named = TRUE, !.dnsok = TRUE,
                                                      !.exist = TRUE]]
               /\ IF loc[w].exist THEN UNCHANGED rows ELSE AddRow(w)
      <4>1. loc'[w].ttl = loc[w].ttl
        BY <1>0, <3>2 DEF Locals
      <4> QED
        BY <1>0, <2>1, <3>2, <4>1 DEF AddRow
    <3> QED
      BY <1>7, <3>1, <3>2 DEF Dns
  <2> QED
    BY <2>1, <2>2
<1> QED
  BY <1>1, <1>2, <1>3, <1>4, <1>5, <1>6, <1>7 DEF Discover

(* Nobody goes back to the discovery.                                      *)
LEMMA TestedHosts ==
  ASSUME TypeOK, NEW w \in Workers, Test(w) \/ Account(w)
  PROVE  HostInv(w)'
<1> USE DEF Enter, Leave, Step, Move, Goto
<1>1. wpc'[w] \notin {"none", "start", "w_disco", "resolve", "icmp", "dns",
                      "netbios_test"}
  <2>1. CASE Test(w)
    BY <2>1 DEF Test, NetbiosTest, EnterNetbios, Netbios, SmbTest, EnterTcp445, Tcp445,
                EnterRegistry, Registry, FileTest, EnterFile, Files, SshTest,
                EnterTcp22, Tcp22, EnterSsh, Ssh, TypeOK
  <2>2. CASE Account(w)
    BY <2>2 DEF Account, ReleaseThread, Count, EnterSync, LeaveSync, RawRead, RawWrite,
                CountRead, CountWrite, TypeOK
  <2> QED
    BY <2>1, <2>2
<1> QED
  BY <1>1 DEF HostInv

LEMMA HostsStep == TypeOK /\ HostsInv /\ [Next]_vars => HostsInv'
<1> SUFFICES ASSUME TypeOK, HostsInv, [Next]_vars PROVE HostsInv'
  OBVIOUS
<1>1. ASSUME NEW w \in Workers, ScanIp(w) PROVE HostsInv'
  <2>1. HostInv(w)'
    BY <1>1, DiscoverHosts, TestedHosts DEF ScanIp
  <2>2. \A v \in Workers : HostInv(v)'
    BY <1>1, <2>1, OtherHosts
  <2> QED
    BY <2>2 DEF HostsInv, HostInv, FoundHostHasRow
<1>2. CASE Spawn
  <2>1. i \in Workers
    BY <1>2 DEF TypeOK, Spawn, Workers
  <2>2. /\ wpc[i] = "none" /\ wpc' = [wpc EXCEPT ![i] = "start"]
        /\ UNCHANGED <<loc, rows>>
    BY <1>2 DEF Spawn, Move, Goto
  <2> QED
    BY <2>1, <2>2 DEF HostsInv, FoundHostHasRow, TypeOK
<1>3. CASE Stop \/ SpawnTest \/ Branch \/ PollDone \/ PollTimeout \/ DrainDone
           \/ CloseHandles \/ Finish
  BY <1>3 DEF Stop, SpawnTest, Branch, PollDone, PollTimeout, DrainDone, CloseHandles,
              Finish, HostsInv, FoundHostHasRow
<1>4. CASE DrainThreads \/ DrainOthers \/ UNCHANGED vars
  BY <1>4 DEF DrainThreads, DrainOthers, Drain, vars, HostsInv, FoundHostHasRow
<1> QED
  BY <1>1, <1>2, <1>3, <1>4 DEF Next, Coordinator, Terminated

(* A host that was found, by its name or by its answer, has its row in the *)
(* list by the time its thread looks for NetBIOS, those with a TTL above   *)
(* 128 excepted.                                                           *)
THEOREM FoundHostsHaveRows == Spec => []FoundHostHasRow
<1>1. Init => HostsInv
  BY DEF Init, HostsInv, FoundHostHasRow, NoLocals
<1>2. HostsInv => FoundHostHasRow
  BY DEF HostsInv
<1> QED
  BY <1>1, <1>2, HostsStep, TypeCorrect, PTL DEF Spec
=============================================================================
