-------------------------- MODULE NSAutoScan_proofs --------------------------
(***************************************************************************)
(* Proofs about the automatic scan, for any list, limits and settings: the *)
(* permits of its seven semaphores, the way it ends, the contract of       *)
(* ScanContract; and its verdicts against the calendar.                    *)
(***************************************************************************)
EXTENDS NSAutoScan, FiniteSetTheorems, TLAPS

(* The points at which a worker has a permit of s or took one with it.     *)
Holding(s) == Section[s] \union (IF s = "threads" THEN {"lost"} ELSE {})

Holders(s) == {w \in Workers : wpc[w] \in Holding(s)}

Finished == {w \in Workers : wpc[w] = "done"}

(* The ranges, with the counter of tested addresses not ahead of the       *)
(* workers that ended.                                                     *)
RangesInv ==
  /\ TypeOK
  /\ sem \in [Sems -> Nat] /\ taken \in [Sems -> Nat]
  /\ pc = "w_threads" => i < NbIp
  /\ nb_test_ip <= Cardinality(Finished)

(* Free permits, holders and drained permits are all there are.            *)
PermitsInv ==
  handles = "open" =>
    \A s \in Sems : sem[s] + Cardinality(Holders(s)) + taken[s] = Limit[s]

(* What the point auto_scan has come to says of its workers.               *)
Quiet == \A w \in Workers : w < i => wpc[w] \in {"count", "done"}

PhaseInv ==
  /\ \A w \in Workers : wpc[w] = "none" <=> i <= w
  /\ handles = "open" <=> pc \notin {"save", "clear", "idle"}
  /\ pc \in {"branch", "close", "save", "clear", "idle"} =>
       ~scan_start \/ i = NbIp
  /\ pc = "poll" => ~scan_start
  /\ pc = "drain" => i = NbIp
  /\ timedOut => ~scan_start /\ pc \in {"close", "save", "clear", "idle"}
  /\ pc \in {"close", "save", "clear", "idle"} /\ ~timedOut => Quiet

ScanInv == RangesInv /\ PermitsInv /\ PhaseInv
-----------------------------------------------------------------------------
(* What a step of a worker is.                                             *)

(* A move from a to b changes who holds a permit for no semaphore but      *)
(* those in S.                                                             *)
Same(a, b, S) == \A t \in Sems \ S : a \in Holding(t) <=> b \in Holding(t)

Takes(s, a, b) ==
  Wait(s) /\ a \notin Holding(s) /\ b \in Holding(s) /\ Same(a, b, {s})

Gives(s, a, b) ==
  Release(s) /\ a \in Holding(s) /\ b \notin Holding(s) /\ Same(a, b, {s})

Keeps(a, b) == UNCHANGED sem /\ Same(a, b, {})

Advances(w, a, b) ==
  /\ Move(w, a, b)
  /\ a \in Section["threads"] \union {"count"}
  /\ b \in (Section["threads"] \ {"born"}) \union {"lost", "count", "done"}
  /\ a = "count" <=> b = "done"
  /\ Keeps(a, b) \/ \E s \in Sems : Takes(s, a, b) \/ Gives(s, a, b)
  /\ named' \subseteq named \union {w} /\ rows' \subseteq rows \union {w}
  /\ IF a = "count" THEN nb_test_ip' \in {nb_test_ip + 1} \union 1 .. nb_test_ip + 1
                    ELSE UNCHANGED nb_test_ip
  /\ UNCHANGED <<config, scan_start, handles, coordVars>>

(* Points between which a worker moves while it tests.                     *)
Path(a, b) ==
  /\ a \in Section["threads"]
  /\ b \in (Section["threads"] \ {"born"}) \union {"lost", "count"}

LEMMA StepAdvances ==
  ASSUME NEW w, NEW a, NEW b, Step(w, a, b), Path(a, b), Same(a, b, {})
  PROVE  Advances(w, a, b)
<1>1. a # "count" /\ b # "done"
  BY DEF Path, Section
<1> QED
  BY <1>1 DEF Step, Path, Advances, Keeps

LEMMA EnterAdvances ==
  ASSUME NEW w, NEW s \in Sems, NEW a, NEW b, EnterSection(w, s, a, b), Path(a, b),
         a \notin Holding(s), b \in Holding(s), Same(a, b, {s})
  PROVE  Advances(w, a, b)
<1>1. a # "count" /\ b # "done"
  BY DEF Path, Section
<1> QED
  BY <1>1 DEF EnterSection, Path, Advances, Takes

LEMMA LeaveAdvances ==
  ASSUME NEW w, NEW s \in Sems, NEW a, NEW b, LeaveSection(w, s, a, b), Path(a, b),
         a \in Holding(s), b \notin Holding(s), Same(a, b, {s}),
         named' \subseteq named \union {w}, rows' \subseteq rows \union {w}
  PROVE  Advances(w, a, b)
<1>1. a # "count" /\ b # "done"
  BY DEF Path, Section
<1> QED
  BY <1>1 DEF LeaveSection, Path, Advances, Gives

(* The entries into sections.                                              *)
Entry(s, a, b) ==
  /\ s \in Sems /\ Path(a, b) /\ Same(a, b, {s})
  /\ a \notin Holding(s) /\ b \in Holding(s)

LEMMA Entries ==
  /\ Entry("disco", "w_disco", "resolve")
  /\ Entry("netbios", "w_netbios", "netbios")
  /\ Entry("netbios", "reg_netbios", "registry")
  /\ Entry("netbios", "file_netbios", "files")
  /\ Entry("tcp", "w_tcp445", "tcp445")
  /\ Entry("tcp", "w_tcp22", "tcp22")
  /\ Entry("registry", "w_registry", "reg_netbios")
  /\ Entry("file", "w_file", "file_netbios")
  /\ Entry("ssh", "w_ssh", "ssh")
<1> USE DEF Entry, Path, Same, Holding, Section, Sems
<1>1. /\ Entry("disco", "w_disco", "resolve")
      /\ Entry("netbios", "w_netbios", "netbios")
  OBVIOUS
<1>2. /\ Entry("netbios", "reg_netbios", "registry")
      /\ Entry("netbios", "file_netbios", "files")
  OBVIOUS
<1>3. /\ Entry("tcp", "w_tcp445", "tcp445")
      /\ Entry("tcp", "w_tcp22", "tcp22")
  OBVIOUS
<1>4. /\ Entry("registry", "w_registry", "reg_netbios")
      /\ Entry("file", "w_file", "file_netbios")
  OBVIOUS
<1>5. Entry("ssh", "w_ssh", "ssh")
  OBVIOUS
<1> QED
  BY <1>1, <1>2, <1>3, <1>4, <1>5

LEMMA EntryAdvances ==
  ASSUME NEW w \in Workers,
         \/ EnterDisco(w) \/ EnterNetbios(w) \/ EnterTcp445(w) \/ EnterRegistry(w)
         \/ RegNetbios(w) \/ EnterFile(w) \/ FileNetbios(w) \/ EnterTcp22(w)
         \/ EnterSsh(w)
  PROVE  \E a, b : Advances(w, a, b)
<1>1. PICK s, a, b : EnterSection(w, s, a, b) /\ Entry(s, a, b)
  BY Entries
  DEF EnterDisco, EnterNetbios, EnterTcp445, EnterRegistry, RegNetbios, EnterFile,
      FileNetbios, EnterTcp22, EnterSsh
<1> QED
  BY <1>1, EnterAdvances DEF Entry

LEMMA WorkerAdvances ==
  ASSUME NEW w \in Workers, ScanIp_auto_scan(w)
  PROVE  \E a, b : Advances(w, a, b)
<1> USE DEF Path, Same, Holding, Section, Sems
<1>1. CASE Enter(w)
  <2>1. PICK b \in {"start", "lost"} : Step(w, "born", b)
    BY <1>1 DEF Enter
  <2> QED
    BY <2>1, StepAdvances
<1>2. CASE Start(w)
  <2>1. PICK b \in {"release", "w_disco"} : Step(w, "start", b)
    BY <1>2 DEF Start
  <2> QED
    BY <2>1, StepAdvances
<1>3. CASE Resolve(w)
  BY <1>3 DEF Resolve, Advances, Keeps
<1>4. CASE Ping(w)
  BY <1>4 DEF Ping, Advances, Keeps
<1>5. CASE ResolveError(w) \/ ReleaseError(w) \/ Dns(w) \/ Netbios(w)
  BY <1>5, LeaveAdvances DEF ResolveError, ReleaseError, Dns, Netbios
<1>6. CASE Tcp445(w) \/ Tcp22(w)
  <2>1. /\ \/ \E b \in {"w_registry", "ssh_test"} : LeaveSection(w, "tcp", "tcp445", b)
           \/ \E b \in {"w_ssh", "release"} : LeaveSection(w, "tcp", "tcp22", b)
        /\ UNCHANGED <<named, rows>>
    BY <1>6 DEF Tcp445, Tcp22
  <2> QED
    BY <2>1, LeaveAdvances
<1>7. CASE Registry(w) \/ LeaveRegistry(w)
  BY <1>7, LeaveAdvances DEF Registry, LeaveRegistry
<1>8. CASE Files(w) \/ LeaveFile(w)
  BY <1>8, LeaveAdvances DEF Files, LeaveFile
<1>9. CASE Ssh(w) \/ ReleaseThread(w)
  BY <1>9, LeaveAdvances DEF Ssh, ReleaseThread
<1>10. CASE NetbiosTest(w) \/ TcpTest(w) \/ SshTest(w) \/ FileTest(w)
  <2>1. \/ \E b \in {"w_netbios", "tcp_test"} : Step(w, "netbios_test", b)
        \/ \E b \in {"w_tcp445", "ssh_test"} : Step(w, "tcp_test", b)
        \/ \E b \in {"w_tcp22", "release"} : Step(w, "ssh_test", b)
        \/ \E b \in {"w_file", "ssh_test"} : Step(w, "file_test", b)
    BY <1>10 DEF NetbiosTest, TcpTest, SshTest, FileTest, Tested
  <2> QED
    BY <2>1, StepAdvances
<1>11. CASE Count(w)
  BY <1>11 DEF Count, Advances, Keeps
<1> QED
  BY <1>1, <1>2, <1>3, <1>4, <1>5, <1>6, <1>7, <1>8, <1>9, <1>10, <1>11,
     EntryAdvances
  DEF ScanIp_auto_scan
-----------------------------------------------------------------------------
(* Counting workers.                                                       *)

LEMMA WorkersFinite ==
  /\ IsFiniteSet(Workers)
  /\ \A S : S \subseteq Workers => IsFiniteSet(S) /\ Cardinality(S) \in Nat
<1>1. IsFiniteSet(Workers)
  BY FS_Interval, NbIpAssumption DEF Workers
<1> QED
  BY <1>1, FS_Subset, FS_CardinalityType

LEMMA HoldersFinite ==
  ASSUME NEW s
  PROVE  IsFiniteSet(Holders(s)) /\ Cardinality(Holders(s)) \in Nat
BY WorkersFinite DEF Holders

LEMMA FinishedFinite == IsFiniteSet(Finished) /\ Cardinality(Finished) \in Nat
BY WorkersFinite DEF Finished

(* Who moves from a to b begins to hold, ceases to hold, or neither.       *)
LEMMA MoveHolders ==
  ASSUME wpc \in [Workers -> WorkerPoints], NEW w \in Workers, NEW a, NEW b,
         Move(w, a, b), NEW s
  PROVE  /\ (a \in Holding(s) <=> b \in Holding(s)) => Holders(s)' = Holders(s)
         /\ a \notin Holding(s) /\ b \in Holding(s) =>
              Cardinality(Holders(s))' = Cardinality(Holders(s)) + 1
         /\ a \in Holding(s) /\ b \notin Holding(s) =>
              Cardinality(Holders(s)) = Cardinality(Holders(s))' + 1
<1>1. wpc[w] = a /\ wpc' = [wpc EXCEPT ![w] = b]
  BY DEF Move
<1>2. ASSUME a \in Holding(s) <=> b \in Holding(s)
      PROVE  Holders(s)' = Holders(s)
  BY <1>1, <1>2 DEF Holders
<1>3. ASSUME a \notin Holding(s), b \in Holding(s)
      PROVE  Cardinality(Holders(s))' = Cardinality(Holders(s)) + 1
  <2>1. w \notin Holders(s) /\ Holders(s)' = Holders(s) \union {w}
    BY <1>1, <1>3 DEF Holders
  <2> QED
    BY <2>1, HoldersFinite, FS_AddElement
<1>4. ASSUME a \in Holding(s), b \notin Holding(s)
      PROVE  Cardinality(Holders(s)) = Cardinality(Holders(s))' + 1
  <2>1. w \in Holders(s) /\ Holders(s)' = Holders(s) \ {w}
    BY <1>1, <1>4 DEF Holders
  <2>2. Cardinality(Holders(s)') = Cardinality(Holders(s)) - 1
    BY <2>1, HoldersFinite, FS_RemoveElement
  <2> QED
    BY <2>2, HoldersFinite
<1> QED
  BY <1>2, <1>3, <1>4

(* Holders are inside the section or, for hs_threads, lost with it.        *)
LEMMA HoldersAre ==
  ASSUME NEW s \in Sems
  PROVE  Cardinality(Holders(s)) =
           Cardinality(Inside(s)) + (IF s = "threads" THEN Cardinality(Lost) ELSE 0)
<1>1. CASE s = "threads"
  <2>1. Holders(s) = Inside(s) \union Lost /\ Inside(s) \intersect Lost = {}
    BY <1>1 DEF Holders, Holding, Inside, Lost, Section
  <2>2. /\ IsFiniteSet(Inside(s)) /\ Cardinality(Inside(s)) \in Nat
        /\ IsFiniteSet(Lost) /\ Cardinality(Lost) \in Nat
    BY WorkersFinite DEF Inside, Lost
  <2>3. Cardinality(Inside(s) \union Lost)
          = Cardinality(Inside(s)) + Cardinality(Lost)
              - Cardinality(Inside(s) \intersect Lost)
    BY <2>2, FS_Union
  <2>4. Cardinality(Inside(s) \intersect Lost) = 0
    BY <2>1, FS_EmptySet
  <2>5. Cardinality(Holders(s)) = Cardinality(Inside(s) \union Lost)
    BY <2>1
  <2>6. Cardinality(Holders(s)) = Cardinality(Inside(s)) + Cardinality(Lost)
    BY <2>2, <2>3, <2>4, <2>5
  <2> QED
    BY <1>1, <2>6
<1>2. CASE s # "threads"
  <2>1. Holders(s) = Inside(s)
    BY <1>2 DEF Holders, Holding, Inside
  <2>2. Cardinality(Inside(s)) \in Nat
    BY WorkersFinite DEF Inside
  <2> QED
    BY <1>2, <2>1, <2>2
<1> QED
  BY <1>1, <1>2
-----------------------------------------------------------------------------
(* Ranges.                                                                 *)

LEMMA SemRange ==
  ASSUME RangesInv, NEW s \in Sems, Wait(s) \/ Release(s)
  PROVE  sem' \in [Sems -> Nat] /\ \A t \in Sems : sem'[t] \in 0 .. Limit[t]
<1>1. \A t \in Sems : sem[t] \in 0 .. Limit[t] /\ Limit[t] \in Nat
  BY LimitAssumption DEF RangesInv, TypeOK
<1>2. CASE Wait(s)
  BY <1>1, <1>2 DEF RangesInv, Wait
<1>3. CASE Release(s)
  BY <1>1, <1>3 DEF RangesInv, Release
<1> QED
  BY <1>2, <1>3

LEMMA InitRanges == Init => RangesInv
<1> SUFFICES ASSUME Init PROVE RangesInv
  OBVIOUS
<1>1. /\ sem \in [Sems -> Nat] /\ taken \in [Sems -> Nat]
      /\ \A s \in Sems : sem[s] \in 0 .. Limit[s] /\ taken[s] \in 0 .. Limit[s]
  BY LimitAssumption DEF Init
<1>2. nb_test_ip <= Cardinality(Finished) /\ nb_test_ip \in 0 .. NbIp /\ i \in 0 .. NbIp
  BY FinishedFinite, NbIpAssumption DEF Init
<1>3. wpc \in [Workers -> WorkerPoints]
  BY DEF Init, WorkerPoints
<1> QED
  BY <1>1, <1>2, <1>3 DEF Init, RangesInv, TypeOK, CoordPoints

(* A worker ends once.                                                     *)
LEMMA StillFinished ==
  ASSUME wpc \in [Workers -> WorkerPoints], NEW w \in Workers, NEW a, NEW b,
         Move(w, a, b), a # "done"
  PROVE  /\ b # "done" => Finished' = Finished
         /\ b = "done" => Cardinality(Finished)' = Cardinality(Finished) + 1
<1>1. wpc[w] = a /\ wpc' = [wpc EXCEPT ![w] = b]
  BY DEF Move
<1>2. ASSUME b # "done" PROVE Finished' = Finished
  BY <1>1, <1>2 DEF Finished
<1>3. ASSUME b = "done" PROVE Cardinality(Finished)' = Cardinality(Finished) + 1
  <2>1. w \notin Finished /\ Finished' = Finished \union {w}
    BY <1>1, <1>3 DEF Finished
  <2> QED
    BY <2>1, FinishedFinite, FS_AddElement
<1> QED
  BY <1>2, <1>3

LEMMA WorkerRanges ==
  ASSUME RangesInv, NEW w \in Workers, NEW a, NEW b, Advances(w, a, b)
  PROVE  RangesInv'
<1>1. /\ wpc \in [Workers -> WorkerPoints] /\ Move(w, a, b)
      /\ nb_test_ip \in Nat /\ nb_test_ip <= Cardinality(Finished)
  BY NbIpAssumption DEF RangesInv, TypeOK, Advances
<1>2. wpc' \in [Workers -> WorkerPoints]
  BY <1>1 DEF Move, Advances, WorkerPoints
<1>3. sem' \in [Sems -> Nat] /\ \A t \in Sems : sem'[t] \in 0 .. Limit[t]
  BY SemRange DEF Advances, Keeps, Takes, Gives, RangesInv, TypeOK
<1>4. nb_test_ip' \in Nat /\ nb_test_ip' <= Cardinality(Finished)'
  <2>1. CASE a = "count"
    <3>1. b = "done" /\ nb_test_ip' \in {nb_test_ip + 1} \union 1 .. nb_test_ip + 1
      BY <2>1 DEF Advances
    <3>2. Cardinality(Finished)' = Cardinality(Finished) + 1
      BY <1>1, <2>1, <3>1, StillFinished
    <3> QED
      BY <1>1, <3>1, <3>2, FinishedFinite
  <2>2. CASE a # "count"
    <3>1. a # "done" /\ b # "done" /\ nb_test_ip' = nb_test_ip
      BY <2>2 DEF Advances, Section
    <3> QED
      BY <1>1, <3>1, StillFinished
  <2> QED
    BY <2>1, <2>2
<1>5. Cardinality(Finished)' <= NbIp /\ Cardinality(Finished)' \in Nat
  <2>1. Finished' \subseteq Workers
    BY DEF Finished
  <2>2. IsFiniteSet(Workers) /\ Cardinality(Workers) = NbIp
    BY FS_Interval, NbIpAssumption DEF Workers
  <2> QED
    BY <2>1, <2>2, FS_Subset, FS_CardinalityType
<1>6. nb_test_ip' \in 0 .. NbIp
  BY <1>4, <1>5, NbIpAssumption
<1> QED
  BY <1>2, <1>3, <1>4, <1>6 DEF Advances, RangesInv, TypeOK, coordVars

LEMMA CoordinatorRanges ==
  ASSUME RangesInv, AutoScan
  PROVE  RangesInv'
<1>0. /\ NbIp \in Nat /\ wpc \in [Workers -> WorkerPoints] /\ "threads" \in Sems
      /\ Limit \in [Sems -> Nat \ {0}]
  BY NbIpAssumption, LimitAssumption DEF RangesInv, TypeOK, Sems
<1>1. CASE SpawnTest \/ Branch
  BY <1>0, <1>1 DEF SpawnTest, Branch, At, RangesInv, TypeOK, CoordPoints, Finished
<1>2. CASE Spawn
  <2>1. i \in Workers /\ Move(i, "none", "born") /\ i \in 0 .. NbIp - 1
    BY <1>0, <1>2 DEF Spawn, At, RangesInv, TypeOK, Workers
  <2>2. Finished' = Finished
    BY <1>0, <2>1, StillFinished
  <2>3. wpc' \in [Workers -> WorkerPoints]
    BY <1>0, <2>1 DEF Move, WorkerPoints, Section
  <2>4. sem' \in [Sems -> Nat] /\ \A t \in Sems : sem'[t] \in 0 .. Limit[t]
    BY <1>0, <1>2, SemRange DEF Spawn
  <2>5. i' \in 0 .. NbIp
    BY <1>0, <1>2, <2>1 DEF Spawn
  <2> QED
    BY <1>2, <2>2, <2>3, <2>4, <2>5 DEF Spawn, At, RangesInv, TypeOK, CoordPoints
<1>3. CASE PollDone \/ PollTimeout \/ DrainDone
  BY <1>3 DEF PollDone, PollTimeout, DrainDone, At, RangesInv, TypeOK, CoordPoints,
              Finished
<1>4. ASSUME NEW s \in Sems, Drain(s), taken[s] < Limit[s]
      PROVE  RangesInv'
  <2>1. sem' \in [Sems -> Nat] /\ \A t \in Sems : sem'[t] \in 0 .. Limit[t]
    BY <1>4, SemRange DEF Drain
  <2>2. taken' \in [Sems -> Nat] /\ \A t \in Sems : taken'[t] \in 0 .. Limit[t]
    BY <1>0, <1>4 DEF Drain, RangesInv, TypeOK
  <2> QED
    BY <1>4, <2>1, <2>2 DEF Drain, At, RangesInv, TypeOK, CoordPoints, Finished
<1>5. CASE DrainThreads
  BY <1>0, <1>4, <1>5 DEF DrainThreads
<1>6. CASE DrainOthers
  <2>1. PICK k \in DOMAIN DrainOrder : taken[DrainOrder[k]] = 0 /\ Drain(DrainOrder[k])
    BY <1>6 DEF DrainOthers
  <2>2. DrainOrder[k] \in Sems
    BY DEF DrainOrder, Sems
  <2>3. taken[DrainOrder[k]] < Limit[DrainOrder[k]]
    BY <1>0, <2>1, <2>2
  <2> QED
    BY <1>4, <2>1, <2>2, <2>3
<1>7. CASE CloseHandles \/ Save \/ ClearStart
  BY <1>7 DEF CloseHandles, Save, ClearStart, At, RangesInv, TypeOK, CoordPoints,
              Finished
<1> QED
  BY <1>1, <1>2, <1>3, <1>5, <1>6, <1>7 DEF AutoScan

LEMMA RangesStep == RangesInv /\ [Next]_vars => RangesInv'
<1> SUFFICES ASSUME RangesInv, [Next]_vars PROVE RangesInv'
  OBVIOUS
<1>1. CASE Stop
  BY <1>1 DEF Stop, RangesInv, TypeOK, coordVars, Finished
<1>2. CASE UNCHANGED vars
  BY <1>2 DEF vars, RangesInv, TypeOK, coordVars, Finished
<1>3. ASSUME NEW w \in Workers, ScanIp_auto_scan(w) PROVE RangesInv'
  BY <1>3, WorkerAdvances, WorkerRanges
<1> QED
  BY <1>1, <1>2, <1>3, CoordinatorRanges DEF Next, Ended
-----------------------------------------------------------------------------
(* Permits.                                                                *)

LEMMA InitPermits == Init => PermitsInv
<1> SUFFICES ASSUME Init, NEW s \in Sems
             PROVE  sem[s] + Cardinality(Holders(s)) + taken[s] = Limit[s]
  BY DEF PermitsInv
<1>1. Holders(s) = {}
  BY DEF Init, Holders, Holding, Section, Sems
<1>2. sem[s] \in Nat /\ sem[s] = Limit[s] /\ taken[s] = 0
  BY LimitAssumption DEF Init
<1> QED
  BY <1>1, <1>2, FS_EmptySet

LEMMA TakePermit ==
  ASSUME RangesInv, PermitsInv, NEW w \in Workers, NEW s \in Sems, NEW a, NEW b,
         Move(w, a, b), Takes(s, a, b), UNCHANGED <<handles, taken>>
  PROVE  PermitsInv'
<1> SUFFICES ASSUME handles = "open", NEW t \in Sems
             PROVE  sem'[t] + Cardinality(Holders(t))' + taken[t] = Limit[t]
  BY DEF PermitsInv
<1>1. /\ sem[t] + Cardinality(Holders(t)) + taken[t] = Limit[t]
      /\ sem[t] \in Nat /\ taken[t] \in Nat /\ Cardinality(Holders(t)) \in Nat
      /\ wpc \in [Workers -> WorkerPoints]
  BY HoldersFinite DEF PermitsInv, RangesInv, TypeOK
<1>2. sem[s] > 0 /\ sem' = [sem EXCEPT ![s] = @ - 1]
  BY DEF Takes, Wait
<1>3. CASE t = s
  <2>1. Cardinality(Holders(s))' = Cardinality(Holders(s)) + 1
    BY <1>1, MoveHolders DEF Takes
  <2>2. sem'[t] = sem[t] - 1
    BY <1>2, <1>3 DEF RangesInv
  <2> QED
    BY <1>1, <1>3, <2>1, <2>2
<1>4. CASE t # s
  <2>1. Holders(t)' = Holders(t)
    BY <1>1, <1>4, MoveHolders DEF Takes, Same
  <2>2. sem'[t] = sem[t]
    BY <1>2, <1>4 DEF RangesInv
  <2> QED
    BY <1>1, <2>1, <2>2
<1> QED
  BY <1>3, <1>4

(* A permit given back was missing: the semaphore is not at its limit.     *)
LEMMA GivePermit ==
  ASSUME RangesInv, PermitsInv, NEW w \in Workers, NEW s \in Sems, NEW a, NEW b,
         Move(w, a, b), Gives(s, a, b), UNCHANGED <<handles, taken>>
  PROVE  PermitsInv'
<1> SUFFICES ASSUME handles = "open", NEW t \in Sems
             PROVE  sem'[t] + Cardinality(Holders(t))' + taken[t] = Limit[t]
  BY DEF PermitsInv
<1>1. /\ \A r \in Sems : /\ sem[r] + Cardinality(Holders(r)) + taken[r] = Limit[r]
                         /\ sem[r] \in Nat /\ taken[r] \in Nat
                         /\ Cardinality(Holders(r)) \in Nat
      /\ wpc \in [Workers -> WorkerPoints]
  BY HoldersFinite DEF PermitsInv, RangesInv, TypeOK
<1>2. /\ Cardinality(Holders(s)) = Cardinality(Holders(s))' + 1
      /\ Cardinality(Holders(s))' \in Nat
  <2>1. Cardinality(Holders(s)) = Cardinality(Holders(s))' + 1
    BY <1>1, MoveHolders DEF Gives
  <2>2. Holders(s)' \subseteq Workers
    BY DEF Holders
  <2> QED
    BY <2>1, <2>2, WorkersFinite
<1>3. sem[s] < Limit[s]
  BY <1>1, <1>2
<1>4. sem' = [sem EXCEPT ![s] = @ + 1]
  BY <1>3 DEF Gives, Release
<1>5. CASE t = s
  <2>1. sem'[t] = sem[t] + 1
    BY <1>4, <1>5 DEF RangesInv
  <2> QED
    BY <1>1, <1>2, <1>5, <2>1
<1>6. CASE t # s
  <2>1. Holders(t)' = Holders(t)
    BY <1>1, <1>6, MoveHolders DEF Gives, Same
  <2>2. sem'[t] = sem[t]
    BY <1>4, <1>6 DEF RangesInv
  <2> QED
    BY <1>1, <2>1, <2>2
<1> QED
  BY <1>5, <1>6

LEMMA WorkerPermits ==
  ASSUME RangesInv, PermitsInv, NEW w \in Workers, NEW a, NEW b, Advances(w, a, b)
  PROVE  PermitsInv'
<1>1. Move(w, a, b) /\ UNCHANGED <<handles, taken>>
  BY DEF Advances, coordVars
<1>2. CASE Keeps(a, b)
  <2>1. \A s \in Sems : Holders(s)' = Holders(s)
    BY <1>1, <1>2, MoveHolders DEF Keeps, Same, RangesInv, TypeOK
  <2> QED
    BY <1>1, <1>2, <2>1 DEF PermitsInv, Keeps
<1>3. ASSUME NEW s \in Sems, Takes(s, a, b) PROVE PermitsInv'
  BY <1>1, <1>3, TakePermit
<1>4. ASSUME NEW s \in Sems, Gives(s, a, b) PROVE PermitsInv'
  BY <1>1, <1>4, GivePermit
<1> QED
  BY <1>2, <1>3, <1>4 DEF Advances

LEMMA CoordinatorPermits ==
  ASSUME RangesInv, PermitsInv, AutoScan
  PROVE  PermitsInv'
<1>1. CASE SpawnTest \/ Branch \/ PollDone \/ PollTimeout \/ DrainDone \/ Save
           \/ ClearStart
  BY <1>1 DEF SpawnTest, Branch, PollDone, PollTimeout, DrainDone, Save, ClearStart,
              PermitsInv, Holders
<1>2. CASE Spawn
  <2>1. i \in Workers /\ Move(i, "none", "born") /\ Wait("threads")
    BY <1>2, NbIpAssumption DEF Spawn, At, RangesInv, TypeOK, Workers
  <2>2. Takes("threads", "none", "born") /\ "threads" \in Sems
    BY <2>1 DEF Takes, Same, Holding, Section, Sems
  <2> QED
    BY <1>2, <2>1, <2>2, TakePermit DEF Spawn
<1>3. ASSUME NEW s \in Sems, Drain(s) PROVE PermitsInv'
  <2> SUFFICES ASSUME handles = "open", NEW t \in Sems
               PROVE  sem'[t] + Cardinality(Holders(t))' + taken'[t] = Limit[t]
    BY <1>3 DEF PermitsInv, Drain
  <2>1. /\ sem[t] + Cardinality(Holders(t)) + taken[t] = Limit[t]
        /\ sem[t] \in Nat /\ taken[t] \in Nat /\ Cardinality(Holders(t)) \in Nat
    BY HoldersFinite DEF PermitsInv, RangesInv
  <2>2. Holders(t)' = Holders(t)
    BY <1>3 DEF Drain, Holders
  <2>3. sem[s] > 0 /\ sem' = [sem EXCEPT ![s] = @ - 1] /\ taken' = [taken EXCEPT ![s] = @ + 1]
    BY <1>3 DEF Drain, Wait
  <2>4. sem'[t] + taken'[t] = sem[t] + taken[t] /\ sem'[t] \in Int /\ taken'[t] \in Int
    BY <2>1, <2>3 DEF RangesInv
  <2> QED
    BY <2>1, <2>2, <2>4
<1>4. CASE DrainThreads \/ DrainOthers
  BY <1>3, <1>4 DEF DrainThreads, DrainOthers, DrainOrder, Sems
<1>5. CASE CloseHandles
  BY <1>5 DEF CloseHandles, PermitsInv
<1> QED
  BY <1>1, <1>2, <1>4, <1>5 DEF AutoScan

LEMMA PermitsStep == RangesInv /\ PermitsInv /\ [Next]_vars => PermitsInv'
<1> SUFFICES ASSUME RangesInv, PermitsInv, [Next]_vars PROVE PermitsInv'
  OBVIOUS
<1>1. CASE Stop \/ UNCHANGED vars
  BY <1>1 DEF Stop, vars, coordVars, PermitsInv, Holders
<1>2. ASSUME NEW w \in Workers, ScanIp_auto_scan(w) PROVE PermitsInv'
  BY <1>2, WorkerAdvances, WorkerPermits
<1> QED
  BY <1>1, <1>2, CoordinatorPermits DEF Next, Ended

(* Every permit is free, with a worker, drained or, of hs_threads, lost    *)
(* with a thread that Stop caught before its first line.                   *)
THEOREM PermitsAreAccounted == Spec => []PermitsAccounted
<1>1. RangesInv /\ PermitsInv => PermitsAccounted
  <2> SUFFICES ASSUME RangesInv, PermitsInv, handles = "open", NEW s \in Sems
               PROVE  sem[s] + Cardinality(Inside(s)) + taken[s]
                        + (IF s = "threads" THEN Cardinality(Lost) ELSE 0) = Limit[s]
    BY DEF PermitsAccounted, RangesInv
  <2>1. /\ sem[s] + Cardinality(Holders(s)) + taken[s] = Limit[s]
        /\ sem[s] \in Nat /\ taken[s] \in Nat
    BY DEF PermitsInv, RangesInv
  <2>2. Cardinality(Inside(s)) \in Nat /\ Cardinality(Lost) \in Nat
    BY WorkersFinite DEF Inside, Lost
  <2> QED
    BY <2>1, <2>2, HoldersAre
<1> QED
  BY <1>1, InitRanges, RangesStep, InitPermits, PermitsStep, PTL DEF Spec
-----------------------------------------------------------------------------
(* How far auto_scan is, and what its workers do then.                     *)

LEMMA InitPhase == Init => PhaseInv
BY DEF Init, PhaseInv, Workers

(* All of hs_threads is drained: nobody has a permit, and none is lost.    *)
LEMMA DrainQuiet ==
  ASSUME RangesInv, PermitsInv, PhaseInv, DrainDone
  PROVE  Quiet
<1>1. handles = "open" /\ taken["threads"] = Limit["threads"] /\ "threads" \in Sems
  BY DEF DrainDone, At, PhaseInv, Sems
<1>2. /\ sem["threads"] + Cardinality(Holders("threads")) + taken["threads"]
           = Limit["threads"]
      /\ sem["threads"] \in Nat /\ Limit["threads"] \in Nat
      /\ Cardinality(Holders("threads")) \in Nat
  BY <1>1, LimitAssumption, HoldersFinite DEF PermitsInv, RangesInv
<1>3. Holders("threads") = {}
  BY <1>1, <1>2, HoldersFinite, FS_EmptySet
<1>4. ASSUME NEW w \in Workers, w < i
      PROVE  wpc[w] \in {"count", "done"}
  <2>1. wpc[w] # "none"
    BY <1>4 DEF PhaseInv, RangesInv, TypeOK, Workers
  <2>2. wpc[w] \notin Section["threads"] \union {"lost"}
    BY <1>3 DEF Holders, Holding
  <2> QED
    BY <2>1, <2>2 DEF RangesInv, TypeOK, WorkerPoints
<1> QED
  BY <1>4 DEF Quiet

(* The counter reached the number of workers: all of them ended.           *)
LEMMA PollQuiet ==
  ASSUME RangesInv, PhaseInv, PollDone
  PROVE  Quiet
<1> DEFINE Created == 0 .. i - 1
<1>1. i \in Nat /\ IsFiniteSet(Created) /\ Cardinality(Created) = i
  BY FS_Interval, NbIpAssumption DEF RangesInv, TypeOK
<1>2. Finished \subseteq Created
  BY NbIpAssumption DEF Finished, PhaseInv, Workers, RangesInv, TypeOK
<1>3. Cardinality(Finished) >= i
  BY <1>1, FinishedFinite, NbIpAssumption DEF RangesInv, TypeOK, PollDone
<1>4. Cardinality(Finished) <= i
  BY <1>1, <1>2, FS_Subset
<1>5. Cardinality(Created) = Cardinality(Finished)
  BY <1>1, <1>3, <1>4, FinishedFinite
<1>6. Finished = Created
  BY <1>1, <1>2, <1>5, FS_Subset
<1> QED
  BY <1>1, <1>6 DEF Quiet, Finished, Workers

LEMMA WorkerPhase ==
  ASSUME RangesInv, PhaseInv, NEW w \in Workers, NEW a, NEW b, Advances(w, a, b)
  PROVE  PhaseInv'
<1>1. /\ wpc[w] = a /\ wpc' = [wpc EXCEPT ![w] = b]
      /\ a # "none" /\ b # "none"
      /\ a \in {"count", "done"} => b = "done"
  BY DEF Advances, Move, Section
<1>2. \A v \in Workers : /\ wpc'[v] = "none" <=> wpc[v] = "none"
                         /\ wpc[v] \in {"count", "done"} =>
                              wpc'[v] \in {"count", "done"}
  BY <1>1 DEF RangesInv, TypeOK
<1>3. UNCHANGED <<scan_start, handles, coordVars>>
  BY DEF Advances
<1> QED
  BY <1>2, <1>3 DEF PhaseInv, Quiet, coordVars

LEMMA CoordinatorPhase ==
  ASSUME RangesInv, PermitsInv, PhaseInv, AutoScan
  PROVE  PhaseInv'
<1> USE DEF PhaseInv, At
<1>0. i \in 0 .. NbIp /\ NbIp \in Nat /\ scan_start \in BOOLEAN
  BY NbIpAssumption DEF RangesInv, TypeOK
<1>1. CASE SpawnTest
  BY <1>0, <1>1 DEF SpawnTest, Quiet
<1>2. CASE Spawn
  <2>1. i \in Workers
    BY <1>0, <1>2 DEF Spawn, RangesInv, Workers
  <2>2. wpc' = [wpc EXCEPT ![i] = "born"] /\ i' = i + 1
    BY <1>2 DEF Spawn, Move
  <2>3. \A w \in Workers : wpc'[w] = "none" <=> i' <= w
    BY <1>0, <2>1, <2>2 DEF RangesInv, TypeOK, Workers
  <2> QED
    BY <1>0, <1>2, <2>3 DEF Spawn
<1>3. CASE Branch
  BY <1>0, <1>3 DEF Branch, Quiet
<1>4. CASE PollDone
  BY <1>0, <1>4, PollQuiet DEF PollDone, Quiet
<1>5. CASE PollTimeout
  BY <1>0, <1>5 DEF PollTimeout, Quiet
<1>6. CASE DrainThreads \/ DrainOthers
  BY <1>0, <1>6 DEF DrainThreads, DrainOthers, Drain, Quiet
<1>7. CASE DrainDone
  BY <1>0, <1>7, DrainQuiet DEF DrainDone, Quiet
<1>8. CASE CloseHandles \/ Save \/ ClearStart
  BY <1>0, <1>8 DEF CloseHandles, Save, ClearStart, Quiet
<1> QED
  BY <1>1, <1>2, <1>3, <1>4, <1>5, <1>6, <1>7, <1>8 DEF AutoScan

LEMMA PhaseStep == RangesInv /\ PermitsInv /\ PhaseInv /\ [Next]_vars => PhaseInv'
<1> SUFFICES ASSUME RangesInv, PermitsInv, PhaseInv, [Next]_vars PROVE PhaseInv'
  OBVIOUS
<1>1. CASE Stop \/ UNCHANGED vars
  BY <1>1 DEF Stop, vars, coordVars, PhaseInv, Quiet
<1>2. ASSUME NEW w \in Workers, ScanIp_auto_scan(w) PROVE PhaseInv'
  BY <1>2, WorkerAdvances, WorkerPhase
<1> QED
  BY <1>1, <1>2, CoordinatorPhase DEF Next, Ended

LEMMA ScanInvHolds == Spec => []ScanInv
<1>1. Init => ScanInv
  BY InitRanges, InitPermits, InitPhase DEF ScanInv
<1>2. ScanInv /\ [Next]_vars => ScanInv'
  BY RangesStep, PermitsStep, PhaseStep DEF ScanInv
<1> QED
  BY <1>1, <1>2, PTL DEF Spec
-----------------------------------------------------------------------------
(* The contract.                                                           *)

StatusOf(l) ==
  IF l = "none" THEN "todo"
  ELSE IF l \in Section["threads"] \union {"lost"} THEN "testing" ELSE "tested"

Status == [w \in Workers |->
  IF wpc[w] = "none" THEN "todo"
  ELSE IF wpc[w] \in Section["threads"] \union {"lost"} THEN "testing" ELSE "tested"]

LEMMA StatusMoves ==
  ASSUME RangesInv, NEW w \in Workers, NEW b, wpc' = [wpc EXCEPT ![w] = b]
  PROVE  Status' = [Status EXCEPT ![w] = StatusOf(b)]
BY DEF Status, StatusOf, RangesInv, TypeOK

LEMMA StatusValue ==
  ASSUME NEW w \in Workers
  PROVE  Status[w] = StatusOf(wpc[w])
BY DEF Status, StatusOf

USE DEF Contract!Addresses

LEMMA ContractInit == Init => Contract!Init
BY DEF Init, Contract!Init, Workers

(* A step that moves no worker and leaves handles and scan_start alone is  *)
(* not seen.                                                               *)
LEMMA ContractStutter ==
  ASSUME UNCHANGED <<wpc, scan_start, handles>>,
         handles = "open" \/ UNCHANGED timedOut,
         (scan_start \/ pc = "w_threads") <=> (scan_start \/ pc' = "w_threads")
  PROVE  UNCHANGED Contract!vars
<1>1. Status' = Status
  BY DEF Status
<1>2. (scan_start \/ pc = "w_threads")' = (scan_start \/ pc = "w_threads")
  OBVIOUS
<1> QED
  BY <1>1, <1>2 DEF Contract!vars, Status

LEMMA ContractSpawn ==
  ASSUME RangesInv, PhaseInv, Spawn
  PROVE  \E a \in Contract!Addresses : Contract!Begin(a)
<1>1. i \in Workers /\ i \in Nat
  BY NbIpAssumption DEF RangesInv, TypeOK, Spawn, At, Workers
<1>2. /\ wpc' = [wpc EXCEPT ![i] = "born"]
      /\ wpc[i] = "none"
      /\ pc = "w_threads" /\ pc' = "spawn"
      /\ UNCHANGED <<scan_start, handles, timedOut>>
  BY DEF Spawn, At, Move
<1>3. handles = "open"
  BY <1>2 DEF PhaseInv
<1>4. Status[i] = "todo"
  BY <1>1, <1>2, StatusValue DEF StatusOf
<1>5. \A b \in 0 .. i - 1 : Status[b] # "todo"
  <2> TAKE b \in 0 .. i - 1
  <2>1. b \in Workers /\ wpc[b] # "none"
    BY <1>1, NbIpAssumption DEF PhaseInv, Workers
  <2> QED
    BY <2>1, StatusValue DEF StatusOf
<1>6. Status' = [Status EXCEPT ![i] = "testing"]
  BY <1>1, <1>2, StatusMoves DEF StatusOf, Section
<1>7. (scan_start \/ pc = "w_threads")' = ~(~scan_start)
  BY <1>2 DEF RangesInv, TypeOK
<1>8. PICK a \in Workers : a = i
  BY <1>1
<1>9. Contract!Begin(a)
  BY <1>2, <1>3, <1>4, <1>5, <1>6, <1>7, <1>8 DEF Contract!Begin, Status, Workers
<1> QED
  BY <1>9 DEF Workers

LEMMA ContractClose ==
  ASSUME RangesInv, PhaseInv, CloseHandles
  PROVE  Contract!End \/ Contract!GiveUp
<1>1. /\ pc = "close" /\ pc' = "save"
      /\ handles = "open" /\ handles' = "closed"
      /\ UNCHANGED <<scan_start, timedOut, wpc>>
  BY DEF CloseHandles, At, PhaseInv
<1>2. Status' = Status
  BY <1>1 DEF Status
<1>3. (scan_start \/ pc = "w_threads")' = (scan_start \/ pc = "w_threads")
  BY <1>1
<1>4. CASE timedOut
  <2>1. ~scan_start
    BY <1>4 DEF PhaseInv
  <2> QED
    BY <1>1, <1>2, <1>3, <1>4, <2>1 DEF Contract!GiveUp, Status
<1>5. CASE ~timedOut
  <2>1. Quiet
    BY <1>1, <1>5 DEF PhaseInv
  <2>2. \A a \in Workers : Status[a] # "testing"
    <3> TAKE a \in Workers
    <3>1. wpc[a] \in {"none", "count", "done"}
      BY <2>1, NbIpAssumption DEF Quiet, PhaseInv, RangesInv, TypeOK, Workers
    <3> QED
      BY <3>1, StatusValue DEF StatusOf, Section
  <2>3. i = NbIp => \A a \in Workers : Status[a] = "tested"
    <3> SUFFICES ASSUME i = NbIp, NEW a \in Workers PROVE Status[a] = "tested"
      OBVIOUS
    <3>1. wpc[a] \in {"count", "done"}
      BY <2>1, NbIpAssumption DEF Quiet, Workers
    <3> QED
      BY <3>1, StatusValue DEF StatusOf, Section
  <2>4. ~scan_start \/ i = NbIp
    BY <1>1 DEF PhaseInv
  <2> QED
    BY <1>1, <1>2, <1>3, <1>5, <2>2, <2>3, <2>4 DEF Contract!End, Status, Workers
<1> QED
  BY <1>4, <1>5

LEMMA ContractWorker ==
  ASSUME RangesInv, NEW w \in Workers, NEW a, NEW b, Advances(w, a, b)
  PROVE  Contract!Complete(w) \/ UNCHANGED Contract!vars
<1>1. /\ wpc[w] = a /\ wpc' = [wpc EXCEPT ![w] = b]
      /\ UNCHANGED <<scan_start, handles, timedOut, pc>>
  BY DEF Advances, Move, coordVars
<1>2. Status' = [Status EXCEPT ![w] = StatusOf(b)]
  BY <1>1, StatusMoves
<1>3. Status[w] = StatusOf(a)
  BY <1>1, StatusValue
<1>4. CASE StatusOf(b) = Status[w]
  <2>1. Status' = Status
    BY <1>2, <1>4 DEF Status
  <2> QED
    BY <1>1, <2>1 DEF Contract!vars, Status
<1>5. CASE StatusOf(b) # Status[w]
  <2>1. Status[w] = "testing" /\ StatusOf(b) = "tested"
    BY <1>3, <1>5 DEF Advances, StatusOf, Section
  <2> QED
    BY <1>1, <1>2, <2>1 DEF Contract!Complete, Status
<1> QED
  BY <1>4, <1>5

LEMMA ContractStep == ScanInv /\ [Next]_vars => [Contract!Next]_(Contract!vars)
<1> SUFFICES ASSUME RangesInv, PhaseInv, [Next]_vars
             PROVE  [Contract!Next]_(Contract!vars)
  BY DEF ScanInv
<1> USE DEF At
<1>1. CASE Stop
  <2>1. Status' = Status
    BY <1>1 DEF Stop, Status
  <2> QED
    BY <1>1, <2>1 DEF Stop, coordVars, Contract!Stop, Contract!Next, Status
<1>2. CASE SpawnTest \/ Branch \/ PollDone \/ DrainDone \/ DrainThreads
           \/ DrainOthers \/ Save
  BY <1>2, ContractStutter
  DEF SpawnTest, Branch, PollDone, DrainDone, DrainThreads, DrainOthers, Drain, Save
<1>3. CASE PollTimeout
  BY <1>3, ContractStutter DEF PollTimeout, PhaseInv
<1>4. CASE Spawn
  BY <1>4, ContractSpawn DEF Contract!Next
<1>5. CASE CloseHandles
  BY <1>5, ContractClose DEF Contract!Next
<1>6. CASE ClearStart
  <2>1. Status' = Status
    BY <1>6 DEF ClearStart, Status
  <2>2. CASE scan_start
    BY <1>6, <2>1, <2>2 DEF ClearStart, Contract!Stop, Contract!Next, Status
  <2>3. CASE ~scan_start
    BY <1>6, <2>3, ContractStutter DEF ClearStart, RangesInv, TypeOK
  <2> QED
    BY <2>2, <2>3
<1>7. ASSUME NEW w \in Workers, ScanIp_auto_scan(w)
      PROVE  [Contract!Next]_(Contract!vars)
  BY <1>7, WorkerAdvances, ContractWorker DEF Contract!Next, Workers
<1>8. CASE UNCHANGED vars
  BY <1>8, ContractStutter DEF vars, coordVars
<1> QED
  BY <1>1, <1>2, <1>3, <1>4, <1>5, <1>6, <1>7, <1>8 DEF Next, AutoScan, Ended

(* The automatic scan keeps the contract of a scan.                        *)
THEOREM AutoScanKeepsContract == Spec => KeepsContract
BY ContractInit, ContractStep, ScanInvHolds, PTL DEF Spec, KeepsContract, Contract!Spec
-----------------------------------------------------------------------------
(* The verdicts against the calendar, for every year from 1901 to 2099 and *)
(* every interval of up to a month.                                        *)

(* The years for which the rule of the leap years holds; kept folded, as   *)
(* Months is, where lemmas are applied.                                    *)
CalendarYears == 1901 .. 2099

(* The rule of the leap years holds.                                       *)
LEMMA YearRange == \A y \in Years : y \in CalendarYears
BY CalendarAssumption DEF CalendarYears

(* Intervals are of one month at most.                                     *)
LEMMA IntervalRange == \A interval \in Intervals : interval \in 0 .. 31
BY CalendarAssumption

(* Months have 28 to 31 days.                                              *)
LEMMA DaysInRange ==
  ASSUME NEW y \in CalendarYears, NEW m \in Months
  PROVE  DaysIn(y, m) \in 28 .. 31 /\ LeapDays(y) \in 0 .. 1
BY DEF DaysIn, LeapDays, CalendarYears, Months

(* What a date is made of.                                                 *)
LEMMA DateParts ==
  ASSUME NEW date \in Dates
  PROVE  /\ date.y \in CalendarYears /\ date.m \in Months
         /\ date.d \in 1 .. DaysIn(date.y, date.m)
         /\ date.d \in Int /\ date.y \in Int /\ date.m \in Int
<1>1. /\ date \in [y : Years, m : Months, d : 1 .. 31]
      /\ date.d <= DaysIn(date.y, date.m)
  BY DEF Dates
<1>2. date.y \in Years /\ date.m \in Months /\ date.d \in 1 .. 31
  BY <1>1
<1>3. date.y \in CalendarYears
  BY <1>2, YearRange
<1>4. DaysIn(date.y, date.m) \in Int
  BY <1>2, <1>3, DaysInRange
<1> QED
  BY <1>1, <1>2, <1>3, <1>4 DEF CalendarYears, Months

(* The days before each month, as a list without a gap.                    *)
LEMMA MonthsFollow ==
  /\ DaysBefore[1] = 0 /\ DaysBefore[2] = 31 /\ DaysBefore[3] = 59
  /\ DaysBefore[4] = 90 /\ DaysBefore[5] = 120 /\ DaysBefore[6] = 151
  /\ DaysBefore[7] = 181 /\ DaysBefore[8] = 212 /\ DaysBefore[9] = 243
  /\ DaysBefore[10] = 273 /\ DaysBefore[11] = 304 /\ DaysBefore[12] = 334
BY DEF DaysBefore

(* In one month of one year the age is the difference of the days.         *)
LEMMA AgeSameMonth ==
  ASSUME NEW today \in Dates, NEW last \in Dates, SameMonth(today, last)
  PROVE  Age(today, last) = today.d - last.d
<1>1. today.y \in Int /\ today.d \in Int /\ last.d \in Int
  BY DateParts
<1>2. PICK b \in Int : b = DaysBefore[today.m]
  BY DateParts, MonthsFollow DEF Months
<1> QED
  BY <1>1, <1>2 DEF SameMonth, Age, DayNumber, LeapDays

(* From one month to the next of the same year.                            *)
LEMMA AgeNextMonth ==
  ASSUME NEW today \in Dates, NEW last \in Dates,
         NextMonth(today, last), today.y = last.y
  PROVE  Age(today, last) = DaysIn(last.y, last.m) - last.d + today.d
<1>1. /\ today.y \in Int /\ today.d \in Int /\ last.d \in Int
      /\ last.m \in 1 .. 11 /\ today.m = last.m + 1
  BY DateParts DEF NextMonth, Months
<1>2. LeapDays(last.y) \in {0, 1}
  BY DEF LeapDays
<1> QED
  BY <1>1, <1>2, MonthsFollow DEF Age, DayNumber, DaysIn

(* A leap year has one day more, which the years after it count.           *)
LEMMA LeapDayCounted ==
  ASSUME NEW y \in CalendarYears
  PROVE  /\ (y + 1 - 1901) \div 4 = (y - 1901) \div 4 + LeapDays(y)
         /\ (y - 1901) \div 4 \in Int
BY DEF LeapDays, CalendarYears
-----------------------------------------------------------------------------
(* A date's day counted from the start of its month and year.              *)
YearStart(y) == 365 * (y - 1901) + (y - 1901) \div 4

MonthStart(y, m) == DaysBefore[m] + (IF m > 2 THEN LeapDays(y) ELSE 0)

(* The start of a year is a number of days.                                *)
LEMMA StartIsNumber ==
  ASSUME NEW y \in CalendarYears
  PROVE  YearStart(y) \in Int
<1>1. (y - 1901) \div 4 \in Int
  BY LeapDayCounted
<1> QED
  BY <1>1 DEF YearStart, CalendarYears

(* The number of a date's day is made of the three.                        *)
LEMMA Position ==
  ASSUME NEW date \in Dates
  PROVE  DayNumber(date) = YearStart(date.y) + MonthStart(date.y, date.m) + date.d
<1>1. /\ date.y \in CalendarYears /\ date.d \in Int /\ date.m \in Months
      /\ LeapDays(date.y) \in Int
  BY DateParts, DaysInRange
<1>2. PICK b \in Int : b = DaysBefore[date.m]
  BY <1>1, MonthsFollow DEF Months
<1>3. PICK s \in Int : s = YearStart(date.y)
  BY <1>1, StartIsNumber
<1>4. DayNumber(date)
        = s + b + (IF date.m > 2 THEN LeapDays(date.y) ELSE 0) + date.d
  BY <1>2, <1>3 DEF DayNumber, YearStart
<1> QED
  BY <1>1, <1>2, <1>3, <1>4 DEF MonthStart

(* A year starts where the one before it ends.                             *)
LEMMA YearsFollow ==
  ASSUME NEW y \in CalendarYears, NEW z \in CalendarYears
  PROVE  /\ YearStart(y) \in Int
         /\ z = y + 1 => YearStart(z) = YearStart(y) + 365 + LeapDays(y)
         /\ z > y + 1 => YearStart(z) >= YearStart(y) + 730
<1>1. PICK q \in Int : q = (y - 1901) \div 4
  BY LeapDayCounted
<1>2. PICK r \in Int : r = (z - 1901) \div 4
  BY LeapDayCounted
<1>3. PICK x \in Int : x = LeapDays(y)
  BY DEF LeapDays
<1>4. YearStart(y) = 365 * (y - 1901) + q /\ YearStart(z) = 365 * (z - 1901) + r
  BY <1>1, <1>2 DEF YearStart, CalendarYears
<1>5. z = y + 1 => r = q + x
  BY <1>1, <1>2, <1>3, LeapDayCounted
<1>6. z > y + 1 => r >= q
  BY <1>1, <1>2 DEF CalendarYears
<1> QED
  BY <1>3, <1>4, <1>5, <1>6 DEF CalendarYears

(* From December to January.                                               *)
LEMMA AgeNextYear ==
  ASSUME NEW today \in Dates, NEW last \in Dates, NextYear(today, last)
  PROVE  Age(today, last) = 31 - last.d + today.d
<1>1. /\ last.y \in CalendarYears /\ today.y \in CalendarYears
      /\ today.d \in Int /\ last.d \in Int
      /\ today.y = last.y + 1 /\ today.m = 1 /\ last.m = 12
  BY DateParts DEF NextYear
<1>2. PICK x \in Int : x = LeapDays(last.y)
  BY DEF LeapDays
<1>3. PICK s \in Int : s = YearStart(last.y)
  BY <1>1, StartIsNumber
<1>4. YearStart(today.y) = s + 365 + x
  BY <1>1, <1>2, <1>3, YearsFollow
<1>5. MonthStart(last.y, last.m) = 334 + x /\ MonthStart(today.y, today.m) = 0
  BY <1>1, <1>2, MonthsFollow DEF MonthStart
<1>6. /\ DayNumber(last) = s + (334 + x) + last.d
      /\ DayNumber(today) = (s + 365 + x) + 0 + today.d
  BY <1>3, <1>4, <1>5, Position
<1> QED
  BY <1>1, <1>6 DEF Age

(* Where a month lies in its year.                                         *)
LEMMA MonthInYear ==
  ASSUME NEW y \in CalendarYears, NEW m \in Months
  PROVE  /\ MonthStart(y, m) \in 0 .. 335
         /\ MonthStart(y, m) + DaysIn(y, m) <= 365 + LeapDays(y)
         /\ m > 1 => MonthStart(y, m) >= 31
         /\ m < 12 => MonthStart(y, m) + DaysIn(y, m) <= 334 + LeapDays(y)
<1>1. LeapDays(y) \in {0, 1}
  BY DEF LeapDays
<1> QED
  BY <1>1, MonthsFollow DEF MonthStart, DaysIn, Months

(* Months of a year do not overlap; one between two others lasts 28 days.  *)
LEMMA MonthsApart ==
  ASSUME NEW y \in CalendarYears, NEW m \in Months, NEW k \in Months
  PROVE  /\ m < k => MonthStart(y, m) + DaysIn(y, m) <= MonthStart(y, k)
         /\ m + 1 < k =>
              MonthStart(y, m) + DaysIn(y, m) + (IF k = 3 THEN 28 ELSE 30)
                <= MonthStart(y, k)
<1>1. LeapDays(y) \in {0, 1}
  BY DEF LeapDays
<1> QED
  BY <1>1, MonthsFollow DEF MonthStart, DaysIn, Months
-----------------------------------------------------------------------------
(* Two days d.m.y and e.k.z that are at most thirty days apart, 28 in      *)
(* March, are of the same month or of two that follow each other.          *)
LEMMA PartsNear ==
  ASSUME NEW y \in CalendarYears, NEW m \in Months, NEW d \in 1 .. DaysIn(y, m),
         NEW z \in CalendarYears, NEW k \in Months, NEW e \in 1 .. DaysIn(z, k),
         (YearStart(y) + MonthStart(y, m) + d) - (YearStart(z) + MonthStart(z, k) + e)
           \in 0 .. (IF m = 3 THEN 28 ELSE 30)
  PROVE  \/ y = z /\ m \in {k, k + 1}
         \/ y = z + 1 /\ m = 1 /\ k = 12
<1> DEFINE ys == YearStart(y)  ms == MonthStart(y, m)  mn == DaysIn(y, m)
           zs == YearStart(z)  ks == MonthStart(z, k)  kn == DaysIn(z, k)
<1>1. /\ ys \in Int /\ ms \in 0 .. 335 /\ mn \in 28 .. 31
      /\ ms + mn <= 365 + LeapDays(y) /\ LeapDays(y) \in 0 .. 1
  <2>1. ys \in Int
    BY YearsFollow
  <2>2. mn \in 28 .. 31 /\ LeapDays(y) \in 0 .. 1
    BY DaysInRange
  <2>3. ms \in 0 .. 335 /\ ms + mn <= 365 + LeapDays(y)
    BY MonthInYear
  <2> QED
    BY <2>1, <2>2, <2>3
<1>2. /\ zs \in Int /\ ks \in 0 .. 335 /\ kn \in 28 .. 31
      /\ ks + kn <= 365 + LeapDays(z) /\ LeapDays(z) \in 0 .. 1
  <2>1. zs \in Int
    BY YearsFollow
  <2>2. kn \in 28 .. 31 /\ LeapDays(z) \in 0 .. 1
    BY DaysInRange
  <2>3. ks \in 0 .. 335 /\ ks + kn <= 365 + LeapDays(z)
    BY MonthInYear
  <2> QED
    BY <2>1, <2>2, <2>3
<1>3. d \in 1 .. mn /\ e \in 1 .. kn
  OBVIOUS
<1>4. (ys + ms + d) - (zs + ks + e) \in 0 .. (IF m = 3 THEN 28 ELSE 30)
  OBVIOUS
<1>5. y = z => ys = zs
  OBVIOUS
<1>6. y = z /\ m < k => ms + mn <= ks
  BY MonthsApart
<1>7. y = z /\ k + 1 < m => ks + kn + (IF m = 3 THEN 28 ELSE 30) <= ms
  BY MonthsApart
<1>8. y = z + 1 => ys = zs + 365 + LeapDays(z)
  BY YearsFollow
<1>9. m > 1 => ms >= 31
  BY MonthInYear
<1>10. k < 12 => ks + kn <= 334 + LeapDays(z)
  BY MonthInYear
<1>11. y > z + 1 => ys >= zs + 730
  BY YearsFollow
<1>12. y < z => zs >= ys + 365 + LeapDays(y)
  <2>1. z = y + 1 \/ z > y + 1 \/ ~(y < z)
    BY DEF CalendarYears
  <2>2. /\ z = y + 1 => zs = ys + 365 + LeapDays(y)
        /\ z > y + 1 => zs >= ys + 730
    BY YearsFollow
  <2> QED
    BY <1>1, <1>2, <2>1, <2>2
<1> HIDE DEF ys, ms, mn, zs, ks, kn
<1>13. CASE y = z
  BY <1>1, <1>2, <1>3, <1>4, <1>5, <1>6, <1>7, <1>13 DEF Months
<1>14. CASE y = z + 1
  BY <1>1, <1>2, <1>3, <1>4, <1>8, <1>9, <1>10, <1>14 DEF Months
<1>15. CASE y > z + 1
  BY <1>1, <1>2, <1>3, <1>4, <1>11, <1>15 DEF Months
<1>16. CASE y < z
  BY <1>1, <1>2, <1>3, <1>4, <1>12, <1>16 DEF Months
<1> QED
  BY <1>13, <1>14, <1>15, <1>16 DEF CalendarYears

(* The same of dates.                                                      *)
LEMMA RecentIsNear ==
  ASSUME NEW today \in Dates, NEW last \in Dates,
         Age(today, last) \in 0 .. (IF today.m = 3 THEN 28 ELSE 30)
  PROVE  \/ SameMonth(today, last)
         \/ NextMonth(today, last) /\ today.y = last.y
         \/ NextYear(today, last)
<1>1. \/ today.y = last.y /\ today.m \in {last.m, last.m + 1}
      \/ today.y = last.y + 1 /\ today.m = 1 /\ last.m = 12
  <2>1. /\ today.y \in CalendarYears /\ today.m \in Months
        /\ today.d \in 1 .. DaysIn(today.y, today.m)
        /\ last.y \in CalendarYears /\ last.m \in Months
        /\ last.d \in 1 .. DaysIn(last.y, last.m)
    BY DateParts
  <2>2. (YearStart(today.y) + MonthStart(today.y, today.m) + today.d)
          - (YearStart(last.y) + MonthStart(last.y, last.m) + last.d)
        \in 0 .. (IF today.m = 3 THEN 28 ELSE 30)
    BY Position DEF Age
  <2> QED
    BY <2>1, <2>2, PartsNear, Zenon
<1>2. today.y \in Int /\ today.m \in Int /\ last.y \in Int /\ last.m \in Int
  BY DateParts
<1> QED
  BY <1>1, <1>2 DEF SameMonth, NextMonth, NextYear
-----------------------------------------------------------------------------
(* OK is written for nothing older than OkIsRecent says.                   *)
THEOREM OkIsRecentHolds ==
  ASSUME NEW today \in Dates, NEW last \in Dates, NEW interval \in Intervals
  PROVE  OkIsRecent(today, last, interval)
<1>1. SUFFICES ASSUME UpToDate(today, last, interval),
                      NextMonth(today, last) => today.y = last.y
      PROVE  Age(today, last) \in
               0 .. interval + (IF today.m = 2 THEN 4
                                ELSE IF today.m \in {4, 6, 9, 11} THEN 1 ELSE 0)
  BY DEF OkIsRecent
<1>2. interval \in 0 .. 31
  BY IntervalRange
<1>3. today.d \in Int /\ last.d \in Int /\ today.m \in Months
  BY DateParts
<1>4. CASE SameMonth(today, last) /\ Within(today.d - last.d, interval)
  BY <1>2, <1>3, <1>4, AgeSameMonth DEF Within
<1>5. CASE /\ NextMonth(today, last)
           /\ Within(Ref(today.m) - last.d + today.d, interval)
  <2>1. last.m \in 1 .. 11 /\ today.m = last.m + 1 /\ last.y \in CalendarYears
    BY <1>5, DateParts DEF NextMonth, Months
  <2>2. /\ DaysIn(last.y, last.m) \in Int /\ Ref(today.m) \in Int
        /\ DaysIn(last.y, last.m) - Ref(today.m)
             <= IF today.m = 2 THEN 4
                ELSE IF today.m \in {4, 6, 9, 11} THEN 1 ELSE 0
    BY <2>1 DEF DaysIn, LeapDays, Ref
  <2>3. last.d <= DaysIn(last.y, last.m) /\ today.d >= 1
    BY <2>2, DateParts, DaysInRange
  <2>4. Age(today, last) = DaysIn(last.y, last.m) - last.d + today.d
    BY <1>1, <1>5, AgeNextMonth
  <2> QED
    BY <1>2, <1>3, <1>5, <2>2, <2>3, <2>4 DEF Within
<1>6. CASE NextYear(today, last) /\ Within(31 - last.d + today.d, interval)
  BY <1>2, <1>3, <1>6, AgeNextYear DEF Within
<1> QED
  BY <1>1, <1>4, <1>5, <1>6 DEF UpToDate

(* NOK is written for nothing younger than RecentIsOk says.                *)
THEOREM RecentIsOkHolds ==
  ASSUME NEW today \in Dates, NEW last \in Dates, NEW interval \in Intervals
  PROVE  RecentIsOk(today, last, interval)
<1>1. SUFFICES ASSUME
                 Age(today, last) \in 0 .. interval - (IF today.m = 3 THEN 3 ELSE 1),
                 ~Wrapped(today, last)
               PROVE UpToDate(today, last, interval)
  BY DEF RecentIsOk
<1>2. interval \in 0 .. 31
  BY IntervalRange
<1>3. /\ today.d \in Int /\ last.d \in Int
      /\ today.m \in Months /\ last.m \in Months /\ last.y \in CalendarYears
  BY DateParts
<1>4. \/ SameMonth(today, last)
      \/ NextMonth(today, last) /\ today.y = last.y
      \/ NextYear(today, last)
  BY <1>1, <1>2, RecentIsNear
<1>5. CASE SameMonth(today, last)
  <2>1. Within(today.d - last.d, interval)
    BY <1>1, <1>2, <1>3, <1>5, AgeSameMonth DEF Within
  <2> QED
    BY <1>5, <2>1 DEF UpToDate
<1>6. CASE NextMonth(today, last) /\ today.y = last.y
  <2>1. today.d - last.d + 27 \in Int /\ last.d <= today.d + 27
    BY <1>1, <1>3, <1>6 DEF Wrapped
  <2>2. /\ DaysIn(last.y, last.m) \in 28 .. 31 /\ Ref(today.m) \in 27 .. 31
        /\ Ref(today.m) <= DaysIn(last.y, last.m) + (IF today.m = 3 THEN 3 ELSE 1)
    BY <1>3, <1>6 DEF NextMonth, DaysIn, LeapDays, Ref, Months
  <2>3. Age(today, last) = DaysIn(last.y, last.m) - last.d + today.d
    BY <1>6, AgeNextMonth
  <2>4. /\ Within(27 - last.d + today.d, interval)
        /\ Within(Ref(today.m) - last.d + today.d, interval)
    BY <1>1, <1>2, <1>3, <2>1, <2>2, <2>3 DEF Within
  <2> QED
    BY <1>6, <2>4 DEF UpToDate
<1>7. CASE NextYear(today, last)
  <2>1. Within(31 - last.d + today.d, interval)
    BY <1>1, <1>2, <1>3, <1>7, AgeNextYear DEF Within
  <2> QED
    BY <1>7, <2>1 DEF UpToDate
<1> QED
  BY <1>4, <1>5, <1>6, <1>7

(* The automatic scan tells machines up to date or not by their age, to    *)
(* the days of OkIsRecent and RecentIsOk, for all years and intervals.     *)
THEOREM AgesAreTold == Spec => []VerdictsTold
<1>1. AgesTold
  BY OkIsRecentHolds, RecentIsOkHolds DEF AgesTold
<1>2. VerdictsTold
  BY <1>1 DEF VerdictsTold
<1> QED
  BY <1>2, PTL
=============================================================================
