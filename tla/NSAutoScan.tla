----------------------------- MODULE NSAutoScan -----------------------------
(***************************************************************************)
(* The automatic scan of NS (TYPE=AUTO in NS.ini): thread auto_scan is     *)
(* itself the coordinator, its workers are ScanIp_auto_scan, and at the    *)
(* end it saves the result list in the formats of section [SAVE].          *)
(*                                                                         *)
(* It differs from thread scan (module NSScan) where it is delicate: a     *)
(* worker that finds scan_start cleared returns at once, without giving    *)
(* its hs_threads permit back and without counting itself; and the tests   *)
(* of the registry and of the files take a permit of hs_netbios while they *)
(* hold the one of their own semaphore.                                    *)
(***************************************************************************)
EXTENDS FiniteSets, NSAges

CONSTANTS
  NbIp,      (* lines of the list box CB_IP: nb_i                          *)
  Limit,     (* NB_MAX_*: initial and maximum count of each semaphore      *)
  Configs    (* settings of NS.ini: DNS_DISCOVERY and MCAFEE_SCAN          *)

Sems == {"threads", "disco", "netbios", "file", "registry", "tcp", "ssh"}

ASSUME NbIpAssumption == NbIp \in Nat
ASSUME LimitAssumption == Limit \in [Sems -> Nat \ {0}]
ASSUME ConfigsAssumption ==
  Configs \subseteq [{"DNS_DISCOVERY", "MCAFEE_SCAN"} -> BOOLEAN]

Workers == 0 .. NbIp - 1

VARIABLES
  config,      (* the settings of this run                                 *)
  scan_start,  (* cleared by Stop and, at the end, by auto_scan            *)
  sem,         (* count of each semaphore                                  *)
  handles,     (* "open" until CloseHandle                                 *)
  pc,          (* control point of auto_scan                               *)
  i,           (* workers created                                          *)
  taken,       (* permits drained, per semaphore                           *)
  timedOut,    (* it gave up after THE_END_THREAD_WAIT polls               *)
  saved,       (* it has saved the list                                    *)
  wpc,         (* control point of each worker                             *)
  named,       (* workers that know a DNS name: dns[0] != 0                *)
  rows,        (* workers with a row: iitem > ID_ERROR, hence exist        *)
  nb_test_ip   (* tested addresses                                         *)

coordVars == <<pc, i, taken, timedOut, saved>>
vars == <<config, scan_start, sem, handles, coordVars, wpc, named, rows,
          nb_test_ip>>

(* The control points at which a worker owns a permit, per semaphore.      *)
Section ==
  [disco    |-> {"resolve", "ping", "dns"},
   netbios  |-> {"netbios", "registry", "files"},
   tcp      |-> {"tcp445", "tcp22"},
   registry |-> {"reg_netbios", "registry", "reg_end"},
   file     |-> {"file_netbios", "files", "file_end"},
   ssh      |-> {"ssh"},
   threads  |-> {"born", "start", "w_disco", "resolve", "ping", "dns",
                 "dns_error", "netbios_test", "w_netbios", "netbios",
                 "tcp_test", "w_tcp445", "tcp445", "w_registry",
                 "reg_netbios", "registry", "reg_end", "file_test", "w_file",
                 "file_netbios", "files", "file_end", "ssh_test", "w_tcp22",
                 "tcp22", "w_ssh", "ssh", "release"}]

WorkerPoints == Section["threads"] \union {"none", "count", "done", "lost"}

CoordPoints == {"spawn", "w_threads", "branch", "poll", "drain", "close",
                "save", "clear", "idle"}

Inside(s) == {w \in Workers : wpc[w] \in Section[s]}

Lost == {w \in Workers : wpc[w] = "lost"}

(* After all the permits of hs_threads, one of each of these, in order.    *)
DrainOrder == <<"netbios", "file", "registry", "tcp", "ssh">>
-----------------------------------------------------------------------------
Wait(s) ==
  \/ handles = "open" /\ sem[s] > 0 /\ sem' = [sem EXCEPT ![s] = @ - 1]
  \/ handles = "closed" /\ UNCHANGED sem

Release(s) ==
  sem' = IF handles = "open" /\ sem[s] < Limit[s]
         THEN [sem EXCEPT ![s] = @ + 1]
         ELSE sem

Move(w, from, to) == wpc[w] = from /\ wpc' = [wpc EXCEPT ![w] = to]

Init ==
  /\ config \in Configs
  /\ scan_start = TRUE
  /\ sem = Limit
  /\ handles = "open"
  /\ pc = "spawn"
  /\ i = 0
  /\ taken = [s \in Sems |-> 0]
  /\ timedOut = FALSE
  /\ saved = FALSE
  /\ wpc = [w \in Workers |-> "none"]
  /\ named = {}
  /\ rows = {}
  /\ nb_test_ip = 0

Stop ==
  /\ scan_start
  /\ scan_start' = FALSE
  /\ UNCHANGED <<config, sem, handles, coordVars, wpc, named, rows, nb_test_ip>>
-----------------------------------------------------------------------------
(* Thread auto_scan.                                                       *)

At(from, to) ==
  /\ pc = from
  /\ pc' = to
  /\ UNCHANGED <<config, named, rows, nb_test_ip>>

(* Mutant: the last line of the list is left out.                          *)
SpawnTestOneLess ==
  /\ At("spawn", IF i < NbIp - 1 /\ scan_start THEN "w_threads" ELSE "branch")
  /\ UNCHANGED <<scan_start, sem, handles, i, taken, timedOut, saved, wpc>>

SpawnTest ==
  /\ At("spawn", IF i < NbIp /\ scan_start THEN "w_threads" ELSE "branch")
  /\ UNCHANGED <<scan_start, sem, handles, i, taken, timedOut, saved, wpc>>

Spawn ==
  /\ At("w_threads", "spawn")
  /\ Wait("threads")
  /\ Move(i, "none", "born")
  /\ i' = i + 1
  /\ UNCHANGED <<scan_start, handles, taken, timedOut, saved>>

Branch ==
  /\ At("branch", IF scan_start THEN "drain" ELSE "poll")
  /\ UNCHANGED <<scan_start, sem, handles, i, taken, timedOut, saved, wpc>>

PollDone ==
  /\ nb_test_ip >= i
  /\ At("poll", "close")
  /\ UNCHANGED <<scan_start, sem, handles, i, taken, timedOut, saved, wpc>>

PollTimeout ==
  /\ nb_test_ip < i
  /\ At("poll", "close")
  /\ timedOut' = TRUE
  /\ UNCHANGED <<scan_start, sem, handles, i, taken, saved, wpc>>

Drain(s) ==
  /\ At("drain", "drain")
  /\ Wait(s)
  /\ taken' = [taken EXCEPT ![s] = @ + 1]
  /\ UNCHANGED <<scan_start, handles, i, timedOut, saved, wpc>>

DrainThreads == taken["threads"] < Limit["threads"] /\ Drain("threads")

DrainOthers ==
  /\ taken["threads"] = Limit["threads"]
  /\ \E k \in DOMAIN DrainOrder :
       /\ taken[DrainOrder[k]] = 0
       /\ \A j \in 1 .. k - 1 : taken[DrainOrder[j]] = 1
       /\ Drain(DrainOrder[k])

DrainDone ==
  /\ taken["threads"] = Limit["threads"]
  /\ \A k \in DOMAIN DrainOrder : taken[DrainOrder[k]] = 1
  /\ At("drain", "close")
  /\ UNCHANGED <<scan_start, sem, handles, i, taken, timedOut, saved, wpc>>

CloseHandles ==
  /\ At("close", "save")
  /\ handles' = "closed"
  /\ UNCHANGED <<scan_start, sem, i, taken, timedOut, saved, wpc>>

(* Mutant: a scan that was stopped is not saved.                           *)
SaveUnlessStopped ==
  /\ At("save", "clear")
  /\ saved' = (rows # {} /\ scan_start)
  /\ UNCHANGED <<scan_start, sem, handles, i, taken, timedOut, wpc>>

(* Only a list with rows is saved (module NSResults has the writing).      *)
Save ==
  /\ At("save", "clear")
  /\ saved' = (rows # {})
  /\ UNCHANGED <<scan_start, sem, handles, i, taken, timedOut, wpc>>

ClearStart ==
  /\ At("clear", "idle")
  /\ scan_start' = FALSE
  /\ UNCHANGED <<sem, handles, i, taken, timedOut, saved, wpc>>

AutoScan ==
  \/ SpawnTest \/ Spawn \/ Branch \/ PollDone \/ PollTimeout
  \/ DrainThreads \/ DrainOthers \/ DrainDone \/ CloseHandles \/ Save
  \/ ClearStart
-----------------------------------------------------------------------------
(* ScanIp_auto_scan.                                                       *)

Step(w, from, to) ==
  /\ Move(w, from, to)
  /\ UNCHANGED <<config, scan_start, sem, handles, coordVars, named, rows,
                 nb_test_ip>>

EnterSection(w, s, from, to) ==
  /\ Move(w, from, to)
  /\ Wait(s)
  /\ UNCHANGED <<config, scan_start, handles, coordVars, named, rows,
                 nb_test_ip>>

LeaveSection(w, s, from, to) ==
  /\ Move(w, from, to)
  /\ Release(s)
  /\ UNCHANGED <<config, scan_start, handles, coordVars, nb_test_ip>>

(* if (!scan_start)return 0;                                               *)
Enter(w) == Step(w, "born", IF scan_start THEN "start" ELSE "lost")

(* An address too long or empty ends the thread, and so does a Stop.       *)
Start(w) ==
  \/ Step(w, "start", "release")
  \/ scan_start /\ Step(w, "start", "w_disco")

EnterDisco(w) == EnterSection(w, "disco", "w_disco", "resolve")

Resolve(w) ==
  /\ Move(w, "resolve", "ping")
  /\ \/ UNCHANGED <<named, rows>>
     \/ /\ scan_start
        /\ named' = named \union {w}
        /\ rows' = IF config.DNS_DISCOVERY THEN rows \union {w} ELSE rows
  /\ UNCHANGED <<config, scan_start, sem, handles, coordVars, nb_test_ip>>

(* Mutant: the early exit forgets the discovery permit.                    *)
ResolveErrorKeepsPermit(w) == scan_start /\ Step(w, "resolve", "dns_error")

(* The name does not resolve: an "[ERROR DNS]" row, and the thread ends.   *)
ResolveError(w) ==
  /\ scan_start
  /\ LeaveSection(w, "disco", "resolve", "dns_error")
  /\ rows' = rows \union {w}
  /\ UNCHANGED named

ReleaseError(w) ==
  /\ LeaveSection(w, "threads", "dns_error", "count")
  /\ UNCHANGED <<named, rows>>

(* Between the steps "if (iitem == ID_ERROR)exist = FALSE": to exist is to *)
(* have a row. An answer with a TTL above 128 inserts none.                *)
Ping(w) ==
  /\ Move(w, "ping", "dns")
  /\ \/ UNCHANGED rows
     \/ scan_start /\ rows' = rows \union {w}
  /\ UNCHANGED <<config, scan_start, sem, handles, coordVars, named,
                 nb_test_ip>>

Dns(w) ==
  /\ LeaveSection(w, "disco", "dns", "netbios_test")
  /\ \/ UNCHANGED <<named, rows>>
     \/ /\ scan_start /\ w \notin named
        /\ named' = named \union {w}
        /\ rows' = IF config.DNS_DISCOVERY THEN rows \union {w} ELSE rows

(* Every group of tests is entered under exist && scan_start.              *)
Tested(w, from, enter, skip) ==
  Step(w, from, IF w \in rows /\ scan_start THEN enter ELSE skip)

NetbiosTest(w) == Tested(w, "netbios_test", "w_netbios", "tcp_test")

EnterNetbios(w) == EnterSection(w, "netbios", "w_netbios", "netbios")

(* Netbios_OS, null session, shares and RemoteConnexionScan_auto_scan,     *)
(* whose SMB session is closed before the permit goes back.                *)
Netbios(w) ==
  /\ LeaveSection(w, "netbios", "netbios", "tcp_test")
  /\ named' \in {named, named \union {w}}
  /\ UNCHANGED rows

(* TCP_port_open looks at scan_start again.                                *)
TcpTest(w) == Tested(w, "tcp_test", "w_tcp445", "ssh_test")

EnterTcp445(w) == EnterSection(w, "tcp", "w_tcp445", "tcp445")

Tcp445(w) ==
  /\ \E to \in {"w_registry", "ssh_test"} : LeaveSection(w, "tcp", "tcp445", to)
  /\ UNCHANGED <<named, rows>>

(* RemoteConnexionRegistryScan_auto_scan waits for hs_netbios inside       *)
(* hs_registry, gives it back, and then hs_registry is given back.         *)
EnterRegistry(w) == EnterSection(w, "registry", "w_registry", "reg_netbios")

RegNetbios(w) == EnterSection(w, "netbios", "reg_netbios", "registry")

(* Mutant: hs_netbios is not given back.                                   *)
RegistryKeepsPermit(w) == Step(w, "registry", "reg_end")

Registry(w) ==
  /\ LeaveSection(w, "netbios", "registry", "reg_end")
  /\ UNCHANGED <<named, rows>>

LeaveRegistry(w) ==
  /\ LeaveSection(w, "registry", "reg_end", "file_test")
  /\ UNCHANGED <<named, rows>>

FileTest(w) ==
  Step(w, "file_test", IF scan_start /\ config.MCAFEE_SCAN THEN "w_file"
                       ELSE "ssh_test")

(* RemoteConnexionScanFiles_auto_scan does the same inside hs_file.        *)
EnterFile(w) == EnterSection(w, "file", "w_file", "file_netbios")

FileNetbios(w) == EnterSection(w, "netbios", "file_netbios", "files")

Files(w) ==
  /\ LeaveSection(w, "netbios", "files", "file_end")
  /\ UNCHANGED <<named, rows>>

LeaveFile(w) ==
  /\ LeaveSection(w, "file", "file_end", "ssh_test")
  /\ UNCHANGED <<named, rows>>

SshTest(w) == Tested(w, "ssh_test", "w_tcp22", "release")

EnterTcp22(w) == EnterSection(w, "tcp", "w_tcp22", "tcp22")

Tcp22(w) ==
  /\ \E to \in {"w_ssh", "release"} : LeaveSection(w, "tcp", "tcp22", to)
  /\ UNCHANGED <<named, rows>>

EnterSsh(w) == EnterSection(w, "ssh", "w_ssh", "ssh")

Ssh(w) ==
  /\ LeaveSection(w, "ssh", "ssh", "release")
  /\ UNCHANGED <<named, rows>>

ReleaseThread(w) ==
  /\ LeaveSection(w, "threads", "release", "count")
  /\ UNCHANGED <<named, rows>>

(* Under Sync while scan_start is set; afterwards ++nb_test_ip races, and  *)
(* may write back any value read before (NSScan has the two steps of it).  *)
Count(w) ==
  /\ Move(w, "count", "done")
  /\ nb_test_ip' \in (IF scan_start THEN {nb_test_ip + 1}
                      ELSE 1 .. nb_test_ip + 1)
  /\ UNCHANGED <<config, scan_start, sem, handles, coordVars, named, rows>>

ScanIp_auto_scan(w) ==
  \/ Enter(w) \/ Start(w) \/ EnterDisco(w) \/ Resolve(w) \/ ResolveError(w)
  \/ ReleaseError(w) \/ Ping(w) \/ Dns(w) \/ NetbiosTest(w)
  \/ EnterNetbios(w) \/ Netbios(w) \/ TcpTest(w) \/ EnterTcp445(w)
  \/ Tcp445(w) \/ EnterRegistry(w) \/ RegNetbios(w) \/ Registry(w)
  \/ LeaveRegistry(w) \/ FileTest(w) \/ EnterFile(w) \/ FileNetbios(w)
  \/ Files(w) \/ LeaveFile(w) \/ SshTest(w) \/ EnterTcp22(w) \/ Tcp22(w)
  \/ EnterSsh(w) \/ Ssh(w) \/ ReleaseThread(w) \/ Count(w)
-----------------------------------------------------------------------------
(* It is over, or it waits for permits that nobody will give back.         *)
Ended ==
  /\ \A w \in Workers : wpc[w] \in {"none", "done", "lost"}
  /\ \/ pc = "idle"
     \/ pc \in {"w_threads", "drain"} /\ Lost # {}
  /\ UNCHANGED vars

Next == Stop \/ AutoScan \/ Ended \/ \E w \in Workers : ScanIp_auto_scan(w)

Spec == Init /\ [][Next]_vars

(* Every thread that is not waiting on a handle closed under it runs; when *)
(* the poll of the counter times out is left open, and so is Stop.         *)
Waiting == {"w_disco", "w_netbios", "w_tcp445", "w_registry", "reg_netbios",
            "w_file", "file_netbios", "w_tcp22", "w_ssh"}

Runnable(w) == ~(handles = "closed" /\ wpc[w] \in Waiting)

FairSpec ==
  /\ Spec
  /\ WF_vars(AutoScan)
  /\ \A w \in Workers : WF_vars(Runnable(w) /\ ScanIp_auto_scan(w))
-----------------------------------------------------------------------------
TypeOK ==
  /\ config \in Configs
  /\ scan_start \in BOOLEAN
  /\ \A s \in Sems : sem[s] \in 0 .. Limit[s] /\ taken[s] \in 0 .. Limit[s]
  /\ handles \in {"open", "closed"}
  /\ pc \in CoordPoints
  /\ i \in 0 .. NbIp
  /\ timedOut \in BOOLEAN /\ saved \in BOOLEAN
  /\ wpc \in [Workers -> WorkerPoints]
  /\ named \subseteq Workers /\ rows \subseteq Workers
  /\ nb_test_ip \in 0 .. NbIp

(* Until the handles are closed every permit is in its semaphore, with a   *)
(* worker inside, or drained, on every path with its nested sections; only *)
(* hs_threads loses some, one for each thread that Stop caught before its  *)
(* first line.                                                             *)
PermitsAccounted ==
  /\ TypeOK
  /\ handles = "open" =>
       \A s \in Sems :
         sem[s] + Cardinality(Inside(s)) + taken[s]
           + (IF s = "threads" THEN Cardinality(Lost) ELSE 0) = Limit[s]

(* The scan ends unless a permit was lost, and every thread ends unless    *)
(* the handles were closed under it: the nested sections cannot make       *)
(* threads wait for each other in a circle, not even beside a coordinator  *)
(* that hangs.                                                             *)
AutoEnds ==
  /\ <>(pc = "idle" \/ Lost # {})
  /\ \A w \in Workers :
       wpc[w] = "born" ~> wpc[w] \in {"done", "lost"} \/ timedOut

(* "saving the results at the end": once there is a row the automatic scan *)
(* comes to saving it, stopped or not, unless a permit was lost or it gave *)
(* up on its threads.                                                      *)
AutoSaves == rows # {} ~> saved \/ Lost # {} \/ timedOut

(* Whatever today is when a thread comes to the updates and virus scans of *)
(* a machine, in its registry or its files, it tells the machine up to     *)
(* date or not as the age of these says, to the few days of NSAges.        *)
VerdictsTold ==
  \A w \in Workers : wpc[w] \in {"registry", "files"} => AgesTold

(* The nested sections, the early return and the saving change nothing of  *)
(* what a scan promises: this module implements ScanContract. An address   *)
(* whose thread Stop caught at its first line stays begun, and a run that  *)
(* left it so never ends but by giving up.                                 *)
Contract == INSTANCE ScanContract WITH
  status  <- [w \in Workers |->
                IF wpc[w] = "none" THEN "todo"
                ELSE IF wpc[w] \in Section["threads"] \union {"lost"}
                THEN "testing" ELSE "tested"],
  stopped <- ~scan_start,
  more    <- scan_start \/ pc = "w_threads",
  phase   <- IF handles = "open" THEN "running"
             ELSE IF timedOut THEN "gave_up" ELSE "over"

KeepsContract == Contract!Spec
=============================================================================
