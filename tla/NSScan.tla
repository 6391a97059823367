------------------------------- MODULE NSScan -------------------------------
(***************************************************************************)
(* One scan of NS (Network Scanner): the coordinator thread `scan'         *)
(* (NS/main.c) creates one `ScanIp' thread per line of the IP list, seven  *)
(* counting semaphores bound how many of them are in each kind of test,    *)
(* the Stop button clears `scan_start', and the coordinator closes the     *)
(* semaphores when it believes its threads are through.                    *)
(*                                                                         *)
(* A control point is the place in ScanIp or scan the thread has reached;  *)
(* between two points a thread does one thing the others can see.          *)
(***************************************************************************)
EXTENDS Integers, FiniteSets, Sequences

CONSTANTS
  NbIp,     (* lines of the list box CB_IP: nb_i                           *)
  Limit,    (* initial and maximum count of each semaphore, NB_MAX_*       *)
  Configs   (* the test selections the user may have made                  *)

Sems == {"threads", "disco", "netbios", "file", "registry", "tcp", "ssh"}

ConfigFields == {"icmp", "dns", "netbios", "registry", "files", "ssh",
                 "dns_discovery"}

ASSUME NbIpAssumption == NbIp \in Nat
ASSUME LimitAssumption == Limit \in [Sems -> Nat \ {0}]
ASSUME ConfigsAssumption == Configs \subseteq [ConfigFields -> BOOLEAN]

Workers == 0 .. NbIp - 1

Ttls == {"none", "linux", "windows", "router"}   (* -1, 1-64, 65-128, above *)

VARIABLES
  config,      (* the selection this scan runs with                        *)
  scan_start,  (* cleared by Stop; read, without a lock, all over the code  *)
  sem,         (* count of each semaphore                                  *)
  handles,     (* "open" until CloseHandle on the seven semaphores         *)
  pc,          (* control point of the coordinator                         *)
  i,           (* its loop counter: how many workers were created          *)
  taken,       (* permits it drained, per semaphore                        *)
  timedOut,    (* it gave up after THE_END_THREAD_WAIT polls               *)
  wpc,         (* control point of each worker                             *)
  loc,         (* what each worker found out so far (its C locals)         *)
  rows,        (* workers that inserted a row in the result list           *)
  nb_test_ip,  (* tested addresses, shown in the title, polled on Stop     *)
  tmp,         (* value a worker read in its ++nb_test_ip                  *)
  sync         (* owner of the critical section Sync                       *)

coordVars == <<pc, i, taken, timedOut>>
countVars == <<nb_test_ip, tmp, sync>>
vars == <<config, scan_start, sem, handles, coordVars, wpc, loc, rows,
          countVars>>

NoOwner == -1

Locals == [exist : BOOLEAN, dnsok : BOOLEAN, netBIOS : BOOLEAN,
           named : BOOLEAN, ttl : Ttls]

NoLocals == [exist |-> FALSE, dnsok |-> FALSE, netBIOS |-> FALSE,
             named |-> FALSE, ttl |-> "none"]
-----------------------------------------------------------------------------
(* The control points of a worker at which it owns a permit, per semaphore. *)

Section ==
  [disco    |-> {"resolve", "icmp", "dns"},
   netbios  |-> {"netbios"},
   tcp      |-> {"tcp445", "tcp22"},
   registry |-> {"registry"},
   file     |-> {"files"},
   ssh      |-> {"ssh"},
   threads  |-> {"start", "w_disco", "resolve", "icmp", "dns", "dns_error",
                 "netbios_test", "w_netbios", "netbios", "smb_test",
                 "w_tcp445", "tcp445", "w_registry", "registry", "file_test",
                 "w_file", "files", "ssh_test", "w_tcp22", "tcp22", "w_ssh",
                 "ssh", "release"}]

Counting == {"count", "w_sync", "in_sync", "raw", "in_raw"}

WorkerPoints == Section["threads"] \union Counting \union {"none", "done"}

Inside(s) == {w \in Workers : wpc[w] \in Section[s]}

CoordPoints == {"spawn", "w_threads", "branch", "poll", "drain", "close",
                "report", "idle"}

(* One permit of each of these, in this order, after all of hs_threads.    *)
DrainOrder == <<"netbios", "file", "registry", "tcp", "ssh">>
-----------------------------------------------------------------------------
(* WaitForSingleObject(s, INFINITE) on a semaphore: blocks at count zero;  *)
(* on a closed handle it fails at once, and no caller looks at the result. *)
Wait(s) ==
  \/ /\ handles = "open"
     /\ sem[s] > 0
     /\ sem' = [sem EXCEPT ![s] = @ - 1]
  \/ /\ handles = "closed"
     /\ UNCHANGED sem

(* ReleaseSemaphore(s, 1, NULL): fails at the maximum or on a closed handle *)
Release(s) ==
  sem' = IF handles = "open" /\ sem[s] < Limit[s]
         THEN [sem EXCEPT ![s] = @ + 1]
         ELSE sem

Goto(w, l) == wpc' = [wpc EXCEPT ![w] = l]

Move(w, from, to) == wpc[w] = from /\ Goto(w, to)

AddRow(w) == rows' = rows \union {w}
-----------------------------------------------------------------------------
Init ==
  /\ config \in Configs
  /\ scan_start = TRUE
  /\ sem = Limit
  /\ handles = "open"
  /\ pc = "spawn"
  /\ i = 0
  /\ taken = [s \in Sems |-> 0]
  /\ timedOut = FALSE
  /\ wpc = [w \in Workers |-> "none"]
  /\ loc = [w \in Workers |-> NoLocals]
  /\ rows = {}
  /\ nb_test_ip = 0
  /\ tmp = [w \in Workers |-> 0]
  /\ sync = NoOwner

(* The Stop button (or closing the window) while the scan runs.            *)
Stop ==
  /\ scan_start
  /\ scan_start' = FALSE
  /\ UNCHANGED <<config, sem, handles, coordVars, wpc, loc, rows, countVars>>
-----------------------------------------------------------------------------
(* The coordinator.                                                        *)

(* Mutants of the loop test: off by one at either end; blind to Stop.       *)
SpawnTestOneMore ==
  /\ pc = "spawn"
  /\ pc' = IF i <= NbIp /\ scan_start THEN "w_threads" ELSE "branch"
  /\ UNCHANGED <<config, scan_start, sem, handles, i, taken, timedOut, wpc,
                 loc, rows, countVars>>

SpawnTestOneLess ==
  /\ pc = "spawn"
  /\ pc' = IF i < NbIp - 1 /\ scan_start THEN "w_threads" ELSE "branch"
  /\ UNCHANGED <<config, scan_start, sem, handles, i, taken, timedOut, wpc,
                 loc, rows, countVars>>

SpawnTestIgnoresStop ==
  /\ pc = "spawn"
  /\ pc' = IF i < NbIp THEN "w_threads" ELSE "branch"
  /\ UNCHANGED <<config, scan_start, sem, handles, i, taken, timedOut, wpc,
                 loc, rows, countVars>>

(* for (i=0; i<nb_i && scan_start; i++): the loop test.                    *)
SpawnTest ==
  /\ pc = "spawn"
  /\ pc' = IF i < NbIp /\ scan_start THEN "w_threads" ELSE "branch"
  /\ UNCHANGED <<config, scan_start, sem, handles, i, taken, timedOut, wpc,
                 loc, rows, countVars>>

(* Mutant: counts the address when its thread is created.                  *)
SpawnCounts ==
  /\ pc = "w_threads"
  /\ Wait("threads")
  /\ Move(i, "none", "start")
  /\ i' = i + 1
  /\ pc' = "spawn"
  /\ nb_test_ip' = nb_test_ip + 1
  /\ UNCHANGED <<config, scan_start, handles, taken, timedOut, loc, rows, tmp,
                 sync>>

(* Waits for a permit of hs_threads, on behalf of the thread it creates.   *)
Spawn ==
  /\ pc = "w_threads"
  /\ Wait("threads")
  /\ Move(i, "none", "start")
  /\ i' = i + 1
  /\ pc' = "spawn"
  /\ UNCHANGED <<config, scan_start, handles, taken, timedOut, loc, rows,
                 countVars>>

(* if (!scan_start) poll the counter, else take the permits back.          *)
Branch ==
  /\ pc = "branch"
  /\ pc' = IF scan_start THEN "drain" ELSE "poll"
  /\ UNCHANGED <<config, scan_start, sem, handles, i, taken, timedOut, wpc,
                 loc, rows, countVars>>

(* Mutant: stops polling one address early.                                *)
PollDoneEarly ==
  /\ pc = "poll"
  /\ nb_test_ip + 1 >= i
  /\ pc' = "close"
  /\ UNCHANGED <<config, scan_start, sem, handles, i, taken, timedOut, wpc,
                 loc, rows, countVars>>

(* while (nb_test_ip < i && end < THE_END_THREAD_WAIT) Sleep(100): ends    *)
(* because the counter got there...                                        *)
PollDone ==
  /\ pc = "poll"
  /\ nb_test_ip >= i
  /\ pc' = "close"
  /\ UNCHANGED <<config, scan_start, sem, handles, i, taken, timedOut, wpc,
                 loc, rows, countVars>>

(* ... or because 100 seconds went by.                                     *)
PollTimeout ==
  /\ pc = "poll"
  /\ nb_test_ip < i
  /\ pc' = "close"
  /\ timedOut' = TRUE
  /\ UNCHANGED <<config, scan_start, sem, handles, i, taken, wpc, loc, rows,
                 countVars>>

Drain(s) ==
  /\ pc = "drain"
  /\ Wait(s)
  /\ taken' = [taken EXCEPT ![s] = @ + 1]
  /\ UNCHANGED <<config, scan_start, handles, pc, i, timedOut, wpc, loc, rows,
                 countVars>>

DrainThreads == taken["threads"] < Limit["threads"] /\ Drain("threads")

DrainOthers ==
  /\ taken["threads"] = Limit["threads"]
  /\ \E k \in DOMAIN DrainOrder :
       /\ taken[DrainOrder[k]] = 0
       /\ \A j \in 1 .. k - 1 : taken[DrainOrder[j]] = 1
       /\ Drain(DrainOrder[k])

DrainDone ==
  /\ pc = "drain"
  /\ taken["threads"] = Limit["threads"]
  /\ \A k \in DOMAIN DrainOrder : taken[DrainOrder[k]] = 1
  /\ pc' = "close"
  /\ UNCHANGED <<config, scan_start, sem, handles, i, taken, timedOut, wpc,
                 loc, rows, countVars>>

CloseHandles ==
  /\ pc = "close"
  /\ handles' = "closed"
  /\ pc' = "report"
  /\ UNCHANGED <<config, scan_start, sem, i, taken, timedOut, wpc, loc, rows,
                 countVars>>

(* Enables the window again and clears scan_start.                         *)
Finish ==
  /\ pc = "report"
  /\ scan_start' = FALSE
  /\ pc' = "idle"
  /\ UNCHANGED <<config, sem, handles, i, taken, timedOut, wpc, loc, rows,
                 countVars>>

Coordinator ==
  \/ SpawnTest \/ Spawn \/ Branch \/ PollDone \/ PollTimeout
  \/ DrainThreads \/ DrainOthers \/ DrainDone \/ CloseHandles \/ Finish
-----------------------------------------------------------------------------
(* A worker waits for a permit of s at point `from' and enters at `to'.    *)
Enter(w, s, from, to) ==
  /\ Move(w, from, to)
  /\ Wait(s)
  /\ UNCHANGED <<config, scan_start, handles, coordVars, loc, rows, countVars>>

(* It goes on from `from' to `to', giving back a permit of s.              *)
Leave(w, s, from, to) ==
  /\ Move(w, from, to)
  /\ Release(s)
  /\ UNCHANGED <<config, scan_start, handles, coordVars, countVars>>

(* It goes on from `from' to `to'; only its control point changes.         *)
Step(w, from, to) ==
  /\ Move(w, from, to)
  /\ UNCHANGED <<config, scan_start, sem, handles, coordVars, loc, rows,
                 countVars>>

(* Reads its address: too long or empty, or no discovery test selected, is *)
(* the end of the thread.                                                  *)
Start(w) ==
  \/ Step(w, "start", "release")
  \/ /\ config.icmp \/ config.dns \/ config.netbios
     /\ Step(w, "start", "w_disco")

EnterDisco(w) == Enter(w, "disco", "w_disco", "resolve")

(* A numeric address needs no resolution; a name is resolved.              *)
Resolve(w) ==
  /\ Move(w, "resolve", "icmp")
  /\ \/ UNCHANGED <<loc, rows>>
     \/ /\ loc' = [loc EXCEPT ![w] =
                      [@ EXCEPT !.named = TRUE,
                                !.exist = config.dns_discovery,
                                !.dnsok = config.dns_discovery]]
        /\ IF config.dns_discovery THEN AddRow(w) ELSE UNCHANGED rows
  /\ UNCHANGED <<config, scan_start, sem, handles, coordVars, countVars>>

(* Mutant: the early exit forgets the discovery permit.                    *)
ResolveErrorKeepsPermit(w) == Step(w, "resolve", "dns_error")

(* A name that does not resolve gets an "[ERROR DNS]" row.                 *)
ResolveError(w) ==
  /\ Leave(w, "disco", "resolve", "dns_error")
  /\ AddRow(w)
  /\ UNCHANGED loc

(* This early exit counts under Sync whatever scan_start says.             *)
ReleaseError(w) ==
  /\ Leave(w, "threads", "dns_error", "w_sync")
  /\ loc' = [loc EXCEPT ![w] = NoLocals]
  /\ UNCHANGED rows

(* Mutant: the second comparison repeats the first one.                    *)
IcmpLinuxOnly(w) ==
  /\ Move(w, "icmp", "dns")
  /\ \/ UNCHANGED <<loc, rows>>
     \/ /\ config.icmp /\ scan_start
        /\ \E t \in Ttls \ {"none"} :
             /\ loc' = [loc EXCEPT ![w] =
                          [@ EXCEPT !.ttl = t, !.exist = TRUE]]
             /\ IF ~loc[w].exist /\ t = "linux"
                THEN AddRow(w)
                ELSE UNCHANGED rows
  /\ UNCHANGED <<config, scan_start, sem, handles, coordVars, countVars>>

(* A host that answers exists; its row names the OS its TTL suggests. The  *)
(* third comparison repeats MACH_WINDOWS, so above 128 no row is inserted. *)
Icmp(w) ==
  /\ Move(w, "icmp", "dns")
  /\ \/ UNCHANGED <<loc, rows>>
     \/ /\ config.icmp /\ scan_start
        /\ \E t \in Ttls \ {"none"} :
             /\ loc' = [loc EXCEPT ![w] =
                          [@ EXCEPT !.ttl = t, !.exist = TRUE]]
             /\ IF ~loc[w].exist /\ t \in {"linux", "windows"}
                THEN AddRow(w)
                ELSE UNCHANGED rows
  /\ UNCHANGED <<config, scan_start, sem, handles, coordVars, countVars>>

(* Reverse resolution, then the discovery permit goes back.                *)
Dns(w) ==
  /\ Leave(w, "disco", "dns", "netbios_test")
  /\ \/ UNCHANGED <<loc, rows>>
     \/ /\ config.dns /\ scan_start /\ ~loc[w].named
        /\ config.dns_discovery
        /\ loc' = [loc EXCEPT ![w] =
                      [@ EXCEPT !.named = TRUE, !.dnsok = TRUE,
                                !.exist = TRUE]]
        /\ IF loc[w].exist THEN UNCHANGED rows ELSE AddRow(w)

NetbiosTest(w) ==
  LET go == /\ loc[w].exist /\ w \in rows
            /\ loc[w].dnsok \/ ~config.dns
            /\ config.netbios /\ scan_start
  IN Step(w, "netbios_test", IF go THEN "w_netbios" ELSE "smb_test")

EnterNetbios(w) == Enter(w, "netbios", "w_netbios", "netbios")

(* Netbios_OS, null session, time and shares; nothing is asked once        *)
(* scan_start is cleared.                                                  *)
Netbios(w) ==
  /\ Leave(w, "netbios", "netbios", "smb_test")
  /\ \/ UNCHANGED loc
     \/ scan_start /\ loc' = [loc EXCEPT ![w] = [@ EXCEPT !.netBIOS = TRUE]]
  /\ UNCHANGED rows

(* The condition of the registry and file tests; TCP_port_open begins with *)
(* the same test of scan_start.                                            *)
SmbTest(w) ==
  LET go == /\ \/ ~config.netbios \/ loc[w].netBIOS
               \/ loc[w].ttl \in {"windows", "router"}
               \/ loc[w].dnsok /\ loc[w].ttl = "none"
            /\ scan_start /\ loc[w].exist
  IN Step(w, "smb_test", IF go THEN "w_tcp445" ELSE "ssh_test")

EnterTcp445(w) == Enter(w, "tcp", "w_tcp445", "tcp445")

Tcp445(w) ==
  /\ \/ Leave(w, "tcp", "tcp445", "ssh_test")
     \/ Leave(w, "tcp", "tcp445",
              IF config.registry THEN "w_registry" ELSE "file_test")
  /\ UNCHANGED <<loc, rows>>

EnterRegistry(w) == Enter(w, "registry", "w_registry", "registry")

Registry(w) ==
  /\ Leave(w, "registry", "registry", "file_test")
  /\ UNCHANGED <<loc, rows>>

FileTest(w) ==
  Step(w, "file_test", IF config.files /\ scan_start THEN "w_file"
                       ELSE "ssh_test")

EnterFile(w) == Enter(w, "file", "w_file", "files")

Files(w) ==
  /\ Leave(w, "file", "files", "ssh_test")
  /\ UNCHANGED <<loc, rows>>

SshTest(w) ==
  Step(w, "ssh_test", IF loc[w].exist /\ config.ssh /\ scan_start
                      THEN "w_tcp22" ELSE "release")

EnterTcp22(w) == Enter(w, "tcp", "w_tcp22", "tcp22")

Tcp22(w) ==
  /\ \E to \in {"w_ssh", "release"} : Leave(w, "tcp", "tcp22", to)
  /\ UNCHANGED <<loc, rows>>

EnterSsh(w) == Enter(w, "ssh", "w_ssh", "ssh")

(* Mutant: the last section forgets its permit.                            *)
SshKeepsPermit(w) == Step(w, "ssh", "release")

Ssh(w) ==
  /\ Leave(w, "ssh", "ssh", "release")
  /\ UNCHANGED <<loc, rows>>

(* The permit of hs_threads goes back before the address is counted.       *)
ReleaseThread(w) ==
  /\ Leave(w, "threads", "release", "count")
  /\ loc' = [loc EXCEPT ![w] = NoLocals]
  /\ UNCHANGED rows

(* if (scan_start) count under Sync, else nb_test_ip++ without it.         *)
Count(w) == Step(w, "count", IF scan_start THEN "w_sync" ELSE "raw")

CountRead(w, from, to) ==
  /\ Move(w, from, to)
  /\ tmp' = [tmp EXCEPT ![w] = nb_test_ip]
  /\ UNCHANGED <<config, scan_start, sem, handles, coordVars, loc, rows,
                 nb_test_ip>>

CountWrite(w, from) ==
  /\ Move(w, from, "done")
  /\ nb_test_ip' = tmp[w] + 1
  /\ tmp' = [tmp EXCEPT ![w] = 0]
  /\ UNCHANGED <<config, scan_start, sem, handles, coordVars, loc, rows>>

(* Mutant: no critical section around the increment.                       *)
EnterSyncUnlocked(w) ==
  /\ sync' = w
  /\ CountRead(w, "w_sync", "in_sync")

EnterSync(w) ==
  /\ sync = NoOwner
  /\ sync' = w
  /\ CountRead(w, "w_sync", "in_sync")

LeaveSync(w) == sync' = NoOwner /\ CountWrite(w, "in_sync")

RawRead(w) == CountRead(w, "raw", "in_raw") /\ UNCHANGED sync

RawWrite(w) == CountWrite(w, "in_raw") /\ UNCHANGED sync

Discover(w) ==
  \/ Start(w) \/ EnterDisco(w) \/ Resolve(w) \/ ResolveError(w)
  \/ ReleaseError(w) \/ Icmp(w) \/ Dns(w)

Test(w) ==
  \/ NetbiosTest(w) \/ EnterNetbios(w) \/ Netbios(w)
  \/ SmbTest(w) \/ EnterTcp445(w) \/ Tcp445(w)
  \/ EnterRegistry(w) \/ Registry(w) \/ FileTest(w) \/ EnterFile(w) \/ Files(w)
  \/ SshTest(w) \/ EnterTcp22(w) \/ Tcp22(w) \/ EnterSsh(w) \/ Ssh(w)

Account(w) ==
  \/ ReleaseThread(w) \/ Count(w) \/ EnterSync(w) \/ LeaveSync(w)
  \/ RawRead(w) \/ RawWrite(w)

ScanIp(w) == Discover(w) \/ Test(w) \/ Account(w)
-----------------------------------------------------------------------------
(* The scan is over and every thread it created has ended.                 *)
Ended ==
  /\ pc = "idle"
  /\ \A w \in Workers : wpc[w] \in {"none", "done"}

Terminated == Ended /\ UNCHANGED vars

Next == Stop \/ Coordinator \/ (\E w \in Workers : ScanIp(w)) \/ Terminated

Spec == Init /\ [][Next]_vars

(* What the code's scheduling justifies: Windows runs every ready thread    *)
(* and every wait inside a test has its own timeout. A thread that waits on *)
(* a handle closed under it has no such promise, and neither has Stop.      *)
Waiting == {"w_disco", "w_netbios", "w_tcp445", "w_registry", "w_file",
            "w_tcp22", "w_ssh"}

Runnable(w) == ~(handles = "closed" /\ wpc[w] \in Waiting)

Fairness ==
  /\ WF_vars(Coordinator)
  /\ \A w \in Workers : WF_vars(Runnable(w) /\ ScanIp(w))

FairSpec == Spec /\ Fairness
-----------------------------------------------------------------------------
(* Each variable stays in its range; the counts stay in 0 .. Limit.        *)
TypeOK ==
  /\ config \in [ConfigFields -> BOOLEAN]
  /\ scan_start \in BOOLEAN
  /\ sem \in [Sems -> Nat]
  /\ \A s \in Sems : sem[s] <= Limit[s]
  /\ handles \in {"open", "closed"}
  /\ pc \in CoordPoints
  /\ i \in 0 .. NbIp
  /\ pc = "w_threads" => i < NbIp
  /\ taken \in [Sems -> Nat]
  /\ timedOut \in BOOLEAN
  /\ wpc \in [Workers -> WorkerPoints]
  /\ loc \in [Workers -> Locals]
  /\ rows \in SUBSET Workers
  /\ nb_test_ip \in Nat
  /\ tmp \in [Workers -> Nat]
  /\ sync \in Workers \union {NoOwner}

(* No permit is lost or made up: while the handles are open the count of   *)
(* each semaphore, the threads inside its section and the permits the      *)
(* coordinator drained add up to its limit, on every path out of ScanIp.   *)
PermitsConserved ==
  handles = "open" =>
    \A s \in Sems : sem[s] + Cardinality(Inside(s)) + taken[s] = Limit[s]

(* The semaphores are never closed under a thread that still uses them,    *)
(* unless the wait after a Stop ran into its 100 s timeout. Both ways of   *)
(* waiting, by the drain and by the counter, must give that.               *)
CloseSafe ==
  handles = "closed" /\ ~timedOut =>
    \A w \in Workers : wpc[w] \in Counting \union {"none", "done"}

(* A scan that took its permits back has tested every line of the list,    *)
(* even if Stop was pressed during the drain.                              *)
DrainedMeansTested ==
  handles = "closed" /\ taken["threads"] = Limit["threads"] =>
    \A w \in Workers : wpc[w] \in Counting \union {"done"}

Done == {w \in Workers : wpc[w] = "done"}

(* While the scan runs the title's counter is exact: every increment so    *)
(* far was made under Sync, so none was lost.                              *)
CountExact ==
  scan_start => nb_test_ip = Cardinality(Done)

(* Increments race after a Stop, but they can only lose: the counter the   *)
(* coordinator polls is never ahead of the threads that ended.             *)
NeverOverCounted ==
  nb_test_ip <= Cardinality(Done)

(* A host found on the network, by its name or by its answer, has its row  *)
(* in the result list by the time its thread looks for NetBIOS; only the   *)
(* hosts with a TTL above 128 have none.                                   *)
FoundHostHasRow ==
  \A w \in Workers :
    wpc[w] \in {"dns", "netbios_test"} /\ loc[w].exist =>
      w \in rows \/ loc[w].ttl = "router"

(* What the proofs need beyond the properties: values read for an          *)
(* increment are not ahead either, ...                                     *)
CounterInv ==
  /\ NeverOverCounted
  /\ \A w \in Workers :
       wpc[w] \in {"in_sync", "in_raw"} => tmp[w] <= Cardinality(Done)

(* ... Sync excludes, and while scan_start holds nobody counts without it, *)
ExactInv ==
  /\ CountExact
  /\ \A w \in Workers : wpc[w] = "in_sync" => sync = w
  /\ scan_start => \A w \in Workers :
       /\ wpc[w] \notin {"raw", "in_raw"}
       /\ wpc[w] = "in_sync" => tmp[w] = nb_test_ip

(* ... and how far the coordinator is says what the threads are doing.     *)
Quiet == \A w \in Workers : w < i => wpc[w] \in Counting \union {"done"}

PhaseInv ==
  /\ \A w \in Workers : wpc[w] = "none" <=> i <= w
  /\ handles = "open" <=> pc \notin {"report", "idle"}
  /\ pc = "idle" => ~scan_start
  /\ pc = "branch" => ~scan_start \/ i = NbIp
  /\ pc = "poll" => ~scan_start
  /\ pc \in {"drain", "close", "report", "idle"} => ~scan_start \/ i = NbIp
  /\ pc = "drain" => i = NbIp
  /\ taken["threads"] # 0 =>
       pc \in {"drain", "close", "report", "idle"} /\ i = NbIp /\ ~timedOut
  /\ timedOut => ~scan_start /\ pc \in {"close", "report", "idle"}
  /\ pc \in {"close", "report", "idle"} /\ ~timedOut => Quiet

(* The scan ends, stopped or not.                                          *)
ScanEnds == <>(pc = "idle")

(* Unless the coordinator gave up on them, all threads end as well: no     *)
(* order of the seven semaphores leaves one waiting for ever.              *)
WorkersEnd == <>(timedOut \/ Ended)

(* The detailed scan keeps the contract of module ScanContract.            *)
Status ==
  [w \in Workers |->
    IF wpc[w] = "none" THEN "todo"
    ELSE IF wpc[w] \in Section["threads"] THEN "testing" ELSE "tested"]

Contract == INSTANCE ScanContract WITH
  status  <- Status,
  stopped <- ~scan_start,
  more    <- scan_start \/ pc = "w_threads",
  phase   <- IF handles = "open" THEN "running"
             ELSE IF timedOut THEN "gave_up" ELSE "over"

KeepsContract == Contract!Spec
=============================================================================
