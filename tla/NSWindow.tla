------------------------------ MODULE NSWindow ------------------------------
(***************************************************************************)
(* The window of NS over several runs: Start and Remote Extract create a   *)
(* coordinator thread, which creates worker threads; the flag scan_start,  *)
(* the buttons' enabled state and the global semaphore handles are all     *)
(* that keeps one run from another.                                        *)
(*                                                                         *)
(* Module NSScan has the inside of one run. Here a worker is born, tests,  *)
(* counts itself and ends; hs_threads stands for the seven semaphores; and *)
(* a semaphore is named by the run that created it, because a new run puts *)
(* new handles into the same global variables.                             *)
(***************************************************************************)
EXTENDS Integers, FiniteSets

CONSTANTS
  MaxRuns,  (* bound on the runs the user starts; run 0 is thread auto_scan *)
  NbIp,     (* addresses of each run                                        *)
  Limit     (* permits of hs_threads                                        *)

ASSUME BoundsAssumption ==
  MaxRuns \in Nat /\ NbIp \in Nat /\ Limit \in Nat \ {0}

Runs == 0 .. MaxRuns
Workers == Runs \X (1 .. NbIp)

VARIABLES
  scan_start,
  startOn, reOn, loadOn, (* BT_START, BT_RE, CHK_LOAD_IP_FILE are enabled   *)
  kind,       (* what each run is                                          *)
  pc,         (* where its coordinator is                                  *)
  made,       (* workers it created                                        *)
  taken,      (* permits it drained                                        *)
  gen,        (* the run whose semaphores the global handles are           *)
  hs,         (* the semaphore each coordinator waits on                   *)
  sem, open,  (* count, and whether the handles are open, by creator       *)
  wst,        (* state of each worker                                      *)
  row,        (* its index into the result list: none, or valid, or stale  *)
  nb_test_ip,
  loader,     (* thread load_file_ip                                       *)
  window,     (* "open" or "closed"                                        *)
  leaks       (* what went wrong so far, see Leaks                         *)

buttonVars == <<startOn, reOn, loadOn>>
runVars == <<kind, pc, made, taken, hs>>
semVars == <<gen, sem, open>>
workerVars == <<wst, row, nb_test_ip>>
vars == <<scan_start, buttonVars, runVars, semVars, workerVars, loader, window,
          leaks>>

(* The ways a run can reach into another one: the wait after a Stop ran    *)
(* out of time; a run began before the last one had cleared scan_start;    *)
(* load_file_ip ran beside a run; Start, Remote Extract or Stop were       *)
(* clicked while thread auto_scan was still reading NS.ini; a worker       *)
(* counted itself after the next run had reset the counter. And a worker   *)
(* of the automatic scan may find scan_start cleared and keep its permit.  *)
Leaks == {"timeout", "overlap", "loader", "boot", "late_count", "permit"}

EarlyClick == IF pc[0] \in {"init", "boot", "list"} THEN {"boot"} ELSE {}

Busy(k) == pc[k] \notin {"none", "done"}

GuiFree == window = "open" /\ loader # "dialog"

Unused(k) == pc[k] = "none" /\ \A j \in Runs : j < k => pc[j] # "none"
-----------------------------------------------------------------------------
Init ==
  /\ scan_start = FALSE
  /\ startOn = TRUE /\ reOn = TRUE /\ loadOn = TRUE
  /\ kind = [k \in Runs |-> IF k = 0 THEN "boot" ELSE "none"]
  /\ pc = [k \in Runs |-> IF k = 0 THEN "init" ELSE "none"]
  /\ made = [k \in Runs |-> 0]
  /\ taken = [k \in Runs |-> 0]
  /\ hs = [k \in Runs |-> 0]
  /\ gen = 0
  /\ sem = [k \in Runs |-> 0]
  /\ open = [k \in Runs |-> FALSE]
  /\ wst = [w \in Workers |-> "none"]
  /\ row = [w \in Workers |-> "none"]
  /\ nb_test_ip = 0
  /\ loader = "none"
  /\ window = "open"
  /\ leaks = {}
-----------------------------------------------------------------------------
(* The window thread.                                                      *)

(* ListView_DeleteAllItems and ListView_SortItemsEx.                       *)
MoveRows == row' = [w \in Workers |-> IF row[w] = "valid" THEN "stale"
                                      ELSE row[w]]

Begin(k, what) ==
  /\ GuiFree
  /\ ~scan_start
  /\ Unused(k)
  /\ scan_start' = TRUE
  /\ loadOn' = FALSE
  /\ kind' = [kind EXCEPT ![k] = what]
  /\ pc' = [pc EXCEPT ![k] = "load"]
  /\ MoveRows
  /\ leaks' = leaks \union (IF \E j \in Runs : Busy(j) THEN {"overlap"} ELSE {})
                    \union (IF loader # "none" THEN {"loader"} ELSE {})
                    \union EarlyClick
  /\ UNCHANGED <<made, taken, hs, semVars, wst, nb_test_ip, loader, window>>

StartScan(k) ==
  /\ startOn /\ Begin(k, "scan")
  /\ reOn' = FALSE /\ UNCHANGED startOn

StartExtract(k) ==
  /\ reOn /\ Begin(k, "extract")
  /\ startOn' = FALSE /\ UNCHANGED reOn

(* Mutant: Stop leaves its button enabled.                                 *)
StopKeepsButton ==
  /\ GuiFree
  /\ scan_start
  /\ startOn \/ reOn
  /\ scan_start' = FALSE
  /\ leaks' = leaks \union EarlyClick
  /\ UNCHANGED <<buttonVars, runVars, semVars, workerVars, loader, window>>

Stop ==
  /\ GuiFree
  /\ scan_start
  /\ scan_start' = FALSE
  /\ \/ startOn /\ startOn' = FALSE /\ UNCHANGED reOn
     \/ reOn /\ reOn' = FALSE /\ UNCHANGED startOn
  /\ leaks' = leaks \union EarlyClick
  /\ UNCHANGED <<loadOn, runVars, semVars, workerVars, loader, window>>

(* Mutant: sorts as soon as scan_start is cleared.                         *)
SortIgnoresButton ==
  /\ GuiFree
  /\ ~scan_start
  /\ MoveRows
  /\ UNCHANGED <<scan_start, buttonVars, runVars, semVars, wst, nb_test_ip,
                 loader, window, leaks>>

Sort ==
  /\ GuiFree
  /\ ~scan_start /\ startOn
  /\ MoveRows
  /\ UNCHANGED <<scan_start, buttonVars, runVars, semVars, wst, nb_test_ip,
                 loader, window, leaks>>

(* CHK_LOAD_IP_FILE, checked: a thread loads a list of addresses.          *)
CheckLoad ==
  /\ GuiFree
  /\ loadOn
  /\ loader = "none"
  /\ loader' = "start"
  /\ leaks' = leaks \union (IF \E j \in Runs : Busy(j) THEN {"loader"} ELSE {})
  /\ UNCHANGED <<scan_start, buttonVars, runVars, semVars, workerVars, window>>

Close ==
  /\ GuiFree
  /\ window' = "closed"
  /\ scan_start' = FALSE
  /\ UNCHANGED <<buttonVars, runVars, semVars, workerVars, loader, leaks>>

DlgMain ==
  \/ Stop \/ Sort \/ CheckLoad \/ Close
  \/ \E k \in Runs : StartScan(k) \/ StartExtract(k)
-----------------------------------------------------------------------------
(* load_file_ip: takes Start away, asks for a file, gives Start back.      *)

LoadBegin ==
  /\ loader = "start"
  /\ loader' = "dialog"
  /\ startOn' = FALSE /\ loadOn' = FALSE
  /\ UNCHANGED <<scan_start, reOn, runVars, semVars, workerVars, window, leaks>>

LoadFile ==
  /\ loader = "dialog"
  /\ loader' = "loading"
  /\ UNCHANGED <<scan_start, buttonVars, runVars, semVars, workerVars, window,
                 leaks>>

LoadEnd ==
  /\ loader = "loading"
  /\ loader' = "none"
  /\ startOn' = TRUE /\ loadOn' = TRUE
  /\ UNCHANGED <<scan_start, reOn, runVars, semVars, workerVars, window, leaks>>

Loader == window = "open" /\ (LoadBegin \/ LoadFile \/ LoadEnd)
-----------------------------------------------------------------------------
(* A coordinator: auto_scan, scan or remote_extract.                       *)

At(k, from, to) ==
  /\ window = "open"
  /\ pc[k] = from
  /\ pc' = [pc EXCEPT ![k] = to]

(* Thread auto_scan begins, while the window already takes clicks.         *)
BootBegin ==
  /\ At(0, "init", "boot")
  /\ scan_start' = TRUE
  /\ MoveRows
  /\ UNCHANGED <<buttonVars, kind, made, taken, hs, semVars, wst, nb_test_ip,
                 loader, window, leaks>>

(* NS.ini asks for no automatic scan: Start, then scan_start.              *)
BootManual ==
  /\ At(0, "boot", "clear")
  /\ startOn' = TRUE
  /\ UNCHANGED <<scan_start, reOn, loadOn, kind, made, taken, hs, semVars,
                 workerVars, loader, window, leaks>>

(* TYPE is AUTO or SIMPLE: without IP_FILE the thread ends here and leaves *)
(* scan_start set; with one, Start is disabled while the list is loaded.   *)
BootList ==
  /\ \/ At(0, "boot", "done") /\ UNCHANGED startOn
     \/ At(0, "boot", "list") /\ startOn' = FALSE
  /\ UNCHANGED <<scan_start, reOn, loadOn, kind, made, taken, hs, semVars,
                 workerVars, loader, window, leaks>>

(* SIMPLE creates thread scan, AUTO goes on itself.                        *)
BootScan ==
  /\ At(0, "list", "load")
  /\ \E what \in {"scan", "auto"} : kind' = [kind EXCEPT ![0] = what]
  /\ startOn' = TRUE /\ reOn' = FALSE /\ loadOn' = FALSE
  /\ leaks' = leaks \union (IF loader # "none" THEN {"loader"} ELSE {})
  /\ UNCHANGED <<scan_start, made, taken, hs, semVars, workerVars, loader,
                 window>>

(* New semaphores in the global handles, and the counter from zero.        *)
Create(k) ==
  /\ At(k, "load", "spawn")
  /\ gen' = k
  /\ sem' = [sem EXCEPT ![k] = Limit]
  /\ open' = [open EXCEPT ![k] = TRUE]
  /\ nb_test_ip' = 0
  /\ UNCHANGED <<scan_start, buttonVars, kind, made, taken, hs, wst, row,
                 loader, window, leaks>>

(* remote_extract without a directory to save to: straight to the closing  *)
(* of the handles of whatever run came before.                             *)
NoDirectory(k) ==
  /\ kind[k] = "extract"
  /\ At(k, "load", "close")
  /\ UNCHANGED <<scan_start, buttonVars, kind, made, taken, hs, semVars,
                 workerVars, loader, window, leaks>>

(* The loop test; hs_threads is read at the call of WaitForSingleObject.   *)
SpawnTest(k) ==
  /\ At(k, "spawn", IF made[k] < NbIp /\ scan_start THEN "acquire"
                    ELSE "branch")
  /\ hs' = [hs EXCEPT ![k] = gen]
  /\ UNCHANGED <<scan_start, buttonVars, kind, made, taken, semVars,
                 workerVars, loader, window, leaks>>

(* Waiting for a permit of hs[k]; a handle closed meanwhile may let it by. *)
Acquire(k) ==
  \/ open[hs[k]] /\ sem[hs[k]] > 0 /\ sem' = [sem EXCEPT ![hs[k]] = @ - 1]
  \/ ~open[hs[k]] /\ UNCHANGED sem

(* Mutant: the thread is created without a permit.                         *)
SpawnNoWait(k) ==
  /\ At(k, "acquire", "spawn")
  /\ made' = [made EXCEPT ![k] = @ + 1]
  /\ wst' = [wst EXCEPT ![<<k, made'[k]>>] = "born"]
  /\ UNCHANGED <<scan_start, buttonVars, kind, taken, hs, semVars, row,
                 nb_test_ip, loader, window, leaks>>

Spawn(k) ==
  /\ At(k, "acquire", "spawn")
  /\ Acquire(k)
  /\ made' = [made EXCEPT ![k] = @ + 1]
  /\ wst' = [wst EXCEPT ![<<k, made'[k]>>] = "born"]
  /\ UNCHANGED <<scan_start, buttonVars, kind, taken, hs, gen, open, row,
                 nb_test_ip, loader, window, leaks>>

Branch(k) ==
  /\ At(k, "branch", IF scan_start THEN "drain" ELSE "poll")
  /\ hs' = [hs EXCEPT ![k] = gen]
  /\ UNCHANGED <<scan_start, buttonVars, kind, made, taken, semVars,
                 workerVars, loader, window, leaks>>

PollDone(k) ==
  /\ nb_test_ip >= made[k]
  /\ At(k, "poll", "close")
  /\ UNCHANGED <<scan_start, buttonVars, kind, made, taken, hs, semVars,
                 workerVars, loader, window, leaks>>

PollTimeout(k) ==
  /\ nb_test_ip < made[k]
  /\ At(k, "poll", "close")
  /\ leaks' = leaks \union {"timeout"}
  /\ UNCHANGED <<scan_start, buttonVars, kind, made, taken, hs, semVars,
                 workerVars, loader, window>>

(* Mutant: the drain stops one permit short.                               *)
DrainOneLess(k) ==
  /\ At(k, "drain", IF taken[k] + 2 >= Limit THEN "close" ELSE "drain")
  /\ Acquire(k)
  /\ taken' = [taken EXCEPT ![k] = @ + 1]
  /\ hs' = [hs EXCEPT ![k] = gen]
  /\ UNCHANGED <<scan_start, buttonVars, kind, made, gen, open, workerVars,
                 loader, window, leaks>>

Drain(k) ==
  /\ At(k, "drain", IF taken[k] + 1 = Limit THEN "close" ELSE "drain")
  /\ Acquire(k)
  /\ taken' = [taken EXCEPT ![k] = @ + 1]
  /\ hs' = [hs EXCEPT ![k] = gen]
  /\ UNCHANGED <<scan_start, buttonVars, kind, made, gen, open, workerVars,
                 loader, window, leaks>>

(* CloseHandle on the global handles, whosever they are by now.            *)
CloseHandles(k) ==
  /\ At(k, "close", "buttons")
  /\ open' = [open EXCEPT ![gen] = FALSE]
  /\ UNCHANGED <<scan_start, buttonVars, kind, made, taken, hs, gen, sem,
                 workerVars, loader, window, leaks>>

(* scan and remote_extract: the buttons, and scan_start last.              *)
EnableStart(k) ==
  /\ kind[k] # "auto"
  /\ At(k, "buttons", "re")
  /\ startOn' = TRUE /\ loadOn' = TRUE
  /\ UNCHANGED <<scan_start, reOn, kind, made, taken, hs, semVars, workerVars,
                 loader, window, leaks>>

(* Mutant: the last button is forgotten.                                   *)
EnableReNot(k) ==
  /\ At(k, "re", "clear")
  /\ UNCHANGED <<scan_start, buttonVars, kind, made, taken, hs, semVars,
                 workerVars, loader, window, leaks>>

EnableRe(k) ==
  /\ At(k, "re", "clear")
  /\ reOn' = TRUE
  /\ UNCHANGED <<scan_start, startOn, loadOn, kind, made, taken, hs, semVars,
                 workerVars, loader, window, leaks>>

Clear(k) ==
  /\ At(k, "clear", "done")
  /\ scan_start' = FALSE
  /\ UNCHANGED <<buttonVars, kind, made, taken, hs, semVars, workerVars,
                 loader, window, leaks>>

(* auto_scan: Start comes after scan_start.                                *)
AutoEnd ==
  /\ kind[0] = "auto"
  /\ \/ /\ At(0, "buttons", "auto_clear")
        /\ reOn' = TRUE /\ loadOn' = TRUE /\ UNCHANGED <<scan_start, startOn>>
     \/ /\ At(0, "auto_clear", "auto_start")
        /\ scan_start' = FALSE /\ UNCHANGED buttonVars
     \/ /\ At(0, "auto_start", "done")
        /\ startOn' = TRUE /\ UNCHANGED <<scan_start, reOn, loadOn>>
  /\ UNCHANGED <<kind, made, taken, hs, semVars, workerVars, loader, window,
                 leaks>>

Coordinator(k) ==
  \/ Create(k) \/ NoDirectory(k) \/ SpawnTest(k) \/ Spawn(k) \/ Branch(k)
  \/ PollDone(k) \/ PollTimeout(k) \/ Drain(k) \/ CloseHandles(k)
  \/ EnableStart(k) \/ EnableRe(k) \/ Clear(k)

AutoScan == BootBegin \/ BootManual \/ BootList \/ BootScan \/ AutoEnd
-----------------------------------------------------------------------------
(* A worker: ScanIp, ScanIp_auto_scan or remote_extractIP.                 *)

GoOn(w, from, to) ==
  /\ window = "open"
  /\ wst[w] = from
  /\ wst' = [wst EXCEPT ![w] = to]

(* ScanIp_auto_scan returns at once when scan_start is cleared.            *)
Enter(w) ==
  LET lost == kind[w[1]] = "auto" /\ ~scan_start
  IN /\ GoOn(w, "born", IF lost THEN "done" ELSE "test")
     /\ leaks' = leaks \union (IF lost THEN {"permit"} ELSE {})
     /\ UNCHANGED <<scan_start, buttonVars, runVars, semVars, row, nb_test_ip,
                    loader, window>>

InsertRow(w) ==
  /\ GoOn(w, "test", "test")
  /\ row[w] = "none"
  /\ row' = [row EXCEPT ![w] = "valid"]
  /\ UNCHANGED <<scan_start, buttonVars, runVars, semVars, nb_test_ip, loader,
                 window, leaks>>

(* The permit goes to the semaphore the global handle names now.           *)
Release(w) ==
  /\ GoOn(w, "test", "count")
  /\ sem' = IF open[gen] /\ sem[gen] < Limit
            THEN [sem EXCEPT ![gen] = @ + 1] ELSE sem
  /\ UNCHANGED <<scan_start, buttonVars, runVars, gen, open, row, nb_test_ip,
                 loader, window, leaks>>

(* Once scan_start is cleared the increment is not protected and may write *)
(* back any value read before; NSScan has the two steps of it.             *)
Count(w) ==
  /\ GoOn(w, "count", "done")
  /\ nb_test_ip' \in (IF scan_start THEN {nb_test_ip + 1}
                      ELSE 1 .. nb_test_ip + 1)
  /\ leaks' = leaks \union (IF gen # w[1] THEN {"late_count"} ELSE {})
  /\ UNCHANGED <<scan_start, buttonVars, runVars, semVars, row, loader, window>>

Worker(w) == Enter(w) \/ InsertRow(w) \/ Release(w) \/ Count(w)
-----------------------------------------------------------------------------
Over == window = "closed" /\ UNCHANGED vars

Next ==
  \/ Over \/ DlgMain \/ Loader \/ AutoScan
  \/ \E k \in Runs : Coordinator(k)
  \/ \E w \in Workers : Worker(w)

Spec == Init /\ [][Next]_vars

(* Every thread that can go on does; the user need not do anything, not    *)
(* even answer the file dialog.                                            *)
FairSpec ==
  /\ Spec
  /\ WF_vars(window = "open" /\ (LoadBegin \/ LoadEnd))
  /\ WF_vars(AutoScan)
  /\ \A k \in Runs : WF_vars(Coordinator(k))
  /\ \A w \in Workers : WF_vars(Enter(w) \/ Release(w) \/ Count(w))
-----------------------------------------------------------------------------
RunPcs == {"none", "init", "boot", "list", "load", "spawn", "acquire", "branch", "poll",
           "drain", "close", "buttons", "re", "clear", "auto_clear",
           "auto_start", "done"}

TypeOK ==
  /\ {scan_start, startOn, reOn, loadOn} \subseteq BOOLEAN
  /\ kind \in [Runs -> {"none", "boot", "scan", "extract", "auto"}]
  /\ pc \in [Runs -> RunPcs]
  /\ made \in [Runs -> 0 .. NbIp]
  /\ taken \in [Runs -> 0 .. Limit]
  /\ gen \in Runs
  /\ hs \in [Runs -> Runs]
  /\ sem \in [Runs -> 0 .. Limit]
  /\ open \in [Runs -> BOOLEAN]
  /\ wst \in [Workers -> {"none", "born", "test", "count", "done"}]
  /\ row \in [Workers -> {"none", "valid", "stale"}]
  /\ nb_test_ip \in Nat
  /\ loader \in {"none", "start", "dialog", "loading"}
  /\ window \in {"open", "closed"}
  /\ leaks \subseteq Leaks

Testing == {w \in Workers : wst[w] \in {"born", "test"}}

Without(bad) == leaks \intersect bad = {}

(* No run has reached into another one.                                    *)
Calm == leaks \subseteq {"permit"}

(* A worker that holds a row index still finds its row there: nobody       *)
(* empties or sorts the list under it, unless a run gave up on its         *)
(* workers, or began too early, or the loader gave Start back meanwhile.   *)
RowsStay ==
  Calm =>
    \A w \in Testing : row[w] # "stale"

(* Never more workers at once than hs_threads has permits, over all runs.  *)
LimitKept ==
  /\ TypeOK
  /\ Calm => Cardinality(Testing) <= Limit

(* A run closes the semaphores only when its workers no longer need them.  *)
HandlesHeld ==
  Calm =>
    \A w \in Testing : gen = w[1] /\ open[gen]

(* The buttons keep runs apart: while no run has reached into another one, *)
(* none begins while another is between loading its list and enabling the  *)
(* buttons again.                                                          *)
RunsApart == [][\A k \in Runs :
  pc[k] = "none" /\ pc'[k] = "load" /\ Calm =>
    \A j \in Runs : Busy(j) => pc[j] \in {"init", "boot", "list", "re", "clear",
                                   "auto_clear", "auto_start"}]_vars

(* Whatever the user clicks and whenever, a button can be clicked again in *)
(* the end, unless a permit was lost or the loader ran beside a run.       *)
Usable ==
  \/ []<>(startOn \/ reOn \/ loader = "dialog" \/ window = "closed")
  \/ <>~Without({"permit", "loader", "boot"})
=============================================================================
