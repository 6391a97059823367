------------------------------ MODULE RtCAScan ------------------------------
(***************************************************************************)
(* A scan of RtCA in its window: the session dialog h_conf, the thread     *)
(* GUIScan that launches one thread per selected test and waits for all of *)
(* them, the thread StopGUIScan, and the ways the dialog can end early.    *)
(*                                                                         *)
(* All threads write through one SQLite connection, db_scan. A call into   *)
(* SQLite holds the connection's mutex, which a thread that is terminated  *)
(* inside the call never gives back. "BEGIN TRANSACTION" inside an open    *)
(* transaction fails and changes nothing; the first "END" commits for all. *)
(*                                                                         *)
(* The tests are those that clear their handle last. Scan_clipboard is not *)
(* one of them: it may clear its handle and go on.                         *)
(***************************************************************************)
EXTENDS Integers, FiniteSets

CONSTANTS
  NbTests,   (* NB_TESTS                                                    *)
  MaxScans,  (* bound on the scans started                                  *)
  MaxStops   (* bound on the clicks that create a StopGUIScan thread        *)

ASSUME BoundsAssumption ==
  NbTests \in Nat /\ MaxScans \in Nat /\ MaxStops \in Nat

Tests == 1 .. NbTests
Scans == 1 .. MaxScans
Stops == 1 .. MaxStops

VARIABLES
  app,         (* "running" or "closed"                                     *)
  conf,        (* the dialog: "closed", "open", or "kill" in its WM_CLOSE   *)
  btOn,        (* its BT_START is enabled                                   *)
  checked,     (* the selected tests                                        *)
  start_scan, stop_scan,
  full_speed,  (* SQLITE_FULL_SPEED: tests open no transactions             *)
  reached,     (* where GUIScan's loop was when the dialog was closed on it  *)
  gpc,         (* control point of each GUIScan thread                      *)
  nb_current_test,
  gj,          (* the loop variable of its wait                             *)
  h,           (* h_thread_test: the tests with a handle                    *)
  tpc,         (* control point of each test's thread                       *)
  spc,         (* control point of each StopGUIScan thread                  *)
  mutex,       (* the test inside SQLite, alive or not; 0 for none          *)
  tx,          (* a transaction is open                                     *)
  pending,     (* there are rows in it                                      *)
  lost,        (* it was rolled back with them                              *)
  met          (* a scan began before the one before it was at its end, or  *)
               (* after one was terminated                                  *)

flagVars == <<start_scan, stop_scan>>
confVars == <<app, conf, btOn, checked>>
scanVars == <<gpc, nb_current_test, gj, h>>
dbVars == <<mutex, tx, pending, lost>>
fixedVars == <<full_speed, reached>>
vars == <<confVars, flagVars, fixedVars, scanVars, tpc, spc, dbVars, met>>

Alive(g) == gpc[g] \notin {"none", "done", "dead"}

Running(t) == tpc[t] \in {"begin", "run", "db", "end"}

(* h_thread_scan is the thread created last.                               *)
Latest(g) == gpc[g] # "none" /\ \A k \in Scans : k > g => gpc[k] = "none"

Free == mutex = 0

Init ==
  /\ app = "running" /\ conf = "closed" /\ btOn = FALSE /\ checked = {}
  /\ start_scan = FALSE /\ stop_scan = FALSE
  /\ full_speed \in BOOLEAN
  /\ reached = 0
  /\ gpc = [g \in Scans |-> "none"]
  /\ nb_current_test = 0
  /\ gj = [g \in Scans |-> 0]
  /\ h = {}
  /\ tpc = [t \in Tests |-> "none"]
  /\ spc = [k \in Stops |-> "none"]
  /\ mutex = 0 /\ tx = FALSE /\ pending = FALSE /\ lost = FALSE /\ met = FALSE
-----------------------------------------------------------------------------
(* The windows. The main window is hidden while the dialog is there.       *)

NewSession ==
  /\ app = "running" /\ conf = "closed"
  /\ conf' = "open" /\ btOn' = TRUE /\ checked' = {}
  /\ UNCHANGED <<app, flagVars, fixedVars, scanVars, tpc, spc, dbVars, met>>

Check(t) ==
  /\ conf = "open"
  /\ checked' = (IF t \in checked THEN checked \ {t} ELSE checked \union {t})
  /\ UNCHANGED <<app, conf, btOn, flagVars, fixedVars, scanVars, tpc, spc,
                 dbVars, met>>

(* BT_START: a new session is written to the database, and a scan begins.  *)
ClickStart(g) ==
  /\ conf = "open" /\ btOn
  /\ ~start_scan
  /\ Free
  /\ gpc[g] = "none" /\ \A k \in Scans : k < g => gpc[k] # "none"
  /\ start_scan' = TRUE
  /\ gpc' = [gpc EXCEPT ![g] = "init"]
  /\ pending' = tx
  /\ met' = (met \/ \E k \in Scans : gpc[k] \notin {"none", "done"})
  /\ UNCHANGED <<confVars, stop_scan, fixedVars, nb_current_test, gj, h, tpc,
                 spc, mutex, tx, lost>>

(* BT_START again.                                                         *)
ClickStop(k) ==
  /\ conf = "open" /\ btOn
  /\ start_scan
  /\ spc[k] = "none"
  /\ spc' = [spc EXCEPT ![k] = "clear"]
  /\ UNCHANGED <<confVars, flagVars, fixedVars, scanVars, tpc, dbVars, met>>

(* "Stop test", offered for a selected test that has a thread.             *)
StopTest(t) ==
  /\ conf = "open"
  /\ start_scan /\ t \in checked /\ t \in h
  /\ tpc' = [tpc EXCEPT ![t] = IF Running(t) THEN "dead" ELSE @]
  /\ h' = h \ {t}
  /\ checked' = checked \ {t}
  /\ UNCHANGED <<app, conf, btOn, flagVars, fixedVars, gpc, nb_current_test,
                 gj, spc, dbVars, met>>

(* WM_CLOSE: after a Stop the application ends; otherwise the threads of   *)
(* the tests are terminated, then that of the scan, and the dialog ends.   *)
CloseStopped ==
  /\ conf = "open"
  /\ ~start_scan /\ stop_scan
  /\ Free
  /\ app' = "closed" /\ conf' = "closed"
  /\ lost' = (lost \/ pending)
  /\ UNCHANGED <<btOn, checked, flagVars, fixedVars, scanVars, tpc, spc, mutex,
                 tx, pending, met>>

CloseKillTests ==
  /\ conf = "open"
  /\ start_scan \/ ~stop_scan
  /\ conf' = "kill"
  /\ reached' = IF \E g \in Scans : gpc[g] = "init" THEN 0 ELSE nb_current_test
  /\ tpc' = [t \in Tests |-> IF t \in h /\ Running(t) THEN "dead" ELSE tpc[t]]
  /\ UNCHANGED <<app, btOn, checked, flagVars, full_speed, scanVars, spc, dbVars,
                 met>>

CloseKillScan ==
  /\ conf = "kill"
  /\ conf' = "closed"
  /\ gpc' = [g \in Scans |-> IF Latest(g) /\ Alive(g) THEN "dead" ELSE gpc[g]]
  /\ UNCHANGED <<app, btOn, checked, flagVars, fixedVars, nb_current_test, gj, h,
                 tpc, spc, dbVars, met>>

(* The main window closes: EndGUIConfig.                                   *)
CloseMain ==
  /\ app = "running" /\ conf = "closed"
  /\ Free
  /\ app' = "closed"
  /\ lost' = (lost \/ pending)
  /\ UNCHANGED <<conf, btOn, checked, flagVars, fixedVars, scanVars, tpc, spc,
                 mutex, tx, pending, met>>

Windows ==
  \/ NewSession \/ CloseStopped \/ CloseKillTests \/ CloseKillScan \/ CloseMain
  \/ \E t \in Tests : Check(t) \/ StopTest(t)
  \/ \E g \in Scans : ClickStart(g)
  \/ \E k \in Stops : ClickStop(k)
-----------------------------------------------------------------------------
(* StopGUIScan.                                                            *)

StopStep(k, from, to) ==
  /\ app = "running"
  /\ spc[k] = from
  /\ spc' = [spc EXCEPT ![k] = to]
  /\ UNCHANGED <<app, conf, checked, fixedVars, scanVars, tpc, dbVars, met>>

(* Mutant: the button stays enabled.                                       *)
StopGUIScanKeepsButton(k) ==
  \/ /\ StopStep(k, "clear", "note")
     /\ start_scan' = FALSE /\ UNCHANGED <<stop_scan, btOn>>
  \/ /\ StopStep(k, "note", "disable")
     /\ stop_scan' = TRUE /\ UNCHANGED <<start_scan, btOn>>
  \/ /\ StopStep(k, "disable", "done")
     /\ UNCHANGED <<flagVars, btOn>>

StopGUIScan(k) ==
  \/ /\ StopStep(k, "clear", "note")
     /\ start_scan' = FALSE /\ UNCHANGED <<stop_scan, btOn>>
  \/ /\ StopStep(k, "note", "disable")
     /\ stop_scan' = TRUE /\ UNCHANGED <<start_scan, btOn>>
  \/ /\ StopStep(k, "disable", "done")
     /\ btOn' = FALSE /\ UNCHANGED flagVars
-----------------------------------------------------------------------------
(* GUIScan.                                                                *)

At(g, from, to) ==
  /\ app = "running"
  /\ gpc[g] = from
  /\ gpc' = [gpc EXCEPT ![g] = to]
  /\ UNCHANGED <<fixedVars, spc, mutex, lost, met>>

Reset(g) ==
  /\ At(g, "init", "begin")
  /\ nb_current_test' = 0
  /\ h' = {}
  /\ UNCHANGED <<confVars, flagVars, gj, tpc, tx, pending>>

Begin(g) ==
  /\ Free
  /\ At(g, "begin", "launch")
  /\ tx' = TRUE
  /\ UNCHANGED <<confVars, flagVars, nb_current_test, gj, h, tpc, pending>>

(* A test that is not selected, or a scan that was stopped.                *)
Skip(g) ==
  /\ nb_current_test < NbTests
  /\ ~(start_scan /\ nb_current_test + 1 \in checked)
  /\ At(g, "launch", "launch")
  /\ nb_current_test' = nb_current_test + 1
  /\ UNCHANGED <<confVars, flagVars, gj, h, tpc, tx, pending>>

(* CreateThread; its result is stored when the thread may be over already. *)
Launch(g) ==
  /\ nb_current_test < NbTests
  /\ start_scan /\ nb_current_test + 1 \in checked
  /\ At(g, "launch", "store")
  /\ tpc' = [tpc EXCEPT ![nb_current_test + 1] = "begin"]
  /\ UNCHANGED <<confVars, flagVars, nb_current_test, gj, h, tx, pending>>

(* Mutant: the handle is stored one place too far.                         *)
StoreNext(g) ==
  /\ nb_current_test < NbTests
  /\ At(g, "store", "launch")
  /\ h' = h \union ({nb_current_test + 2} \intersect Tests)
  /\ nb_current_test' = nb_current_test + 1
  /\ UNCHANGED <<confVars, flagVars, gj, tpc, tx, pending>>

Store(g) ==
  /\ nb_current_test < NbTests
  /\ At(g, "store", "launch")
  /\ h' = h \union {nb_current_test + 1}
  /\ nb_current_test' = nb_current_test + 1
  /\ UNCHANGED <<confVars, flagVars, gj, tpc, tx, pending>>

Launched(g) ==
  /\ nb_current_test >= NbTests
  /\ At(g, "launch", "wait")
  /\ gj' = [gj EXCEPT ![g] = 0]
  /\ UNCHANGED <<confVars, flagVars, nb_current_test, h, tpc, tx, pending>>

(* Mutant: waits for the test to say it is over, not for its thread.       *)
WaitForResult(g) ==
  /\ gj[g] < nb_current_test
  /\ tpc[gj[g] + 1] \in {"none", "done"}
  /\ At(g, "wait", "wait")
  /\ gj' = [gj EXCEPT ![g] = @ + 1]
  /\ UNCHANGED <<confVars, flagVars, nb_current_test, h, tpc, tx, pending>>

(* WaitForSingleObject fails at once on a handle of 0.                     *)
Wait(g) ==
  /\ gj[g] < nb_current_test
  /\ gj[g] + 1 \in h => ~Running(gj[g] + 1)
  /\ At(g, "wait", "wait")
  /\ gj' = [gj EXCEPT ![g] = @ + 1]
  /\ UNCHANGED <<confVars, flagVars, nb_current_test, h, tpc, tx, pending>>

(* Mutant: the thread of the last test is not waited for.                  *)
WaitedOneLess(g) ==
  /\ gj[g] + 1 >= nb_current_test
  /\ At(g, "wait", "commit")
  /\ UNCHANGED <<confVars, flagVars, nb_current_test, gj, h, tpc, tx, pending>>

Waited(g) ==
  /\ gj[g] >= nb_current_test
  /\ At(g, "wait", "commit")
  /\ UNCHANGED <<confVars, flagVars, nb_current_test, gj, h, tpc, tx, pending>>

(* Mutant: "END TRANSACTION" only if no Stop came.                         *)
CommitUnlessStopped(g) ==
  /\ Free
  /\ At(g, "commit", "clear")
  /\ IF start_scan THEN tx' = FALSE /\ pending' = FALSE
     ELSE UNCHANGED <<tx, pending>>
  /\ UNCHANGED <<confVars, flagVars, nb_current_test, gj, h, tpc>>

Commit(g) ==
  /\ Free
  /\ At(g, "commit", "clear")
  /\ tx' = FALSE /\ pending' = FALSE
  /\ UNCHANGED <<confVars, flagVars, nb_current_test, gj, h, tpc>>

ClearStart(g) ==
  /\ At(g, "clear", "note")
  /\ start_scan' = FALSE
  /\ UNCHANGED <<confVars, stop_scan, nb_current_test, gj, h, tpc, tx, pending>>

ClearStop(g) ==
  /\ At(g, "note", "dialog")
  /\ stop_scan' = FALSE
  /\ UNCHANGED <<confVars, start_scan, nb_current_test, gj, h, tpc, tx, pending>>

(* EndDialog on h_conf, which may be a dialog opened since.                *)
EndDialog(g) ==
  /\ conf # "kill"
  /\ At(g, "dialog", "done")
  /\ conf' = "closed"
  /\ UNCHANGED <<app, btOn, checked, flagVars, nb_current_test, gj, h, tpc, tx,
                 pending>>

GUIScan(g) ==
  \/ Reset(g) \/ Begin(g) \/ Skip(g) \/ Launch(g) \/ Store(g) \/ Launched(g)
  \/ Wait(g) \/ Waited(g) \/ Commit(g) \/ ClearStart(g) \/ ClearStop(g)
  \/ EndDialog(g)
-----------------------------------------------------------------------------
(* The thread of a test, as in Scan_arp: "BEGIN TRANSACTION", rows, "END". *)

TestStep(t, from, to) ==
  /\ app = "running"
  /\ tpc[t] = from
  /\ tpc' = [tpc EXCEPT ![t] = to]
  /\ UNCHANGED <<app, conf, btOn, flagVars, fixedVars, gpc, nb_current_test, gj,
                 spc, lost, met>>

(* "BEGIN TRANSACTION", unless full_speed.                                 *)
BeginTests(t) ==
  /\ Free
  /\ TestStep(t, "begin", "run")
  /\ tx' = (tx \/ ~full_speed)
  /\ UNCHANGED <<checked, h, mutex, pending>>

(* A row: a call into SQLite, committed at once when no transaction is     *)
(* open (any more).                                                        *)
EnterDb(t) ==
  /\ Free
  /\ TestStep(t, "run", "db")
  /\ mutex' = t
  /\ UNCHANGED <<checked, h, tx, pending>>

LeaveDb(t) ==
  /\ TestStep(t, "db", "run")
  /\ mutex' = 0
  /\ pending' = (pending \/ tx)
  /\ UNCHANGED <<checked, h, tx>>

(* "END TRANSACTION", which ends whichever transaction is open.            *)
EndTests(t) ==
  /\ Free
  /\ TestStep(t, "run", "end")
  /\ IF full_speed THEN UNCHANGED <<tx, pending>>
     ELSE tx' = FALSE /\ pending' = FALSE
  /\ UNCHANGED <<checked, h, mutex>>

Finish(t) ==
  /\ TestStep(t, "end", "done")
  /\ checked' = checked \ {t}
  /\ h' = h \ {t}
  /\ UNCHANGED <<mutex, tx, pending>>

ScanTest(t) == BeginTests(t) \/ EnterDb(t) \/ LeaveDb(t) \/ EndTests(t) \/ Finish(t)
-----------------------------------------------------------------------------
Over == app = "closed" /\ UNCHANGED vars

Next ==
  \/ Over \/ Windows
  \/ \E k \in Stops : StopGUIScan(k)
  \/ \E g \in Scans : GUIScan(g)
  \/ \E t \in Tests : ScanTest(t)

Spec == Init /\ [][Next]_vars

(* Threads run, each test makes an end of it, and a WM_CLOSE goes through; *)
(* the user need not do anything.                                          *)
FairSpec ==
  /\ Spec
  /\ WF_vars(CloseKillScan)
  /\ \A k \in Stops : WF_vars(StopGUIScan(k))
  /\ \A g \in Scans : SF_vars(GUIScan(g))
  /\ \A t \in Tests : WF_vars(LeaveDb(t)) /\ WF_vars(Finish(t))
                      /\ SF_vars(BeginTests(t)) /\ SF_vars(EndTests(t))
-----------------------------------------------------------------------------
TypeOK ==
  /\ app \in {"running", "closed"} /\ conf \in {"closed", "open", "kill"}
  /\ {btOn, start_scan, stop_scan, full_speed, tx, pending, lost, met}
       \subseteq BOOLEAN
  /\ checked \subseteq Tests /\ h \subseteq Tests
  /\ gpc \in [Scans -> {"none", "init", "begin", "launch", "store", "wait",
                        "commit", "clear", "note", "dialog", "done", "dead"}]
  /\ nb_current_test \in 0 .. NbTests /\ reached \in 0 .. NbTests
  /\ gj \in [Scans -> 0 .. NbTests]
  /\ tpc \in [Tests -> {"none", "begin", "run", "db", "end", "done", "dead"}]
  /\ spc \in [Stops -> {"none", "clear", "note", "disable", "done"}]
  /\ mutex \in 0 .. NbTests

(* When a scan ends by itself its tests are over and their rows committed, *)
(* however the tests' transactions on the one connection were interleaved, *)
(* and so it stays until the next one begins.                              *)
EndCommits ==
  /\ TypeOK
  /\ \A g \in Scans :
       ~met /\ Latest(g) /\ gpc[g] \in {"clear", "note", "dialog", "done"} =>
         ~tx /\ ~pending /\ \A t \in Tests : ~Running(t)

(* Scans do not overlap, whatever was clicked, stopped or closed before: a *)
(* second scan begins beside one under way only while a StopGUIScan is     *)
(* between start_scan = FALSE and the button (scan.c:12-14), or that scan  *)
(* between its own start_scan = FALSE and EndDialog (scan.c:72-78).        *)
ScansApart == [][\A g, k \in Scans :
  /\ gpc[g] = "none" /\ gpc'[g] = "init"
  /\ Alive(k) /\ ~met
  => \/ gpc[k] \in {"note", "dialog"}
     \/ \E s \in Stops : spc[s] \in {"note", "disable"}]_vars

(* A scan comes to its end, stopped or not, with tests terminated or not,  *)
(* unless one was terminated inside SQLite.                                *)
ScanEnds == \A g \in Scans :
  gpc[g] = "init" ~>
    \/ ~Alive(g) \/ app = "closed"
    \/ mutex # 0 /\ tpc[mutex] = "dead"
    \/ met

(* "kill all threads": when the dialog was closed in the middle of a scan, *)
(* no test goes on that GUIScan had come past by then. Those it created     *)
(* last or meanwhile escape, since the tests are terminated before it is.  *)
KillsAll ==
  conf = "closed" /\ ~met /\ (\E g \in Scans : gpc[g] = "dead") =>
    \A t \in 1 .. reached : ~Running(t)

(* "Test results are saved in a database": rows are given up at the end of *)
(* the application only when a scan was terminated, left in the middle, or *)
(* met another one.                                                        *)
ResultsSaved == lost => met \/ \E g \in Scans : gpc[g] \notin {"none", "done"}
=============================================================================
