# NS and RtCA: models, checks and proofs

This directory is a TLA+ development about two Windows programs of the
repository: **NS** (`src/NS`), a network scanner that tests many machines with
hundreds of threads, and **RtCA** (`src/RTCA`), a forensic analyser of one
machine that runs its tests in threads over one SQLite connection. Both keep
their state in unprotected globals, list boxes and buttons, and both are driven
by a user who can click at any moment. What can go wrong there is a matter of
order, and that is what the modules are about.

Contents: [inventory](#1-inventory), [plan](#2-plan),
[modules and code](#3-modules-and-code), [runs](#4-runs),
[bounds](#5-bounds), [fairness](#6-fairness-and-deadlock),
[proofs](#7-proofs), [disagreements](#8-disagreements-between-code-and-documents),
[not modelled](#9-not-modelled).

## 1. Inventory

### NS

| component | state | operations | correct when |
|---|---|---|---|
| scan coordinator and `ScanIp` threads (`main.c`, `disco.c`, `ssh_v2.c`) | seven semaphores `hs_*`, `scan_start`, `nb_test_ip`, critical section `Sync` | `scan`, `ScanIp`, Stop | permits are conserved; semaphores are closed only when no thread uses them; a scan that is not stopped tests every address; it ends |
| automatic scan (`tests/auto_scan.c`) | the same, with nested sections and `auto_scan_config` | `auto_scan`, `ScanIp_auto_scan` | the same, and the results are saved at the end |
| window and successive runs (`main.c`, `auto_scan.c`, `extract.c`) | buttons, `scan_start`, `h_thread_scan`, the global handles | Start, Stop, Remote Extract, Load, Sort, Close | runs do not reach into each other; a thread's row stays its row; the window comes back |
| result list and exports (`main.c`) | `LV_results`, `save_done`, `save_current` | `AddLSTVItem`, `SaveLSTV`, `SaveWorld`, `WM_CLOSE` | files hold the list; nothing is given up without a question |
| address lists and accounts (`main.c`) | `CB_IP`, `CB_DSC`, `config.accounts`, `nb_accounts`, `global_ip_file` | `loadFileIp`, `addIPTest`, `addIPInterval`, `load_file_accounts` | intervals are complete and nothing else; an address keeps its own description and account |
| remote extraction (`extract.c`) | the semaphores, files on disk | `remote_extract`, `remote_extractIP` | as a scan |
| authentication (`main.c:1520`) | logon tokens, connections to machines, `id_ok` | `NetConnexionAuthenticateTest`, its four callers | tokens and connections are closed |
| registry service of the tested machine (`Registry.c:11`, `extract.c:641`) | the service itself | `StartRemoteRegistryService` | it is left as it was found |
| verdicts on update dates (`auto_scan.c:138, 229, 458`) | none | three copies of one comparison | OK for what is as recent as the interval says |
| file, NetBIOS, SSH tests (`tests/`) | none of their own | one call per test | - |

The coordinator creates a worker per address under `hs_threads`; each test of a
worker runs inside the semaphore of its kind. All threads read `scan_start`,
all write to the list through window messages, and the window thread writes
`scan_start` without a lock.

### RtCA

| component | state | operations | correct when |
|---|---|---|---|
| scan scheduler (`tests/scan.c`, `configuration/gui_conf.c`) | `start_scan`, `stop_scan`, `h_thread_test`, `nb_current_test`, the buttons | `GUIScan`, `StopGUIScan`, the dialog's `WM_CLOSE` | a scan that ends has committed; scans do not overlap; closing kills all |
| database (`sqlite/interface.c`, `load_save.c`, `init.c`) | one connection, its transaction | `sqlite3_exec` from every test | rows are not lost |
| sessions (`proc_cmd.c`, `interface.c`, `main.c`) | the table, `session[]`, `nb_session`, the combo box, `current_session_id` | new, select, refresh, delete, merge | a scan writes into its own session; an entry selects its own session |
| correlation tool (`tools_state.c`) | a list of sessions | filter by session | a session's rows under its name |
| command-line scan (`scan.c:83`) | the same tables | `CMDScan`, `CMDScanNum` | as the scan, without Stop |
| VirusTotal look-ups (`tools/tools_virustotal.c`) | two global semaphores, structures on a coordinator's stack | two coordinators, one thread per row, Stop from the menu | structures outlive their threads; each row is asked once; it ends |
| export, import (`export.c`, `import.c`) | files | `SaveAll` | the file holds the session |
| registry recovery, dates, registry files | none | pure functions | they agree with their formats |
| about 37 tests (`tests/test_*.c`) and tool dialogs (`tools/`) | rows, views | one thread each | - |

GUIScan creates a thread per selected test, waits for all handles and commits.
Stop, closing the dialog and the context menu of one test act on these threads
from the window thread; the last two with `TerminateThread`.

### The hard behaviours

* several hundred threads and seven counting semaphores, some taken inside others;
* a counter that is protected only while no Stop was pressed;
* a wait of at most 100 s, after which handles are closed under live threads;
* global handles, rows and buttons that the next run takes over from the last;
* export of a list that grows, is sorted or is emptied meanwhile;
* threads terminated at any point, a mutex or a transaction in their hands;
* one structure that hundreds of threads read their number from, one at a time;
* parallel lists (addresses, descriptions, accounts; combo box and `session[]`)
  that must stay aligned;
* a service of another machine that several workers may start and stop;
* interval arithmetic on octets, ages from dates, session numbers from dates.

`PROJECT.json` lists forty such places under `hazards`, each at its line with
the properties that watch it.

## 2. Plan

Written, in this order: the inside of one NS scan (`NSScan`) and its abstract
contract (`ScanContract`), with proofs; the result list (`NSResults`); several
runs (`NSWindow`); the automatic scan (`NSAutoScan`), which implements the same
contract; addresses (`NSIpRange`, `NSIpList`), with proofs; the RtCA scheduler
(`RtCAScan`); the look-ups (`RtVirusTotal`); the sessions (`RtCASession`);
accounts and the registry service (`NSAuth`), with proofs; the verdicts on
dates (`NSAges`); then proofs about the automatic scan and its verdicts, the
window, the scheduler and the result list.

Left, most valuable first:

1. The state tool's filter thread and RtCA's export while rows come in.
2. `NSExtract`: the workers of the extraction, as a variation of `NSScan`, and
   the copies of files they make.
3. `RtCACmdScan`: the scan without a window, in one thread.
4. Pure modules for `tools_date.c` and the offsets of `tools_registry_recovery.c`.

Proofs to come: the conditions under which intervals over several networks are
complete, and action properties of the window and of the look-ups.

## 3. Modules and code

`map` in `PROJECT.json` names the lines of every definition.

**NSScan** - one run of `scan` (`main.c:2259-2597`) with its `ScanIp` threads
(`main.c:1719-2244`). `pc` and `wpc` are control points: between two of them a
thread does one thing the others can see. `sem` has the seven counts;
`Section[s]` is the set of points inside semaphore `s`, so permits can be
counted against threads. `loc` holds what a thread found (does the host exist,
its TTL, its name) since the choice of tests depends on it. Stop is the action
`Stop`; the increment of `nb_test_ip` is one protected step pair under `Sync`
while `scan_start` holds and two unprotected steps after a Stop, as in
`main.c:2233-2243`. When the poll after a Stop times out is left open.

**ScanContract** - what a user is promised: addresses begin in list order, each
at most once; after Stop at most one more begins; a run is over only when no
test is running, and, not stopped, only when every address was tested; a
stopped run may give up waiting. `NSScan!Contract` is the refinement mapping.

**NSAutoScan** - the same for `auto_scan` (`auto_scan.c:881-1502`), whose threads
leave at their first line when `scan_start` is cleared (`Lost`), take
`hs_netbios` inside `hs_registry` and `hs_file`, and whose coordinator saves. It
has a refinement mapping of its own to `ScanContract`: whatever is nested inside,
a user is promised the same.

**NSAges** - how the automatic scan tells that an update or a virus scan is
recent (`auto_scan.c:138-184`, and the same text at 229 and 458): `UpToDate`
compares years, months and days as the code does, a negative difference of
unsigned numbers being as good as infinite. `Age` is the reference, the number of
days by the calendar. `OkIsRecent` and `RecentIsOk` say how far the two may differ.
`NSAutoScan` extends it: `VerdictsTold` says so of its threads in their registry and
file tests.

**NSAuth** - one worker per address, several of which may be at the same
machine: the walk through the accounts (`main.c:1520-1711`) with its logon token and
what it returns, and the registry service that is started when the registry does not
answer (`Registry.c:11-99`). `job` tells the manual scan, the automatic one, which
authenticates twice, and the extraction, which has its own way to leave
(`extract.c:641-752`). `token`, `net` and `running` are what the code leaves behind on
the machines; `stuck`, `left` and `unknown` record the ways it fails to tidy up.

**NSWindow** - the window and several runs. The inside of a run is reduced to
born, test, count, done; one semaphore stands for seven, and it is named by the
run that created it because the next run writes new handles into the same
globals. `leaks` records each way a run can reach into another one; the safety
properties say that nothing else can go wrong before the first of them.

**NSResults** - the list as a sequence of row identities, the export threads
that read it row by row, and the flags and message boxes around them.

**NSIpRange, NSIpList** - pure definitions of what an interval or a network
inserts, and the loading of list files line by line into the parallel lists. A
line is one of the kinds the parser tells apart. `Top` is the largest octet.

**RtCAScan** - the dialog, GUIScan, StopGUIScan, the tests and SQLite's mutex and
transaction. A test takes the mutex for each call; terminated inside it, the
mutex stays taken. `BEGIN` inside a transaction fails and the first `END`
commits for all, which is how one connection behaves. `reached` is how far
GUIScan had come in the table when the dialog terminated the tests: nowhere, if it
had not set its loop variable yet. `met` becomes TRUE when a scan begins before the
one before it was over, or after one was terminated; two scans share
`nb_current_test` and `h_thread_test`, and nothing is promised of them. Its tests clear
their handle last, as all do but `Scan_clipboard` (`test_clipboard.c:239`), which is not
one of them.

**RtVirusTotal** - `CheckAllFileToVirusTotal` and its namesake for processes
(`tools_virustotal.c:294-440`, `tools_process.c`). A coordinator and each of its
threads have a control point; `slot` holds the row numbers in the structures,
`gen` the run whose semaphores the two globals name. `list` has the result list and
the process list; a row is which file or process it is, whether it has a hash, and
what its VirusTotal column says. The window moves rows while runs go on: selected
rows and killed processes go (`LVDelete`, `KillProcess`), a click on a column sorts
(`SortRows`; the test at `main.c:677` is of `VIRUSTTAL`, the look-up of a single file,
and the one for processes has none), and the list is emptied and read again (`Reload`). An
import inserts a row and fills its columns later, hash and answer in steps of their own
(`InsertRow`, `FillHash`, `FillText`). `disturbed` collects runs that met another one
or were terminated; `stirred` those under which rows moved, or got their hash when
their thread had looked already: the code then asks about a row twice or never, and an
answer goes to the row that has the number by then. A thread and the shared structure
know numbers of rows only, so the handing over itself holds for them too.

**RtCASession** - the table `session` and the rows as sets, `session[]` with what is
behind its end, the combo box, and scans and imports as threads beside the handlers
of the main window. `Number` is the formula of `proc_cmd.c:42` with the lengths of a
month and a day as constants. `StateShows` is what the correlation tool loads. The
specification is `SessionsSpec` (`SessionsInit`, `SessionsNext`), so that
`RtCA_proofs` can extend this module and `RtCAScan`; `AddScanSession` and
`TakeLastSession` are what the click on Start and `GUIScan` do to the sessions. The
session dialog hides the main window (`h_conf`), which is how nothing is deleted
under a scan. An import is under way from the menu's click on (`StartImport`): while
it loads its file the window is enabled and a scan may be started, and `ImportAsk`
then makes 0 the current session. A scan has `escaped` if a test of it goes on when
the dialog is gone: one created between the two kills of `WM_CLOSE`
(`gui_conf.c:661-671`), or `Scan_clipboard`, which clears its handle before it is done
(`test_clipboard.c:239`).

Every property that a passing run checks has, beside the operation it guards, a
definition marked *Mutant*: the operation with one plausible mistake. Put in its
place, it makes TLC find that property violated.

## 4. Runs

Twelve runs, ten of them passing:

| run | question | answer |
|---|---|---|
| `scan` | two threads, three selections of tests, Stop at every moment, weak fairness | `TypeOK`, `PermitsConserved`, `CloseSafe` but for the timeout, `DrainedMeansTested`, `CountExact` (before a Stop), `NeverOverCounted` (after it), `FoundHostHasRow`, `KeepsContract`; it ends: `ScanEnds`, and `WorkersEnd` unless the coordinator timed out |
| `auto_scan` | the automatic scan, two threads in nested sections; any two dates of two years | `PermitsAccounted` (with the lost ones), `KeepsContract`; the nested sections cannot deadlock: `AutoEnds` unless a permit was lost; `AutoSaves`; `VerdictsTold` |
| `window` | the automatic run and one more, three addresses, two permits | `RowsStay`, `LimitKept`, `HandlesHeld`, `RunsApart` until a listed leak |
| `window_live` | does a button come back? | `Usable` |
| `results` | two scans, two savers, two rows | `OneSaver`, `ExportFaithful`, `AutoSaveExact` |
| `ip_list` | all files of up to three lines of eleven kinds, after other lists; any two ends with octets 0 to 2, five network sizes | `TidyDescribed`, `OwnAccountAtFirst`, `OnlyMeant`, `SmallRangesComplete` |
| `auth` | three workers at two machines, two accounts, any call failing, Stop at any moment | `ServiceRestored`, `NothingLeft` |
| `rtca_scan` | two scans of two tests, stopped and killed anywhere, until they meet | `EndCommits`, `KillsAll`, `ResultsSaved` unless a scan was killed, `ScansApart` but for two windows of a few instructions; `ScanEnds` unless a test was terminated inside SQLite |
| `virustotal` | two runs, of files or processes, two structures of two permits, rows removed, sorted, read again, inserted and filled | `SlotsHeld`, `RunEnds` and the hand-over of `EachRowOnce`, unless two runs met or one was terminated; the rest of `EachRowOnce` as long as no row moved |
| `sessions` | two scans or imports, on any dates, with every click beside them | `ScanOwnsSession`, `ScanRowsListed`, `EntryIsSession` |

The violating runs, `results_quit` and `session_state`, are in section 8.
Each module has one type invariant; where a module's properties imply ranges
anyway it is the first conjunct of one of them.

## 5. Bounds

* **Threads and permits.** The properties of `NSScan` compare threads with
  permits and with each other. One permit in each inner semaphore makes every
  section contended by two threads; three threads for two permits make the
  coordinator itself wait (`window`). Liveness and the nested
  sections of `NSAutoScan` are checked with two threads: a circle of waiting
  needs two. The proofs remove the bound for the properties that have one.
* **Runs.** Two runs in `NSWindow` (the automatic one and one of the user) are
  what a leak from one into the other needs. `MCNSWindow` cuts states with a
  CONSTRAINT: `leaks` only grows, and every property it is used with holds
  vacuously once the named leaks are there, so no counterexample is cut off.
* **Rows, savers.** Two rows tell a moved row from a missing one; savers are
  interchangeable, hence the symmetry (used without liveness only).
* **Octets.** `Top = 2`: an octet has a first, a last and an inner value. The
  carry into the next octet, the empty host number and intervals over one, two
  and three boundaries all occur. `NSIpList_proofs` holds for every `Top`.
* **Files.** Three lines: an untidy line, one after it, and one before it; two
  loads, the second over the rest of the first. The many files of one interval
  are loaded alone (`IntervalsAlone`): what an interval inserts does not depend
  on the list before it.
* **Dates.** A common year and the leap year after it, all days: every length of
  February, every change of month, one turn of the year. The proofs cover 1901
  to 2099.
* **Accounts and machines.** Three workers at two machines: two meet wherever the
  third is. Two accounts: one to be refused and one to follow. Workers and
  machines are interchangeable, hence the symmetry (used without liveness only).
* **RtCA.** `EndCommits` is about the tests of one scan and gets two of them,
  one to hold the transaction and one to meet it. All properties are about scans
  that have not met, or about the step by which they do: the CONSTRAINT
  `StillApart` stops there. It lets a second scan go on after the first only where
  tests open transactions and no Stop was clicked; the proofs have neither bound.
* **Look-ups.** Two permits for each of two structures, and two rows: threads share a
  structure, in the coordinator of processes all of them one, and that of files moves
  on to the next one. The first run begins with any list, the second with
  both in their first state. `ListsWatched` lets the window change the list of the first
  run until it drains, and after its rows moved only by taking rows away; the other
  list, and the lists under the second run, stay, since no thread looks at both.
  `Settled` stops when both runs are disturbed, of which the properties say nothing.
  The proofs have none of these bounds.
* **Sessions.** Months of two days of which one is counted, and three days: two
  dates with the same number, one after a change of month, and a clock set back.
  `OneRowEach` keeps one row for each scan or import (two are written alike) and two
  numbers its tests have copied, its own and one other; `Quiet` stops the clock
  while nobody is about to read it, and lets escaped tests, of which the properties
  say nothing, stand still. The proofs have none of these bounds.
  `NB_MAX_SESSION` is 2: the list is full after two scans. A file to merge
  has a session before and one after the first scan's.

## 6. Fairness and deadlock

Windows runs every ready thread, so each coordinator and each worker gets weak
fairness on its next step: a semaphore that is released often enough but taken
by others each time does not count as fair treatment of a waiting thread, and the
properties do not need it. Every test inside a section has a timeout of its
own, so leaving it is fair too. No fairness is assumed of the user (Stop, Start,
dialogs), of a thread waiting on a handle that was closed under it, or of the
100 s timeout. In `RtVirusTotal` a request has a timeout of WinINet's own, so each
thread gets weak fairness; nothing is assumed of the menu. In `RtCAScan` GUIScan and the tests get strong fairness where they
wait for SQLite's mutex, which is handed over in the order of arrival.

Deadlock is checked where nothing may stop. It is off where the system does: a
bounded number of lists loaded (`NSIpList`), all workers done (`NSAuth`), the
application closed or its scans, runs or writers used up (`RtCAScan`,
`RtVirusTotal`, `RtCASession`).

## 7. Proofs

Eight modules, each named after the one it is about with `_proofs` (`RtCA_proofs` is
about `RtCAScan` and `RtCASession`), are checked by TLAPS for every
value of the constants, from the assumptions of the modules only (`NbIp` natural,
limits positive, configurations and files of the right shape, at least one account,
at least one row, scans and savers with different names, years from 1901 to 2099 and
intervals of at most 31 days, database files with finite sets of numbers). Where an
invariant is not inductive by itself, the strengthened one was checked by TLC before
it was proved.

* **Types** (`TypeCorrect`): one lemma per group of actions.
* **Permits** (`PermitsAreConserved`): `PermitsConserved` with `TypeOK` is
  inductive. A worker moves in or out of one section at a time, and the size of
  `Inside(s)` changes by one exactly when the count does (`MoveInside`).
* **Counter** (`CounterNeverAhead`, `CounterExact`): what is polled is at most
  the number of threads that ended. This is not inductive by itself, since a
  thread writes back a value it read earlier: `CounterInv` adds that such a value
  was not ahead when read, and threads that end do not come back. `ExactInv`
  adds the owner of `Sync` and that nobody is on the unprotected path before a Stop.
* **End** (`ClosingIsSafe`, `DrainTestsAll`): `PhaseInv` ties the coordinator's
  place to what its threads do. That draining all permits leaves nobody inside
  follows from `PermitsConserved`; that `nb_test_ip = i` does, from `CounterInv`:
  the counter is never ahead, so reaching `i` means that all have ended.
* **Rows of hosts** (`FoundHostsHaveRows`): `HostsInv` says at every point of a
  thread's walk what its findings so far mean for its row; the TTL above 128 is the
  one way around the insertion.
* **Contract** (`ScanKeepsContract`): each step of `NSScan` is a step of
  `ScanContract` or leaves its variables alone, by the invariants above.
* **Intervals** (`ComparisonIsOrder`, `LoopsStayInside`, `IntervalStaysInside`,
  `SmallIntervalComplete`, `SmallIntervalsComplete`): what `addIPInterval` inserts
  lies between the ends for any octet size, and is all of it when the first two
  octets agree. The general statement is false (section 8).
* **Registry service** (`ServiceRestoredHolds`): `ServiceRestored` with the types
  is inductive. Its second part carries the argument: starting a service that
  runs fails, so of the workers that meet at a machine at most one counts as its
  starter, and by the third part that one has its stop still before it
  (`StarterAtWork`).
* **Tokens and connections** (`NothingLeftHolds`): `ConnectionInv` adds who knows
  of a connection and who holds a token at which point of the walk.
* **Dates** (`OkIsRecentHolds`, `RecentIsOkHolds`, `AgesAreTold`): the age is a
  difference of days in the three cases the code tells apart (`AgeSameMonth`,
  `AgeNextMonth`, `AgeNextYear`), and dates that are at most thirty days apart are in
  one of these cases (`PartsNear`, from where months and years begin).
* **Address lists** (`OnlyMeantHolds`, `TidyIsDescribed`, `OwnAccountsAtFirst`): the
  model gives the addresses of a line their places by rank, so what must be known is
  that ranks are the numbers 1 to n, each once (`Ranks`: a rank is injective in a
  finite set, hence onto). `ListsInv` then says that every address came from a line
  before `next`, and `AccountsInv` that in a first advanced list of single addresses
  there are as many accounts as addresses, from the same lines.
* **Automatic scan** (`PermitsAreAccounted`, `AutoScanKeepsContract`): as for
  `NSScan`, with a set of points per semaphore in which nested sections overlap. A
  move of a thread changes the holders of one semaphore only (`Takes`, `Gives`,
  `Keeps`), and a thread that Stop caught at its first line stays a holder for ever.
  `PhaseInv` has the case the manual scan does not: a lost thread keeps the
  coordinator in its drain, so that it never claims to be over.
* **Window** (`RowsStayAlways`, `LimitAlwaysKept`, `HandlesAlwaysHeld`,
  `RunsStayApart`): `WindowInv` is the types and, as long as no leak was recorded,
  `CalmInv`. Its heart is `ButtonsInv`: whatever run is between loading its list and
  its buttons, one of the two buttons is Stop or both are off; so a second run cannot
  begin (`OneRun`), so the global handles are those of the one run (`HandlesInv`), so
  its permits add up and the counter is not ahead (`PermitsInv`), so it closes
  them when nobody is at work.
* **Result list** (`OneSaverHolds`, `ExportsAreFaithful`, `AutoSaveIsExact`):
  `PrefixInv` says that the part of the list an export counted stays the beginning of
  the list until the rows are moved, which marks every export under way;
  `ApartInv` is the argument of the window again, for `scan_start` and the two
  buttons, so that nothing moves or adds rows while a run saves.
* **RtCA's scans** (`EndsCommitted`, `KillsAllPassed`, `ResultsAreSaved`,
  `ScansStayApart`): `ScanInv` is, until scans meet, that the scan at work is the one
  created last (`LastWorks`), that nothing runs outside of it (`QuietOutside`), that a
  running test is in the table or about to be (`InTable`), what the shared loop
  variable is at every point (`WaitsForAll`, `KilledPassed`), and what the dialog and
  the button say (`DialogThere`, `ButtonTaken`). An earlier form of `ResultsSaved`
  turned out not to hold once two scans had met: both then use one table, and one may
  end over the open transaction of the other.
* **Look-ups** (`SlotsAreHeld`, `EachRowAskedOnce`): `LookUpInv` says of a run that
  met no other one and was not terminated that the globals name its semaphores and no
  other run is at work (`AloneInv`); so its permits are free, with a thread, with the
  coordinator or drained (`PermitsInv`), and all of them drained means that its
  threads are gone. The permit of `hSemaphoreItem` is with the coordinator while it
  writes a number, then with the one thread that has to copy it (`HandOver`), so a
  thread has its own number whatever happens to the rows (`NumbersInv`). No list has a row
  twice (`Distinct`); so as long as no row moved under a run, its threads find their rows
  under their numbers, and a row the coordinator has come by was answered, needs no
  answer, or has its thread at it (`RowsInv`). Each thing the window does keeps this
  or puts the run into `stirred` (`WindowRows`).

* **RtCA's sessions** (`ScansOwnTheirSessions`, `ScansRowsAreListed`,
  `EntriesAreSessions`): in `SessionInv`, `OneScanInv` says that while a scan works its
  dialog is open, so that nothing is deleted; that no import is under way if none was
  when it began, since the hidden window starts none; that the current number and
  those its tests have copied are in the table, or 0 if an import is beside it
  (`Listed`); and that a number that was the greatest is the last in the array. That rests on the table being read in order
  (`SortedIs`: the ranks of a finite set of numbers are 0 to n - 1, each once).
  `OwnInv` adds that a scan that owns its session finds no rows of others in it. Rows
  are written only by scans and imports at work or come from files (`RowsAre`), and
  sessions are deleted only with their rows (`TableKeeps`).

Model-checked only: liveness, which the prover does not treat. Every invariant and
step property that a passing run checks is proved. The two runs that expect a
violation have no theorem.

## 8. Disagreements between code and documents

Two are runs of one property that TLC finds violated; `findings` in
`PROJECT.json` quotes the text each contradicts.

| run | what the code does |
|---|---|
| `results_quit` | rows of a second run are given up without a question, as `save_done` stays set |
| `session_state` | the correlation tool shows the rows of one session under the name of another |

Others are the exceptions that a passing property names, so that the run shows
that nothing else breaks it:

| property | its exception |
|---|---|
| `FoundHostHasRow` (`scan`) | a host with a TTL above 128: the branch for routers repeats the condition of the branch before it (`main.c:1836`) |
| `AutoSaves`, `AutoEnds` (`auto_scan`) | Stop costs the permit of a thread that was at its first line (`auto_scan.c:522`), and the coordinator then waits for it for ever |
| `VerdictsTold` (`auto_scan`) | the month before, of whatever year, counts as recent (`auto_scan.c:239`); the last days of a month are never recent on the first days of the next one (unsigned difference); in February, March and the months of 30 days the verdict is up to four days off |
| `TidyDescribed` (`ip_list`) | one refused name, or an interval end without a description, shifts the descriptions after it (`main.c:735, 736, 843`) |
| `OwnAccountAtFirst` (`ip_list`) | after an interval, or over accounts loaded before, an address may get another line's account (`main.c:1110, 1116, 1633`) |
| `SmallRangesComplete` (`ip_list`) | an interval over several networks loses addresses, since the bounds of the third octet are chosen by the second alone (`main.c:763`); `ReadMe_NS_ENG.odt` gives intervals as first to last |
| `ServiceRestored` (`auth`) | a service that could not be stopped again (`Registry.c:86`), and one an extraction started and, stopped or refused within ten seconds, left running (`extract.c:665`) |
| `NothingLeft` (`auth`) | the only account connecting without a token is taken for a failure, and the connection stays (`main.c:1621`) |
| `KillsAll` (`rtca_scan`) | a test that was created while the others were being terminated, or was not in the table yet, goes on (`gui_conf.c:661-671`) |
| `ResultsSaved` (`rtca_scan`) | a killed scan leaves its transaction open, and its rows are given up at exit (`gui_conf.c:671`, `init.c:582`) |
| `EndCommits`, `KillsAll` (`rtca_scan`) | `Scan_clipboard` clears its handle at the first text it meets and goes on (`test_clipboard.c:239`): GUIScan does not wait for it, and nothing terminates it |
| `ScanEnds` (`rtca_scan`) | a test terminated inside SQLite keeps the mutex (`gui_conf.c:419`) |
| `RunsApart`, `HandlesHeld`, `LimitKept`, `RowsStay` (`window`) | the leaks of `NSWindow`, each named where it arises |
| `SlotsHeld`, `EachRowOnce`, `RunEnds` (`virustotal`) | a second run over the same two globals, and the menu's Stop, which terminates the coordinator while threads point into its stack (`main.c:531`) |
| `EachRowOnce` (`virustotal`) | rows moved under a run: removed, sorted by a click on a column, which nothing forbids (`main.c:677`, `tools_process.c:1046`), or read again; rows are then asked about twice or never, and an answer goes to the row that has its number by then (`tools_virustotal.c:263`) |
| `EachRowOnce` (`virustotal`) | a row an import inserted, met before its hash was set (`import.c:190-212`): it is never asked about |
| `ScanOwnsSession` (`sessions`) | a number that is not the greatest (the last day of a month of 31 days, a clock set back, a merged file), a full list, an import beside the scan, even one that only loads its file yet, a test that outlived the dialog (`proc_cmd.c:42`, `interface.c:86`, `import.c:151`, `gui_conf.c:661-671`) |
| `ScanRowsListed` (`sessions`) | an import that was loading its file when the scan began makes 0 the current session, and later tests write under no session (`import.c:151`); a test that outlived the dialog writes on when its session may be deleted (`gui_conf.c:661-671`, `test_clipboard.c:239`) |
| `EntryIsSession` (`sessions`) | after all sessions were deleted, until the list is read from its start again (`main.c:152`) |

And these are modelled as the code has them without a property of their own:
after one cancelled file dialog Save is dead (`main.c:2640, 2728`); the answer No at
`WM_CLOSE` is not what decides if a save ends meanwhile (`main.c:2658`); the
documented answer YES in `[SAVE]` saves nothing, since the code looks for `o`
(`main.c:2527`); after a scan was killed with its dialog `start_scan` stays TRUE, and
Start stops a scan that is not there (`gui_conf.c:82, 671`); and a row with a
connection error is given to a thread again by every later run, which then does
not ask for it (`tools_virustotal.c`).

## 9. Not modelled

What a test finds (registry, files, packets, SSH) is a nondeterministic answer,
reduced to what later control depends on. Impersonation is left out: it ends
with its thread, and nothing later depends on it. So are the copies the
extraction makes, the backup of the database before a deletion, and the export of
RtCA, which walks its list in one thread and formats text. Log texts, the progress bar
and window layout are left out. The VirusTotal token and its error counter decide
only whether a request succeeds; any request may fail.

The command-line scan is the straight path of `RtCAScan` in one thread. Parsers of
binary formats and conversions of dates are pure functions over external formats.
The 37 tests of RtCA read Windows interfaces and insert rows; one of them stands
for all in `RtCAScan`. `remote.c`, `tools_sniff.c` and `tools_network/` are not part
of the builds (`NS.cbp`, `RTCA.cbp`). `OFD` is a handbook.

SQLite, LiteZip, the hash functions and libssh2 are vendored. SQLite alone
(`sqlite3.c`, 133 611 lines) is nearly three quarters of the C code in the
repository, so the lines the map names are a small share of all lines; of the
coordinators, handlers and schedulers of the two programs themselves they are most.
