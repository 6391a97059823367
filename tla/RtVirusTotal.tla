---------------------------- MODULE RtVirusTotal ----------------------------
(***************************************************************************)
(* RtCA asks VirusTotal about the files of its result list, or about the   *)
(* processes of the process tool. A coordinator walks through its list,    *)
(* and creates a thread per row under the permits of hSemaphore; it hands  *)
(* the row number over in a structure on its own stack that many threads   *)
(* share, one at a time thanks to the single permit of hSemaphoreItem.     *)
(*                                                                         *)
(* Both coordinators keep their semaphores in the same two globals. The    *)
(* window reads its lists again, sorts them and removes rows meanwhile, an *)
(* import inserts rows and fills them later, and the menu terminates a     *)
(* coordinator in the middle of its work. The token that the threads of a  *)
(* structure share, and the counts of errors that drop it, decide only if  *)
(* a request succeeds; any request may fail.                               *)
(***************************************************************************)
EXTENDS Integers, FiniteSets, Sequences, SequencesExt

CONSTANTS
  MaxRuns,   (* bound on the coordinators started                           *)
  MaxRows,   (* bound on the rows of either list                            *)
  PerSlot,   (* NB_VIRUTOTAL_THREADS, the permits of one structure          *)
  NbSlots    (* MAX_THREADS_CK_VT, structures of the coordinator of files   *)

ASSUME SizesAssumption ==
  /\ MaxRuns \in Nat /\ MaxRows \in Nat \ {0}
  /\ PerSlot \in Nat \ {0} /\ NbSlots \in Nat \ {0}

Runs == 1 .. MaxRuns
Threads == Runs \X (0 .. MaxRows - 1)     (* <<run, row number>>             *)

COLUMN_SHA256 == 17
COLUMN_VIRUSTOTAL == COLUMN_SHA256 + 1

VARIABLES
  list,        (* the rows of hlstv and of hlstv_process                    *)
  filling,     (* where the import inserted a row, and its next column      *)
  AVIRUSTTAL,  (* offers Stop in place of Start in the menu                 *)
  h_AVIRUSTTAL,(* the coordinator it stops                                  *)
  gen,         (* the run whose semaphores the globals name                 *)
  sem, item,   (* counts of the hSemaphore and hSemaphoreItem of each run   *)
  open,        (* runs whose semaphores are not closed                      *)
  run,         (* each coordinator                                          *)
  slot,        (* the row number in each of its structures ST_VIRUSTOTAL    *)
  th,          (* the threads                                               *)
  disturbed,   (* runs that met another one, or were terminated             *)
  stirred      (* runs under which rows moved, or got a hash too late       *)

listVars == <<list, filling, stirred>>
menuVars == <<AVIRUSTTAL, h_AVIRUSTTAL>>
semVars == <<gen, sem, item, open>>
workVars == <<semVars, run, slot, th, disturbed>>
vars == <<listVars, menuVars, workVars>>

Alive(c) == run[c].pc \notin {"none", "done", "dead"}
Active(t) == th[t].pc \notin {"none", "done"}
Busy(c) == Alive(c) \/ \E t \in Threads : t[1] = c /\ Active(t)

Permits(kind) == IF kind = "files" THEN PerSlot * NbSlots ELSE PerSlot

Lists == {"files", "processes"}

(* A row: which file or process it is, whether it has a hash, and what its *)
(* VirusTotal column says. The process list has both in one column: the    *)
(* hash, until the answer replaces it.                                     *)
Rows == [id : 1 .. MaxRows, hash : BOOLEAN, text : {"none", "error", "answer"}]

New(row) == row.hash /\ row.text = "none"

Ids(k) == {list[k][r].id : r \in DOMAIN list[k]}

(* What the window reads from the database, or from the system; an answer  *)
(* that is known already comes by CheckOne.                                *)
Loaded ==
  LET rows == {row \in Rows : row.text = "none"}
  IN {s \in BoundedSeq(rows, MaxRows) : \A r \in DOMAIN s : s[r].id = r}

NoRun ==
  [pc |-> "none", kind |-> "files", i |-> 0, j |-> 0, want |-> 0, taken |-> 0]

NoThread == [pc |-> "none", j |-> 0, id |-> 0, row |-> 0]
-----------------------------------------------------------------------------
Init ==
  /\ list \in [Lists -> Loaded]
  /\ filling = [row |-> 0, col |-> COLUMN_SHA256]
  /\ AVIRUSTTAL = FALSE /\ h_AVIRUSTTAL = 0
  /\ gen = 0 /\ open = {}
  /\ sem = [c \in Runs |-> 0] /\ item = [c \in Runs |-> 0]
  /\ run = [c \in Runs |-> NoRun]
  /\ slot = [c \in Runs |-> [j \in 0 .. NbSlots - 1 |-> 0]]
  /\ th = [t \in Threads |-> NoThread]
  /\ disturbed = {} /\ stirred = {}
-----------------------------------------------------------------------------
(* The lists. The numbers of the runs at one mean other rows once its rows *)
(* are moved.                                                              *)

AtRows(k) == {c \in Runs : run[c].kind = k /\ Busy(c)}

Stir(k) == stirred' = stirred \union AtRows(k)

(* Row r is the one that was row p[r].                                     *)
Move(k, n, p) ==
  /\ list' = [list EXCEPT ![k] = [r \in 1 .. n |-> list[k][p[r]]]]
  /\ Stir(k)
  /\ UNCHANGED <<filling, menuVars, workVars>>

KeepRows(k, n) ==
  \E p \in [1 .. n -> DOMAIN list[k]] :
    /\ \A r, s \in 1 .. n : r < s => p[r] < p[s]
    /\ Move(k, n, p)

(* All the selected rows.                                                  *)
LVDelete == \E n \in 0 .. Len(list.files) - 1 : KeepRows("files", n)

KillProcess ==
  /\ list.processes # <<>>
  /\ KeepRows("processes", Len(list.processes) - 1)

(* A click on a column, whatever runs: VIRUSTTAL is about single files.    *)
SortRows(k) ==
  \E p \in [DOMAIN list[k] -> DOMAIN list[k]] :
    IsInjective(p) /\ Move(k, Len(list[k]), p) /\ list' # list

(* The list is emptied, as an import and each choice of a view or session  *)
(* begins, and the processes, or the rows that there are, are read.        *)
Reload(k) ==
  /\ \E rows \in Loaded : list' = [list EXCEPT ![k] = rows]
  /\ Stir(k)
  /\ UNCHANGED <<filling, menuVars, workVars>>

(* An import, or the reading of a view, inserts an empty row, at the end   *)
(* unless the list was emptied meanwhile, and fills it column by column    *)
(* under the number it had then.                                           *)
InsertRow ==
  /\ Len(list.files) < MaxRows
  /\ \E n \in 1 .. Len(list.files) + 1, id \in (1 .. MaxRows) \ Ids("files") :
       LET row == [id |-> id, hash |-> FALSE, text |-> "none"] IN
         /\ list' = [list EXCEPT !.files = InsertAt(@, n, row)]
         /\ filling' = [row |-> n, col |-> COLUMN_SHA256]
         /\ IF n <= Len(list.files) THEN Stir("files") ELSE UNCHANGED stirred
  /\ UNCHANGED <<menuVars, workVars>>

(* Too late for the runs whose thread has looked at the row before.        *)
FillHash ==
  /\ filling.row \in DOMAIN list.files /\ filling.col = COLUMN_SHA256
  /\ list' = [list EXCEPT !.files[filling.row].hash = TRUE]
  /\ filling' = [filling EXCEPT !.col = COLUMN_VIRUSTOTAL]
  /\ stirred' = stirred \union
       {c \in AtRows("files") :
          /\ filling.row <= run[c].i
          /\ th[<<c, filling.row - 1>>].pc \notin {"read", "row"}}
  /\ UNCHANGED <<menuVars, workVars>>

(* A CSV file may have an answer, or an error, of an earlier time.         *)
FillText ==
  /\ filling.row \in DOMAIN list.files
  /\ \E text \in {"error", "answer"} :
       list' = [list EXCEPT !.files[filling.row].text = text]
  /\ filling' = [filling EXCEPT !.row = 0]
  /\ UNCHANGED <<stirred, menuVars, workVars>>

(* The answer about a single file, whichever row has its number by now, or *)
(* about a single process.                                                 *)
CheckOne(k) ==
  /\ \E r \in DOMAIN list[k], text \in {"error", "answer"} :
       /\ k = "processes" => list[k][r].hash \/ list[k][r].text # "none"
       /\ list' = [list EXCEPT ![k][r].text = text]
  /\ UNCHANGED <<filling, stirred, menuVars, workVars>>

(* The menu. A coordinator of processes is created without any condition.  *)
Begin(c, kind) ==
  /\ run[c].pc = "none" /\ \A d \in Runs : d < c => run[d].pc # "none"
  /\ run' = [run EXCEPT ![c].pc = "create", ![c].kind = kind]
  /\ UNCHANGED <<listVars, semVars, slot, th, disturbed>>

StartFiles(c) ==
  /\ ~AVIRUSTTAL
  /\ Begin(c, "files")
  /\ AVIRUSTTAL' = TRUE /\ h_AVIRUSTTAL' = c

StartProcesses(c) == Begin(c, "processes") /\ UNCHANGED menuVars

StopFiles ==
  /\ AVIRUSTTAL
  /\ AVIRUSTTAL' = FALSE
  /\ run' = [run EXCEPT ![h_AVIRUSTTAL] =
                IF @.pc = "done" THEN @
                ELSE [NoRun EXCEPT !.pc = "dead"]]
  /\ disturbed' = disturbed \union {h_AVIRUSTTAL}
  /\ UNCHANGED <<listVars, h_AVIRUSTTAL, semVars, slot, th>>
-----------------------------------------------------------------------------
(* CheckAllFileToVirusTotal and CheckAllFileToVirusTotalProcess.           *)

At(c, from, new) ==
  /\ run[c].pc = from
  /\ run' = [run EXCEPT ![c] = new]
  /\ UNCHANGED <<listVars, h_AVIRUSTTAL>>

(* A count of zero blocks; a closed handle lets the caller by.             *)
Acquire(count, h) ==
  IF h \in open THEN count[h] > 0 /\ count' = [count EXCEPT ![h] = @ - 1]
  ELSE UNCHANGED count

(* ReleaseSemaphore through the global as it is now.                       *)
Released(count, max) ==
  IF gen \in open /\ count[gen] < max THEN [count EXCEPT ![gen] = @ + 1]
  ELSE count

Create(c) ==
  /\ At(c, "create", [run[c] EXCEPT !.pc = "test"])
  /\ gen' = c /\ open' = open \union {c}
  /\ sem' = [sem EXCEPT ![c] = Permits(run[c].kind)]
  /\ item' = [item EXCEPT ![c] = 1]
  /\ LET others == {d \in Runs \ {c} : Busy(d)} IN
       disturbed' = disturbed \union others \union
                      (IF others = {} THEN {} ELSE {c})
  /\ UNCHANGED <<AVIRUSTTAL, slot, th>>

(* The number of rows is read again each time; then hSemaphore is.         *)
Test(c) ==
  /\ At(c, "test",
        [run[c] EXCEPT !.pc = IF run[c].i < Len(list[run[c].kind])
                              THEN "permit" ELSE "drain",
                       !.want = gen])
  /\ UNCHANGED <<AVIRUSTTAL, semVars, slot, th, disturbed>>

TakePermit(c) ==
  /\ At(c, "permit", [run[c] EXCEPT !.pc = "item", !.want = gen])
  /\ Acquire(sem, run[c].want)
  /\ UNCHANGED <<AVIRUSTTAL, gen, item, open, slot, th, disturbed>>

TakeItem(c) ==
  /\ At(c, "item", [run[c] EXCEPT !.pc = "put"])
  /\ Acquire(item, run[c].want)
  /\ UNCHANGED <<AVIRUSTTAL, gen, sem, open, slot, th, disturbed>>

(* Which structure row i goes through, and whether it is to be asked at    *)
(* all, by the first letter of its column. A row that is gone has none.    *)
SlotOf(c) ==
  IF run[c].kind = "processes" THEN 0
  ELSE IF run[c].i % PerSlot = 0 THEN (run[c].j + 1) % NbSlots ELSE run[c].j

Wanted(c) ==
  LET rows == list[run[c].kind]
      there == run[c].i < Len(rows)
      row == rows[run[c].i + 1]
  IN IF run[c].kind = "files" THEN there => row.text # "answer"
     ELSE there /\ (New(row) \/ row.text = "error")

PutAsked(c) ==
  /\ Wanted(c)
  /\ At(c, "put", [run[c] EXCEPT !.pc = "test", !.i = @ + 1, !.j = SlotOf(c)])
  /\ slot' = [slot EXCEPT ![c][SlotOf(c)] = run[c].i]
  /\ th' = [th EXCEPT ![<<c, run[c].i>>] =
                        [NoThread EXCEPT !.pc = "read", !.j = SlotOf(c)]]
  /\ UNCHANGED <<AVIRUSTTAL, semVars, disturbed>>

(* Mutant: a row that is not asked keeps the single permit.                *)
PutPassedKeepsItem(c) ==
  /\ ~Wanted(c)
  /\ At(c, "put", [run[c] EXCEPT !.pc = "test", !.i = @ + 1, !.j = SlotOf(c)])
  /\ sem' = Released(sem, Permits(run[gen].kind))
  /\ UNCHANGED <<AVIRUSTTAL, gen, item, open, slot, th, disturbed>>

PutPassed(c) ==
  /\ ~Wanted(c)
  /\ At(c, "put", [run[c] EXCEPT !.pc = "test", !.i = @ + 1, !.j = SlotOf(c)])
  /\ slot' = [slot EXCEPT ![c][SlotOf(c)] = run[c].i]
  /\ item' = Released(item, 1)
  /\ sem' = Released(sem, Permits(run[gen].kind))
  /\ UNCHANGED <<AVIRUSTTAL, gen, open, th, disturbed>>

(* Mutant: as many permits as a structure has.                             *)
DrainPerSlot(c) ==
  /\ run[c].taken < PerSlot
  /\ At(c, "drain",
        [run[c] EXCEPT !.taken = IF run[c].taken + 1 = PerSlot
                                 THEN Permits(run[c].kind) ELSE @ + 1,
                       !.want = gen])
  /\ Acquire(sem, run[c].want)
  /\ UNCHANGED <<AVIRUSTTAL, gen, item, open, slot, th, disturbed>>

(* All the permits back, then the handles are closed.                      *)
Drain(c) ==
  /\ run[c].taken < Permits(run[c].kind)
  /\ At(c, "drain", [run[c] EXCEPT !.taken = @ + 1, !.want = gen])
  /\ Acquire(sem, run[c].want)
  /\ UNCHANGED <<AVIRUSTTAL, gen, item, open, slot, th, disturbed>>

CloseHandles(c) ==
  /\ run[c].taken = Permits(run[c].kind)
  /\ At(c, "drain", [run[c] EXCEPT !.pc = "clear"])
  /\ open' = open \ {gen}
  /\ sem' = [sem EXCEPT ![gen] = 0] /\ item' = [item EXCEPT ![gen] = 0]
  /\ UNCHANGED <<AVIRUSTTAL, gen, slot, th, disturbed>>

(* Either coordinator clears the flag of the menu.                         *)
Clear(c) ==
  /\ At(c, "clear", [NoRun EXCEPT !.pc = "done", !.kind = run[c].kind])
  /\ AVIRUSTTAL' = FALSE
  /\ UNCHANGED <<semVars, slot, th, disturbed>>

Coordinator(c) ==
  \/ Create(c) \/ Test(c) \/ TakePermit(c) \/ TakeItem(c)
  \/ PutAsked(c) \/ PutPassed(c)
  \/ Drain(c) \/ CloseHandles(c) \/ Clear(c)
-----------------------------------------------------------------------------
(* TCheckFileToVirusTotal (and ...Process) with CheckItemToVirusTotal.     *)

Step(t, from, new) ==
  /\ th[t].pc = from
  /\ th' = [th EXCEPT ![t] = new]
  /\ UNCHANGED <<filling, stirred, menuVars, gen, open, run, disturbed>>

Kind(t) == run[t[1]].kind

(* The number is copied; then the structure may be written again.          *)
CopyId(t, from) ==
  Step(t, from, [th[t] EXCEPT !.pc = "row", !.id = slot[t[1]][th[t].j]])

(* Mutant: the permit goes back before the number is copied.               *)
ReadIdLate(t) ==
  \/ /\ Step(t, "read", [th[t] EXCEPT !.pc = "late"])
     /\ item' = Released(item, 1)
     /\ UNCHANGED <<list, sem, slot>>
  \/ CopyId(t, "late") /\ UNCHANGED <<list, sem, item, slot>>

ReadId(t) ==
  /\ CopyId(t, "read")
  /\ item' = Released(item, 1)
  /\ UNCHANGED <<list, sem, slot>>

(* A file without hash, or with a connection error of an earlier time, is  *)
(* not asked; a process is, for the text of its column, unless it is blank.*)
Askable(t) ==
  LET rows == list[Kind(t)]
      row == rows[th[t].id + 1]
  IN /\ th[t].id < Len(rows)
     /\ IF Kind(t) = "files" THEN row.hash /\ row.text # "error"
        ELSE row.hash \/ row.text # "none"

NotAsked(t) ==
  /\ ~Askable(t)
  /\ Step(t, "row", [th[t] EXCEPT !.pc = "leave"])
  /\ UNCHANGED <<list, sem, item, slot>>

ReadRow(t) ==
  /\ Askable(t)
  /\ Step(t, "row", [th[t] EXCEPT !.row = list[Kind(t)][th[t].id + 1].id,
                                  !.pc = "ask"])
  /\ UNCHANGED <<list, sem, item, slot>>

(* The answer goes to the row that has the number now, if there is one.    *)
Answer(t) ==
  LET r == th[t].id + 1 IN
  /\ Step(t, "ask", [th[t] EXCEPT !.pc = "leave"])
  /\ IF r > Len(list[Kind(t)]) THEN UNCHANGED list
     ELSE \E text \in {"error", "answer"} :
            list' = [list EXCEPT ![Kind(t)][r].text = text]
  /\ UNCHANGED <<sem, item, slot>>

Leave(t) ==
  /\ Step(t, "leave", [NoThread EXCEPT !.pc = "done", !.row = th[t].row])
  /\ sem' = Released(sem, Permits(run[gen].kind))
  /\ UNCHANGED <<list, item, slot>>

CheckFile(t) ==
  ReadId(t) \/ NotAsked(t) \/ ReadRow(t) \/ Answer(t) \/ Leave(t)
-----------------------------------------------------------------------------
Next ==
  \/ LVDelete \/ KillProcess \/ InsertRow \/ FillHash \/ FillText
  \/ \E k \in Lists : SortRows(k) \/ Reload(k) \/ CheckOne(k)
  \/ StopFiles
  \/ \E c \in Runs : StartFiles(c) \/ StartProcesses(c) \/ Coordinator(c)
  \/ \E t \in Threads : CheckFile(t)

Spec == Init /\ [][Next]_vars

(* Every thread that can go on does; requests have timeouts of their own.  *)
FairSpec ==
  /\ Spec
  /\ \A c \in Runs : WF_vars(Coordinator(c))
  /\ \A t \in Threads : WF_vars(CheckFile(t))
-----------------------------------------------------------------------------
(* Threads use the structure on their coordinator's stack only while it is *)
(* there, and no more of them are at work than it has permits, whatever    *)
(* the order in which they end -- unless two runs met in the two globals,  *)
(* or the coordinator was terminated from the menu.                        *)
SlotsHeld ==
  /\ \A c \in Runs :
       /\ sem[c] \in 0 .. PerSlot * NbSlots /\ item[c] \in 0 .. 1
       /\ slot[c] \in [0 .. NbSlots - 1 -> 0 .. MaxRows - 1]
  /\ \A c \in Runs \ disturbed :
       LET mine == {t \in Threads : t[1] = c /\ Active(t)} IN
         /\ mine # {} => Alive(c) /\ gen = c /\ c \in open
         /\ c \in open /\ gen = c =>
              sem[c] + run[c].taken + Cardinality(mine)
                + (IF run[c].pc \in {"item", "put"} THEN 1 ELSE 0)
              = Permits(run[c].kind)

(* The number of a row is handed to its thread and to no other one through *)
(* the shared structure, whatever happens to the rows. So while the rows   *)
(* stay where they are, and have their hash before they are looked at, no  *)
(* row is asked twice, an answer goes to the row it is about, and at the   *)
(* end every row the run came to was asked that has to be.                 *)
EachRowOnce ==
  /\ \A t \in Threads : t[1] \notin disturbed /\ th[t].pc \in {"row", "ask"} =>
       th[t].id = t[2]
  /\ \A c \in Runs \ (disturbed \union stirred) :
       LET rows == list[run[c].kind] IN
       /\ \A s, t \in Threads :
            s[1] = c /\ t[1] = c /\ th[s].row = th[t].row /\ th[s].row # 0
              => s = t
       /\ \A t \in Threads : t[1] = c /\ th[t].pc = "ask" =>
            th[t].id < Len(rows) /\ rows[th[t].id + 1].id = th[t].row
       /\ run[c].pc = "clear" => \A r \in 1 .. run[c].i : ~New(rows[r])

(* A run ends, while rows come and go and requests fail, unless it met     *)
(* another one or was terminated.                                          *)
RunEnds == \A c \in Runs :
  run[c].pc = "test" ~> run[c].pc = "done" \/ c \in disturbed
=============================================================================
