------------------------------ MODULE NSResults ------------------------------
(***************************************************************************)
(* The result list of NS, its exports and the closing of the window.       *)
(*                                                                         *)
(* The window thread (DlgMain), the scan threads, the threads they leave   *)
(* behind after a Stop that timed out, and the SaveWorld threads share the *)
(* list LV_results and the flags save_done and save_current. An export     *)
(* reads the list row by row while the others go on.                       *)
(***************************************************************************)
EXTENDS Integers, FiniteSets, Sequences, SequencesExt

CONSTANTS
  Scans,    (* scan and extraction threads: 1 .. bound on how many start    *)
  Savers,   (* SaveWorld threads: bound on how often Save is pressed        *)
  MaxRows,  (* bound on the rows ever inserted                              *)
  Inis      (* possible [SAVE] sections of NS.ini                           *)

Formats == {"csv", "xml", "html"}

ASSUME ScansAssumption == Scans \subseteq Nat \ {0}
ASSUME SaversAssumption == Scans \intersect Savers = {}
ASSUME RowsAssumption == MaxRows \in Nat
ASSUME IniAssumption == Inis \subseteq [Formats -> {"OK", "YES", "NO", ""}]

VARIABLES
  ini,           (* the [SAVE] section                                     *)
  rows,          (* the list, a sequence of row identities                 *)
  born,          (* rows inserted so far: the next identity                *)
  scan_start,
  startOn, reOn, (* whether BT_START and BT_RE are enabled                 *)
  spc,           (* progress of each scan thread                           *)
  late,          (* threads of a timed out scan may still insert rows      *)
  save_done, save_current,
  exp,           (* export under way in each scan and SaveWorld thread     *)
  kept,          (* rows that are in a file of results                     *)
  window,        (* "open", "asking" (the message box is up) or "closed"   *)
  answer,        (* the user's answer in that box                          *)
  overlapped     (* a scan began before the last one cleared scan_start    *)

buttonVars == <<scan_start, startOn, reOn>>
scanVars == <<ini, spc, late, overlapped>>
saveVars == <<save_done, save_current>>
listVars == <<rows, born>>
windowVars == <<window, answer>>
vars == <<buttonVars, scanVars, saveVars, listVars, windowVars, exp, kept>>

Threads == Scans \union Savers

Blank == 0   (* what an index behind the end of the list reads as           *)

(* pc, the formats still to write, rows counted, rows written, and the     *)
(* list the file began with and whether it was reordered or emptied since. *)
NoExport == [pc |-> "none", todo |-> <<>>, n |-> 0, file |-> <<>>,
             base |-> <<>>, moved |-> FALSE]

Alive == window # "closed"

InDialog == \E s \in Savers : exp[s].pc = "dialog"

(* The window takes clicks: no modal box is on top of it.                  *)
GuiFree == window = "open" /\ ~InDialog
-----------------------------------------------------------------------------
Init ==
  /\ ini \in Inis
  /\ rows = <<>>
  /\ born = 0
  /\ scan_start = FALSE
  /\ startOn = TRUE
  /\ reOn = TRUE
  /\ spc = [k \in Scans |-> "none"]
  /\ late = FALSE
  /\ save_done = FALSE
  /\ save_current = FALSE
  /\ exp = [t \in Threads |-> NoExport]
  /\ kept = {}
  /\ window = "open"
  /\ answer = "none"
  /\ overlapped = FALSE
-----------------------------------------------------------------------------
(* The list.                                                               *)

(* Every export under way sees the rows move under its index.              *)
MoveRows(new) ==
  /\ rows' = new
  /\ exp' = [t \in Threads |-> [exp[t] EXCEPT !.moved = TRUE]]

(* AddLSTVItem by a thread of a scan; rows go in at the end.               *)
AddLSTVItem ==
  /\ Alive
  /\ late \/ \E k \in Scans : spc[k] = "scan" \/ spc[k] = "extract"
  /\ born < MaxRows
  /\ born' = born + 1
  /\ rows' = Append(rows, born')
  /\ UNCHANGED <<buttonVars, scanVars, saveVars, windowVars, exp, kept>>

(* Mutant: a click on a column sorts whenever no scan is to go on.         *)
SortIgnoresButton ==
  /\ GuiFree
  /\ ~scan_start
  /\ \E p \in Bijection(DOMAIN rows, DOMAIN rows) :
       MoveRows([r \in DOMAIN rows |-> rows[p[r]]])
  /\ UNCHANGED <<born, buttonVars, scanVars, saveVars, windowVars, kept>>

(* LVN_COLUMNCLICK: any order may be the order of a column's texts.        *)
Sort ==
  /\ GuiFree
  /\ ~scan_start /\ startOn
  /\ \E p \in Bijection(DOMAIN rows, DOMAIN rows) :
       MoveRows([r \in DOMAIN rows |-> rows[p[r]]])
  /\ UNCHANGED <<born, buttonVars, scanVars, saveVars, windowVars, kept>>
-----------------------------------------------------------------------------
(* Starting, stopping and ending a scan or an extraction.                  *)

Begin(k, kind) ==
  /\ GuiFree
  /\ ~scan_start
  /\ spc[k] = "none"
  /\ \A j \in Scans : j < k => spc[j] # "none"
  /\ scan_start' = TRUE
  /\ spc' = [spc EXCEPT ![k] = kind]
  /\ overlapped' = (overlapped \/ \E j \in Scans : spc[j] = "enabled")
  /\ MoveRows(<<>>)
  /\ UNCHANGED <<ini, born, late, saveVars, windowVars, kept>>

(* BT_START and BT_RE, each of which takes the other button away.          *)
StartScan(k) ==
  /\ startOn /\ Begin(k, "scan")
  /\ reOn' = FALSE /\ UNCHANGED startOn

StartExtract(k) ==
  /\ reOn /\ Begin(k, "extract")
  /\ startOn' = FALSE /\ UNCHANGED reOn

(* The same two buttons while scan_start is set.                           *)
Stop ==
  /\ GuiFree
  /\ scan_start
  /\ scan_start' = FALSE
  /\ \/ startOn /\ startOn' = FALSE /\ UNCHANGED reOn
     \/ reOn /\ reOn' = FALSE /\ UNCHANGED startOn
  /\ UNCHANGED <<scanVars, saveVars, listVars, windowVars, exp, kept>>

(* The formats a scan saves of its own accord: those NS.ini answers with   *)
(* an `o' for; an extraction always writes two.                            *)
Chosen(f) == IF ini[f] = "OK" THEN <<f>> ELSE <<>>

AutoFormats(kind) ==
  IF kind = "extract" THEN <<"csv", "xml">>
  ELSE Chosen("csv") \o Chosen("xml") \o Chosen("html")

(* The tests are over; after a Stop, perhaps only the wait for them is.    *)
EndTests(k) ==
  /\ Alive
  /\ spc[k] \in {"scan", "extract"}
  /\ late' \in (IF scan_start THEN {late} ELSE {late, TRUE})
  /\ spc' = [spc EXCEPT ![k] = IF @ = "scan" THEN "saving" ELSE "extracted"]
  /\ exp' = [exp EXCEPT ![k] =
               [NoExport EXCEPT !.pc = "next",
                                !.todo = IF rows = <<>> THEN <<>>
                                         ELSE AutoFormats(spc[k])]]
  /\ UNCHANGED <<ini, overlapped, buttonVars, saveVars, listVars, windowVars,
                 kept>>

(* All formats are written: the buttons come back ...                      *)
EnableButtons(k) ==
  /\ Alive
  /\ spc[k] \in {"saving", "extracted"}
  /\ exp[k].pc = "next" /\ exp[k].todo = <<>>
  /\ startOn' = TRUE /\ reOn' = TRUE
  /\ spc' = [spc EXCEPT ![k] = "enabled"]
  /\ exp' = [exp EXCEPT ![k] = NoExport]
  /\ UNCHANGED <<ini, late, overlapped, scan_start, saveVars, listVars,
                 windowVars, kept>>

(* ... and only then is scan_start cleared.                                *)
ClearStart(k) ==
  /\ Alive
  /\ spc[k] = "enabled"
  /\ scan_start' = FALSE
  /\ spc' = [spc EXCEPT ![k] = "done"]
  /\ UNCHANGED <<ini, late, overlapped, startOn, reOn, saveVars, listVars,
                 windowVars, exp, kept>>
-----------------------------------------------------------------------------
(* SaveLSTV, by thread t: the rows are counted first, then read by index.  *)

(* Nothing to save, or the file cannot be created: SaveLSTV is FALSE.      *)
SkipFile(t) ==
  /\ Alive
  /\ exp[t].pc = "next" /\ exp[t].todo # <<>>
  /\ exp' = [exp EXCEPT ![t] = [@ EXCEPT !.pc = "saved", !.file = <<>>]]
  /\ UNCHANGED <<buttonVars, scanVars, saveVars, listVars, windowVars, kept>>

OpenFile(t) ==
  /\ Alive
  /\ exp[t].pc = "next" /\ exp[t].todo # <<>>
  /\ rows # <<>>
  /\ exp' = [exp EXCEPT ![t] = [pc |-> "write", todo |-> @.todo, n |-> Len(rows),
                                file |-> <<>>, base |-> rows, moved |-> FALSE]]
  /\ UNCHANGED <<buttonVars, scanVars, saveVars, listVars, windowVars, kept>>

(* Mutant: the row index is off by one.                                    *)
WriteRowOffByOne(t) ==
  /\ Alive
  /\ exp[t].pc = "write"
  /\ LET j == Len(exp[t].file)
         line == IF j + 2 <= Len(rows) THEN rows[j + 2] ELSE Blank
     IN /\ j < exp[t].n
        /\ exp' = [exp EXCEPT ![t].file = Append(@, line)]
  /\ UNCHANGED <<buttonVars, scanVars, saveVars, listVars, windowVars, kept>>

WriteRow(t) ==
  /\ Alive
  /\ exp[t].pc = "write"
  /\ LET j == Len(exp[t].file)
         line == IF j + 1 <= Len(rows) THEN rows[j + 1] ELSE Blank
     IN /\ j < exp[t].n
        /\ exp' = [exp EXCEPT ![t].file = Append(@, line)]
  /\ UNCHANGED <<buttonVars, scanVars, saveVars, listVars, windowVars, kept>>

CloseFile(t) ==
  /\ Alive
  /\ exp[t].pc = "write" /\ Len(exp[t].file) = exp[t].n
  /\ kept' = kept \union Range(exp[t].file)
  /\ exp' = [exp EXCEPT ![t].pc = "saved"]
  /\ UNCHANGED <<buttonVars, scanVars, saveVars, listVars, windowVars>>

(* A scan notes each format as saved, an extraction or a SaveWorld thread  *)
(* all of them at the end, and all whether or not SaveLSTV succeeded.      *)
NextFile(t) ==
  /\ Alive
  /\ exp[t].pc = "saved"
  /\ exp' = [exp EXCEPT ![t] = [NoExport EXCEPT !.pc = "next",
                                                !.todo = Tail(exp[t].todo)]]
  /\ save_done' = (save_done \/ (t \in Scans /\
                      (spc[t] = "saving" \/ Len(exp[t].todo) = 1)))
  /\ UNCHANGED <<buttonVars, scanVars, save_current, listVars, windowVars,
                 kept>>
-----------------------------------------------------------------------------
(* The Save button and its thread.                                         *)

(* Mutant: nothing keeps a second thread from being created.               *)
SaveUnguarded(s) ==
  /\ GuiFree
  /\ exp[s].pc = "none"
  /\ save_current' = TRUE
  /\ exp' = [exp EXCEPT ![s].pc = "start"]
  /\ UNCHANGED <<save_done, buttonVars, scanVars, listVars, windowVars, kept>>

Save(s) ==
  /\ GuiFree
  /\ ~save_current
  /\ exp[s].pc = "none"
  /\ save_current' = TRUE
  /\ exp' = [exp EXCEPT ![s].pc = "start"]
  /\ UNCHANGED <<save_done, buttonVars, scanVars, listVars, windowVars, kept>>

OpenDialog(s) ==
  /\ Alive
  /\ exp[s].pc = "start"
  /\ exp' = [exp EXCEPT ![s].pc = "dialog"]
  /\ UNCHANGED <<buttonVars, scanVars, saveVars, listVars, windowVars, kept>>

(* One format (which one makes no difference here), all of them, or the    *)
(* console, which holds no result row.                                     *)
Accept(s) ==
  /\ Alive
  /\ exp[s].pc = "dialog"
  /\ \E todo \in {<<"xml">>, <<"xml", "csv", "html">>, <<>>} :
       exp' = [exp EXCEPT ![s] = [NoExport EXCEPT !.pc = "next",
                                                  !.todo = todo]]
  /\ UNCHANGED <<buttonVars, scanVars, saveVars, listVars, windowVars, kept>>

(* Cancelled: the thread ends and leaves save_current as it is.            *)
Cancel(s) ==
  /\ Alive
  /\ exp[s].pc = "dialog"
  /\ exp' = [exp EXCEPT ![s] = NoExport]
  /\ UNCHANGED <<buttonVars, scanVars, saveVars, listVars, windowVars, kept>>

Saved(s) ==
  /\ Alive
  /\ exp[s].pc = "next" /\ exp[s].todo = <<>>
  /\ save_done' = TRUE
  /\ save_current' = FALSE
  /\ exp' = [exp EXCEPT ![s] = NoExport]
  /\ UNCHANGED <<buttonVars, scanVars, listVars, windowVars, kept>>
-----------------------------------------------------------------------------
(* WM_CLOSE.                                                               *)

(* The dialog ends, and with it the process and all its threads.           *)
EndDialog ==
  /\ window' = "closed"
  /\ scan_start' = FALSE

Close ==
  /\ GuiFree
  /\ save_done \/ rows = <<>>
  /\ save_done' = TRUE
  /\ EndDialog
  /\ UNCHANGED <<answer, save_current, startOn, reOn, scanVars, listVars, exp,
                 kept>>

Ask ==
  /\ GuiFree
  /\ ~save_done /\ rows # <<>>
  /\ window' = "asking"
  /\ UNCHANGED <<answer, buttonVars, scanVars, saveVars, listVars, exp, kept>>

AnswerYes ==
  /\ window = "asking"
  /\ answer' = "yes"
  /\ save_done' = TRUE
  /\ EndDialog
  /\ UNCHANGED <<save_current, startOn, reOn, scanVars, listVars, exp, kept>>

(* save_done is read again after the box, whatever the answer was.         *)
AnswerNo ==
  /\ window = "asking"
  /\ answer' = "no"
  /\ IF save_done THEN EndDialog
     ELSE window' = "open" /\ UNCHANGED scan_start
  /\ UNCHANGED <<saveVars, startOn, reOn, scanVars, listVars, exp, kept>>
-----------------------------------------------------------------------------
Write(t) ==
  SkipFile(t) \/ OpenFile(t) \/ WriteRow(t) \/ CloseFile(t) \/ NextFile(t)

ScanThread(k) == EndTests(k) \/ EnableButtons(k) \/ ClearStart(k)

SaveWorld(s) == OpenDialog(s) \/ Accept(s) \/ Cancel(s) \/ Saved(s)

DlgMain ==
  \/ Sort \/ Stop \/ Close \/ Ask \/ AnswerYes \/ AnswerNo
  \/ \E k \in Scans : StartScan(k) \/ StartExtract(k)
  \/ \E s \in Savers : Save(s)

Over == window = "closed" /\ UNCHANGED vars

Next ==
  \/ Over \/ DlgMain \/ AddLSTVItem
  \/ \E k \in Scans : ScanThread(k)
  \/ \E s \in Savers : SaveWorld(s)
  \/ \E t \in Threads : Write(t)

Spec == Init /\ [][Next]_vars
-----------------------------------------------------------------------------
ExportPcs == {"none", "start", "dialog", "next", "write", "saved"}

TypeOK ==
  /\ ini \in Inis
  /\ rows \in Seq(1 .. MaxRows)
  /\ born \in 0 .. MaxRows
  /\ {scan_start, startOn, reOn, late, overlapped, save_done, save_current}
       \subseteq BOOLEAN
  /\ spc \in [Scans -> {"none", "scan", "extract", "saving", "extracted",
                    "enabled", "done"}]
  /\ \A t \in Threads :
       /\ exp[t].pc \in ExportPcs
       /\ exp[t].todo \in Seq(Formats)
       /\ Len(exp[t].file) <= exp[t].n
       /\ exp[t].file \in Seq(0 .. MaxRows)
  /\ kept \subseteq 0 .. MaxRows
  /\ window \in {"open", "asking", "closed"}
  /\ answer \in {"none", "yes", "no"}

(* Save is never at work twice: save_current lets one SaveWorld thread at  *)
(* a time have the file dialog and the flags.                              *)
OneSaver == \A r, s \in Savers :
  exp[r].pc # "none" /\ exp[s].pc # "none" => r = s

(* Rows inserted during an export do not disturb it: as long as nobody     *)
(* sorts or empties the list, the file is the list it started with, row by *)
(* row, each row once.                                                     *)
ExportFaithful ==
  /\ TypeOK
  /\ \A t \in Threads :
       exp[t].pc = "write" /\ ~exp[t].moved =>
         exp[t].file = SubSeq(exp[t].base, 1, Len(exp[t].file))

(* What a scan saves of its own accord is its whole list: neither sorting, *)
(* nor emptying, nor a row that comes in meanwhile can reach the list then *)
(* -- unless the scan left threads behind, or one was started before the   *)
(* one before it had cleared scan_start.                                   *)
AutoSaveExact == \A k \in Scans :
  /\ spc[k] \in {"saving", "extracted"} /\ exp[k].pc = "write"
  /\ ~late /\ ~overlapped
  => ~exp[k].moved /\ rows = exp[k].base

(* The message box says "No data saved, are you really sure to quit?": it  *)
(* is shown before rows that are in no file are given up.                  *)
QuitAsks ==
  window = "closed" /\ answer # "yes" => Range(rows) \subseteq kept
=============================================================================
