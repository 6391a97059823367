----------------------------- MODULE RtCASession -----------------------------
(***************************************************************************)
(* The sessions of RtCA: the table session of its database with the rows   *)
(* that carry a session number, the array session[] and the combo box that *)
(* list them, and the global current_session_id. Scans and imports add     *)
(* sessions and write rows; the main window selects, refreshes, deletes    *)
(* and merges sessions; the correlation tool shows rows by session.        *)
(*                                                                         *)
(* A session's number is made from the date, as if each month had 30 days, *)
(* and the table lists sessions by number, not by age. A handler of the    *)
(* window is one step; the threads of a scan and of an import are not.     *)
(***************************************************************************)
EXTENDS Integers, FiniteSets, SequencesExt

CONSTANTS
  MaxWriters,  (* bound on the scans and imports started                    *)
  Cap,         (* NB_MAX_SESSION                                            *)
  MaxDate,     (* bound on the clock, in parts of a day                     *)
  DayParts, MonthDays, CountedDays,  (* 31 days, of which 30 are counted    *)
  Files        (* what database files hold: sets of session numbers         *)

ASSUME SessionsBounds ==
  /\ MaxWriters \in Nat /\ Cap \in Nat \ {0} /\ MaxDate \in Nat
  /\ DayParts \in Nat \ {0} /\ MonthDays \in Nat \ {0} /\ CountedDays \in Nat
  /\ \A f \in Files : IsFiniteSet(f) /\ f \subseteq Int

Writers == 1 .. MaxWriters

VARIABLES
  now,                 (* the local time                                    *)
  db,                  (* the numbers in table session                      *)
  rows,                (* the rows: their session, and who wrote them       *)
  nb_session, session, (* the array, with what is behind its end            *)
  combo, cursel,       (* the entries' numbers; the selected one, 0: none   *)
  current_session_id,
  h_conf,              (* the session dialog is open, the main window hidden*)
  enabled,             (* the main window is not disabled by a question     *)
  writer               (* the threads GUIScan, with its tests, and          *)
                       (* ImportCVSorSHA256deep                             *)

tableVars == <<db, rows>>
listVars == <<nb_session, session, combo, cursel>>
windowVars == <<h_conf, enabled>>
sessionsVars ==
  <<now, tableVars, listVars, current_session_id, windowVars, writer>>

(* Never 0: the years counted in it are left out.                          *)
Number(date) ==
  LET month == MonthDays * DayParts IN
  1 + (date \div month) * CountedDays * DayParts + (date % month)

Numbers == {Number(d) : d \in 0 .. MaxDate}

(* Of a scan: its number, the ones its tests have copied, and whether its  *)
(* number was the greatest, and no import under way, when it was started.  *)
(* A scan has "escaped" if a test of it goes on when the dialog is gone.   *)
NoWriter == [kind |-> "scan", pc |-> "none", id |-> 0, at |-> {},
             fresh |-> FALSE, alone |-> FALSE]

ScanAt(w) == writer[w].kind = "scan" /\ writer[w].pc \in {"begin", "write"}
ImportAt(w) ==
  writer[w].kind = "import" /\ writer[w].pc \in {"load", "ask", "write"}

Scanning == \E w \in Writers : ScanAt(w)
Importing == \E w \in Writers : ImportAt(w)

MainEnabled == ~h_conf /\ enabled

(* The table is read in the order of its numbers: each number comes after  *)
(* the smaller ones.                                                       *)
Smaller(s, x) == Cardinality({m \in s : m < x})

Sorted(s) ==
  [k \in 1 .. Cardinality(s) |-> CHOOSE x \in s : Smaller(s, x) = k - 1]

SessionsInit ==
  /\ now = 0
  /\ db = {} /\ rows = {}
  /\ nb_session = 0 /\ session = [i \in 1 .. Cap |-> 0]
  /\ combo = <<>> /\ cursel = 0
  /\ current_session_id = 0
  /\ h_conf = FALSE /\ enabled = TRUE
  /\ writer = [w \in Writers |-> NoWriter]

(* Time goes on; local time may also be set back.                          *)
Tick ==
  /\ now' \in {d \in 0 .. MaxDate : d >= now - 1 /\ d # now}
  /\ UNCHANGED <<tableVars, listVars, current_session_id, windowVars, writer>>
-----------------------------------------------------------------------------
(* TYPE_SQLITE_FLAG_SESSIONS_INIT: all sessions are appended to what the   *)
(* array, from nb, and the combo box, with the entries old, hold already.  *)
ReadSessions(numbers, nb, old) ==
  LET all == Sorted(numbers)
      n == IF Len(all) < Cap - nb THEN Len(all) ELSE Cap - nb
      new == SubSeq(all, 1, n)
  IN /\ nb_session' = nb + n
     /\ session' = [i \in 1 .. Cap |->
                      IF i \in nb + 1 .. nb + n THEN new[i - nb] ELSE session[i]]
     /\ combo' = old \o new

(* TYPE_SQL_ADD_SESSION, after the combo box was emptied; a number that is *)
(* there already makes INSERT fail, which nobody notices.                  *)
AddSession ==
  /\ db' = db \union {Number(now)}
  /\ ReadSessions(db', 0, <<>>)
  /\ cursel' = Len(combo')

(* Greater than all the others, and room for it in the array.              *)
Fresh == (\A n \in db : n < Number(now)) /\ Cardinality(db) < Cap

BeginWriter(w, new) ==
  /\ writer[w].pc = "none" /\ \A v \in Writers : v < w => writer[v].pc # "none"
  /\ writer' = [writer EXCEPT ![w] = new]

(* The menu opens the session dialog and hides the main window.            *)
OpenConf ==
  /\ MainEnabled
  /\ h_conf' = TRUE
  /\ UNCHANGED <<now, tableVars, listVars, current_session_id, enabled, writer>>

(* BT_START of the dialog, which no question of an import disables.        *)
AddScanSession(w) ==
  /\ h_conf /\ ~Scanning
  /\ BeginWriter(w, [NoWriter EXCEPT !.pc = "begin", !.id = Number(now),
                                     !.fresh = Fresh, !.alone = ~Importing])
  /\ AddSession
  /\ current_session_id' = Number(now)
  /\ UNCHANGED <<now, rows, windowVars>>

WriterAt(w, kind, from, new) ==
  /\ writer[w].kind = kind /\ writer[w].pc = from
  /\ writer' = [writer EXCEPT ![w] = new]
  /\ UNCHANGED now

(* Mutant: the scan takes the first session, as the program does at start. *)
TakeFirstSession(w) ==
  /\ WriterAt(w, "scan", "begin",
        [writer[w] EXCEPT !.pc = "write", !.at = {session[1]}])
  /\ current_session_id' = session[1]
  /\ UNCHANGED <<tableVars, listVars, windowVars>>

(* GUIScan takes the last session, and so do the first tests it starts.    *)
TakeLastSession(w) ==
  /\ WriterAt(w, "scan", "begin",
        [writer[w] EXCEPT !.pc = "write", !.at = {session[nb_session]}])
  /\ current_session_id' = session[nb_session]
  /\ UNCHANGED <<tableVars, listVars, windowVars>>

(* A test copies the number that is current when it begins.                *)
TestBegins(w) ==
  /\ \E pc \in {"write", "escaped"} :
       WriterAt(w, "scan", pc,
         [writer[w] EXCEPT !.at = @ \union {current_session_id}])
  /\ UNCHANGED <<tableVars, listVars, current_session_id, windowVars>>

(* Most tests write under the number they copied, some read it again.      *)
ScanRow(w) ==
  /\ \E pc \in {"write", "escaped"} : WriterAt(w, "scan", pc, writer[w])
  /\ \E n \in writer[w].at \union {current_session_id} :
       rows' = rows \union {[session |-> n, by |-> w]}
  /\ UNCHANGED <<db, listVars, current_session_id, windowVars>>

(* GUIScan has waited for its tests, in vain for one that has cleared its  *)
(* handle and goes on (Scan_clipboard); the main window is shown again.    *)
EndScan(w) ==
  /\ \/ WriterAt(w, "scan", "write", [writer[w] EXCEPT !.pc = "done", !.at = {}])
     \/ WriterAt(w, "scan", "write", [writer[w] EXCEPT !.pc = "escaped"])
  /\ h_conf' = FALSE
  /\ UNCHANGED <<tableVars, listVars, current_session_id, enabled>>

(* WM_CLOSE of the dialog. It terminates the tests of a scan, and then     *)
(* GUIScan, whose latest tests escape.                                     *)
CloseConf ==
  /\ h_conf /\ ~Scanning
  /\ h_conf' = FALSE
  /\ UNCHANGED <<now, tableVars, listVars, current_session_id, enabled, writer>>

KillScan(w) ==
  /\ \/ \E pc \in {"begin", "write"} :
          WriterAt(w, "scan", pc, [writer[w] EXCEPT !.pc = "done", !.at = {}])
     \/ WriterAt(w, "scan", "write", [writer[w] EXCEPT !.pc = "escaped"])
  /\ h_conf' = FALSE
  /\ UNCHANGED <<tableVars, listVars, current_session_id, enabled>>

(* An import of a list of hashes runs beside everything else while its     *)
(* file is chosen and loaded. The main window is disabled for the choice,  *)
(* but not before it and after it.                                         *)
StartImport(w) ==
  /\ MainEnabled
  /\ BeginWriter(w, [NoWriter EXCEPT !.kind = "import", !.pc = "load"])
  /\ UNCHANGED <<now, tableVars, listVars, current_session_id, windowVars>>

(* It asks whether to keep the list in the database, and then writes under *)
(* whatever session is current.                                            *)
ImportAsk(w) ==
  /\ WriterAt(w, "import", "load", [writer[w] EXCEPT !.pc = "ask"])
  /\ current_session_id' = 0
  /\ enabled' = FALSE
  /\ UNCHANGED <<tableVars, listVars, h_conf>>

(* The answer enables the window, even if another import asks too.         *)
Answered(w, new) ==
  /\ WriterAt(w, "import", "ask", new)
  /\ enabled' = TRUE
  /\ UNCHANGED <<rows, h_conf>>

ImportYes(w) ==
  /\ Answered(w, [writer[w] EXCEPT !.pc = "write", !.id = Number(now)])
  /\ AddSession
  /\ current_session_id' = Number(now)

ImportNo(w) ==
  /\ Answered(w, [writer[w] EXCEPT !.pc = "write"])
  /\ UNCHANGED <<db, listVars, current_session_id>>

ImportRow(w) ==
  /\ WriterAt(w, "import", "write", writer[w])
  /\ current_session_id # 0
  /\ rows' = rows \union {[session |-> current_session_id, by |-> w]}
  /\ UNCHANGED <<db, listVars, current_session_id, windowVars>>

(* Also if no file was chosen, or it is of the other format.               *)
EndImport(w) ==
  /\ \E pc \in {"load", "write"} :
       WriterAt(w, "import", pc, [writer[w] EXCEPT !.pc = "done"])
  /\ UNCHANGED <<tableVars, listVars, current_session_id, windowVars>>
-----------------------------------------------------------------------------
(* The combo box and the menu of the main window.                          *)

SelectSession(i) ==
  /\ MainEnabled
  /\ i \in DOMAIN combo
  /\ cursel' = i
  /\ current_session_id' = session[i]
  /\ UNCHANGED <<now, tableVars, nb_session, session, combo, windowVars, writer>>

(* CB_SETCURSEL shows the first entry without selecting it.                *)
ShowFirst == cursel' = IF combo' = <<>> THEN 0 ELSE 1

(* Mutant: the combo box is not emptied before it is filled again.         *)
RefreshAppends ==
  /\ MainEnabled
  /\ ReadSessions(db, 0, combo)
  /\ ShowFirst
  /\ UNCHANGED <<now, tableVars, current_session_id, windowVars, writer>>

RefreshSessions ==
  /\ MainEnabled
  /\ ReadSessions(db, 0, <<>>)
  /\ ShowFirst
  /\ UNCHANGED <<now, tableVars, current_session_id, windowVars, writer>>

(* Mutant: the rows of the session that is shown are deleted.              *)
DeleteSessionShown ==
  /\ MainEnabled
  /\ nb_session >= 1
  /\ db' = db \ {current_session_id}
  /\ rows' = {r \in rows : cursel = 0 \/ r.session # combo[cursel]}
  /\ ReadSessions(db', 0, <<>>)
  /\ ShowFirst
  /\ UNCHANGED <<now, current_session_id, windowVars, writer>>

DeleteSession ==
  /\ MainEnabled
  /\ nb_session >= 1
  /\ db' = db \ {current_session_id}
  /\ rows' = {r \in rows : r.session # current_session_id}
  /\ ReadSessions(db', 0, <<>>)
  /\ ShowFirst
  /\ UNCHANGED <<now, current_session_id, windowVars, writer>>

(* The array keeps its length and its numbers.                             *)
DeleteAllSessions ==
  /\ MainEnabled
  /\ db' = {} /\ rows' = {}
  /\ combo' = <<>> /\ cursel' = 0
  /\ UNCHANGED <<now, nb_session, session, current_session_id, windowVars, writer>>

(* INSERT INTO session fails as a whole when one number is there already;  *)
(* the rows are inserted all the same, and the list is read behind itself. *)
LoadSession(file) ==
  /\ MainEnabled
  /\ db' = (IF file \intersect db = {} THEN db \union file ELSE db)
  /\ rows' = rows \union [session : file, by : {0}]
  /\ ReadSessions(db', nb_session, combo)
  /\ cursel' = Len(combo')
  /\ UNCHANGED <<now, current_session_id, windowVars, writer>>
-----------------------------------------------------------------------------
(* The correlation tool lists the sessions of the combo box, last first;   *)
(* for line s of its list it loads the rows of session[s].                 *)
StateShows(s) == [label |-> Reverse(combo)[s], of |-> session[s]]

SessionsNext ==
  \/ Tick
  \/ \E w \in Writers :
       \/ AddScanSession(w) \/ TakeLastSession(w) \/ TestBegins(w)
       \/ ScanRow(w) \/ EndScan(w) \/ KillScan(w)
       \/ StartImport(w) \/ ImportAsk(w) \/ ImportYes(w) \/ ImportNo(w)
       \/ ImportRow(w) \/ EndImport(w)
  \/ OpenConf \/ CloseConf
  \/ \E i \in 1 .. Cap : SelectSession(i)
  \/ RefreshSessions \/ DeleteSession \/ DeleteAllSessions
  \/ \E file \in Files : LoadSession(file)

SessionsSpec == SessionsInit /\ [][SessionsNext]_sessionsVars
-----------------------------------------------------------------------------
Own(w) ==
  writer[w].fresh /\ writer[w].alone /\ writer[w].pc # "escaped"

(* A scan writes into the session that was made for it, and no two scans   *)
(* share a session -- for the scans whose number was the greatest when     *)
(* they began (not after a month of 31 days, a clock set back, or a file   *)
(* of later sessions), with room in the array, no import beside them, were *)
(* it only loading its file, and no test that outlived the dialog.         *)
ScanOwnsSession ==
  \A r \in rows : r.by # 0 /\ Own(r.by) =>
    /\ r.session = writer[r.by].id
    /\ \A s \in rows : s.session = r.session /\ s.by # 0 =>
         s.by = r.by \/ ~Own(s.by)

(* What a scan wrote can be reached: its session is in the table, whatever *)
(* was deleted, merged or numbered alike, since deleting takes the rows    *)
(* along and nothing is deleted under a scan. With an import beside it,    *)
(* rows may be under no session, since an import makes 0 the current one,  *)
(* but under no deleted one either. A test that outlived the dialog goes   *)
(* on when its session may be deleted.                                     *)
ScanRowsListed ==
  \A r \in rows :
    r.by # 0 /\ writer[r.by].kind = "scan" /\ writer[r.by].pc # "escaped" =>
      r.session \in db \/ (r.session = 0 /\ ~writer[r.by].alone)

(* An entry of the combo box selects its own session, except between the   *)
(* deletion of all sessions and the next reading from the start, when the  *)
(* array is longer than the combo box.                                     *)
EntryIsSession ==
  /\ Len(combo) <= nb_session /\ nb_session <= Cap
  /\ cursel \in 0 .. Len(combo)
  /\ Len(combo) = nb_session => \A i \in DOMAIN combo : combo[i] = session[i]

(* The correlation tool filters by session: the rows it shows under a      *)
(* session's name are that session's.                                      *)
StateLabels ==
  \A s \in DOMAIN combo : StateShows(s).label = StateShows(s).of
=============================================================================
