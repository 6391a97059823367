------------------------ MODULE RtVirusTotal_proofs ------------------------
(***************************************************************************)
(* Proofs about the look-ups of RtCA, for any number of runs, rows and     *)
(* permits.                                                                *)
(*                                                                         *)
(* A run that met no other one and was not terminated has both global      *)
(* semaphores to itself. So its permits add up, and all of them back mean  *)
(* that its threads have left its structures; and the single permit of     *)
(* hSemaphoreItem keeps a row number in its structure until its thread has *)
(* copied it.                                                              *)
(***************************************************************************)
EXTENDS RtVirusTotal, FiniteSetTheorems, SequenceTheorems, TLAPS

RunPcs == {"none", "create", "test", "permit", "item", "put", "drain", "clear",
           "done", "dead"}

RunRecords ==
  [pc : RunPcs, kind : Lists, i : 0 .. MaxRows, j : 0 .. NbSlots - 1,
   want : 0 .. MaxRuns, taken : 0 .. PerSlot * NbSlots]

ThreadPcs == {"none", "read", "row", "ask", "leave", "done"}

ThreadRecords ==
  [pc : ThreadPcs, j : 0 .. NbSlots - 1,
   id : 0 .. MaxRows - 1, row : Nat]

RangesInv ==
  /\ list \in [Lists -> Seq(Rows)]
  /\ gen \in 0 .. MaxRuns /\ open \subseteq Runs
  /\ sem \in [Runs -> 0 .. PerSlot * NbSlots] /\ item \in [Runs -> 0 .. 1]
  /\ run \in [Runs -> RunRecords]
  /\ slot \in [Runs -> [0 .. NbSlots - 1 -> 0 .. MaxRows - 1]]
  /\ th \in [Threads -> ThreadRecords]

(* A coordinator at its rows, and one that may have threads.               *)
AtRow == {"permit", "item", "put"}
AtWork == {"test", "permit", "item", "put", "drain"}

Mine(c) == {t \in Threads : t[1] = c /\ Active(t)}

(* Bounds, and the order in which a coordinator comes to its rows.         *)
OrderInv ==
  /\ \A k \in Lists : Len(list[k]) <= MaxRows
  /\ \A c \in Runs :
       /\ run[c].pc \in {"none", "create"} => run[c].i = 0 /\ c \notin open
       /\ run[c].pc \in {"none", "create", "done"} => run[c].taken = 0
       /\ run[c].pc \in AtRow => run[c].i < MaxRows
       /\ run[c].pc \in {"test"} \union AtRow => run[c].taken = 0
       /\ run[c].pc = "dead" => c \in disturbed
  /\ \A t \in Threads :
       /\ run[t[1]].pc \notin {"done", "dead"} /\ th[t].pc # "none" =>
            t[2] < run[t[1]].i
       /\ th[t].pc = "none" => th[t].row = 0

(* A run that met no other one has the globals to itself, and its threads  *)
(* are gone when it closes them.                                           *)
AloneInv == \A c \in Runs \ disturbed :
  /\ run[c].pc \in AtWork \union {"clear"} =>
       /\ gen = c
       /\ \A d \in Runs \ {c} :
            run[d].pc \in {"none", "create", "done", "dead"} /\ Mine(d) = {}
  /\ run[c].pc \in AtWork => c \in open
  /\ run[c].pc \in AtRow \union {"drain"} => run[c].want = c
  /\ run[c].pc \notin AtWork => Mine(c) = {}
  /\ run[c].pc \in {"clear", "done"} => c \notin open

(* Its permits are free, with a thread, with the coordinator or drained.   *)
PermitsInv == \A c \in Runs \ disturbed :
  run[c].pc \in AtWork =>
    sem[c] + run[c].taken + Cardinality(Mine(c))
      + (IF run[c].pc \in {"item", "put"} THEN 1 ELSE 0)
    = Permits(run[c].kind)

(* Its single permit is free, with the coordinator, or with the one thread *)
(* that has not copied its number yet.                                     *)
HandOver == \A c \in Runs \ disturbed :
  /\ run[c].pc = "put" =>
       item[c] = 0 /\ \A t \in Threads : t[1] = c => th[t].pc # "read"
  /\ \A t \in Threads : t[1] = c /\ th[t].pc = "read" =>
       /\ item[c] = 0
       /\ slot[c][th[t].j] = t[2]
       /\ \A s \in Threads : s[1] = c /\ th[s].pc = "read" => s = t

(* So a thread copies its own number, whatever happens to the rows.        *)
NumbersInv == \A t \in Threads :
  t[1] \notin disturbed /\ th[t].pc \in {"row", "ask"} => th[t].id = t[2]

(* No list has a file or a process twice.                                  *)
Distinct == \A k \in Lists : \A r, s \in 1 .. Len(list[k]) :
  list[k][r].id = list[k][s].id => r = s

(* A run under which no row moved finds the rows of its threads under their*)
(* numbers. A row it came by is known, is not to be asked, or its thread   *)
(* is at it.                                                               *)
Follows(c) == run[c].pc \in AtWork \union {"clear"} =>
  LET rows == list[run[c].kind] IN
  /\ run[c].i <= Len(rows)
  /\ run[c].pc \in AtRow => run[c].i < Len(rows)
  /\ \A t \in Threads : t[1] = c =>
       /\ th[t].pc = "ask" \/ th[t].row # 0 =>
            t[2] < Len(rows) /\ rows[t[2] + 1].id = th[t].row
       /\ t[2] < run[c].i =>
            ~New(rows[t[2] + 1]) \/ th[t].pc \in {"read", "row", "ask"}

Once(c) == \A s, t \in Threads :
  s[1] = c /\ t[1] = c /\ th[s].row = th[t].row /\ th[s].row # 0 => s = t

RowsInv == \A c \in Runs \ (disturbed \union stirred) : Follows(c) /\ Once(c)

LookUpInv ==
  /\ RangesInv /\ OrderInv /\ AloneInv /\ PermitsInv /\ HandOver
  /\ NumbersInv /\ Distinct /\ RowsInv
-----------------------------------------------------------------------------
USE SizesAssumption

LEMMA PermitsRange ==
  ASSUME NEW kind
  PROVE  /\ Permits(kind) \in Nat \ {0}
         /\ Permits(kind) <= PerSlot * NbSlots
         /\ PerSlot * NbSlots \in Nat
<1>1. PerSlot * NbSlots \in Nat \ {0} /\ PerSlot <= PerSlot * NbSlots
  OBVIOUS
<1> QED
  BY <1>1 DEF Permits

LEMMA RunFields ==
  ASSUME RangesInv, NEW c \in Runs
  PROVE  /\ run[c].pc \in RunPcs /\ run[c].kind \in Lists
         /\ run[c].i \in 0 .. MaxRows /\ run[c].j \in 0 .. NbSlots - 1
         /\ run[c].want \in 0 .. MaxRuns
         /\ run[c].taken \in 0 .. PerSlot * NbSlots
         /\ run[c] \in RunRecords
BY DEF RangesInv, RunRecords

(* A coordinator's step: what changes in its record, and in no other.      *)
Moves(c, pc, i, j, want, taken) ==
  /\ run'[c].pc = pc /\ run'[c].kind = run[c].kind
  /\ run'[c].i = i /\ run'[c].j = j
  /\ run'[c].want = want /\ run'[c].taken = taken
  /\ run'[c] \in RunRecords
  /\ \A d \in Runs \ {c} : run'[d] = run[d]
  /\ run' \in [Runs -> RunRecords]

(* What each action of a coordinator does to its record.                   *)
LEMMA CreateMoves ==
  ASSUME RangesInv, OrderInv, NEW c \in Runs, Create(c)
  PROVE  Moves(c, "test", run[c].i, run[c].j, run[c].want, run[c].taken)
BY RunFields DEF Create, At, Moves, RangesInv, RunRecords, RunPcs

LEMMA TestMoves ==
  ASSUME RangesInv, OrderInv, NEW c \in Runs, Test(c)
  PROVE  Moves(c, IF run[c].i < Len(list[run[c].kind]) THEN "permit" ELSE "drain",
               run[c].i, run[c].j, gen, run[c].taken)
<1> DEFINE pc == IF run[c].i < Len(list[run[c].kind]) THEN "permit" ELSE "drain"
           new == [run[c] EXCEPT !.pc = pc, !.want = gen]
<1>1. pc \in RunPcs /\ gen \in 0 .. MaxRuns
  BY DEF RunPcs, RangesInv
<1>2. run' = [run EXCEPT ![c] = new]
  BY DEF Test, At
<1> HIDE DEF pc
<1>3. /\ new \in RunRecords
      /\ new.pc = pc /\ new.i = run[c].i /\ new.j = run[c].j
      /\ new.kind = run[c].kind /\ new.want = gen
      /\ new.taken = run[c].taken
  BY <1>1, RunFields DEF RunRecords
<1> HIDE DEF new
<1>4. Moves(c, pc, run[c].i, run[c].j, gen, run[c].taken)
  BY <1>2, <1>3 DEF Moves, RangesInv
<1> QED
  BY <1>4 DEF pc

LEMMA PermitMoves ==
  ASSUME RangesInv, OrderInv, NEW c \in Runs, TakePermit(c)
  PROVE  Moves(c, "item", run[c].i, run[c].j, gen, run[c].taken)
BY RunFields DEF TakePermit, At, Moves, RangesInv, RunRecords, RunPcs

LEMMA ItemMoves ==
  ASSUME RangesInv, OrderInv, NEW c \in Runs, TakeItem(c)
  PROVE  Moves(c, "put", run[c].i, run[c].j, run[c].want, run[c].taken)
BY RunFields DEF TakeItem, At, Moves, RangesInv, RunRecords, RunPcs

LEMMA SlotOfRange ==
  ASSUME RangesInv, NEW c \in Runs
  PROVE  SlotOf(c) \in 0 .. NbSlots - 1
<1>1. run[c].j \in 0 .. NbSlots - 1 /\ (run[c].j + 1) % NbSlots \in 0 .. NbSlots - 1
  BY RunFields
<1>2. 0 \in 0 .. NbSlots - 1
  OBVIOUS
<1> QED
  BY <1>1, <1>2 DEF SlotOf

LEMMA PutMoves ==
  ASSUME RangesInv, OrderInv, NEW c \in Runs, PutAsked(c) \/ PutPassed(c)
  PROVE  Moves(c, "test", run[c].i + 1, SlotOf(c), run[c].want, run[c].taken)
<1>1. SlotOf(c) \in 0 .. NbSlots - 1
  BY SlotOfRange
<1>2. run[c].i + 1 \in 0 .. MaxRows
  BY RunFields DEF OrderInv, AtRow, PutAsked, PutPassed, At
<1> DEFINE new == [run[c] EXCEPT !.pc = "test", !.i = @ + 1, !.j = SlotOf(c)]
<1>3. run' = [run EXCEPT ![c] = new]
  BY DEF PutAsked, PutPassed, At
<1>4. /\ new \in RunRecords
      /\ new.pc = "test" /\ new.i = run[c].i + 1 /\ new.j = SlotOf(c)
      /\ new.kind = run[c].kind /\ new.want = run[c].want
      /\ new.taken = run[c].taken
  BY <1>1, <1>2, RunFields DEF RunRecords, RunPcs
<1> HIDE DEF new
<1> QED
  BY <1>3, <1>4 DEF Moves, RangesInv

LEMMA DrainMoves ==
  ASSUME RangesInv, OrderInv, NEW c \in Runs, Drain(c)
  PROVE  Moves(c, "drain", run[c].i, run[c].j, gen, run[c].taken + 1)
<1>1. run[c].taken + 1 \in 0 .. PerSlot * NbSlots
  BY RunFields, PermitsRange DEF Drain
<1> QED
  BY <1>1, RunFields DEF Drain, At, Moves, RangesInv, RunRecords, RunPcs

LEMMA CloseMoves ==
  ASSUME RangesInv, OrderInv, NEW c \in Runs, CloseHandles(c)
  PROVE  Moves(c, "clear", run[c].i, run[c].j, run[c].want, run[c].taken)
BY RunFields DEF CloseHandles, At, Moves, RangesInv, RunRecords, RunPcs

LEMMA ClearMoves ==
  ASSUME RangesInv, OrderInv, NEW c \in Runs, Clear(c)
  PROVE  Moves(c, "done", 0, 0, 0, 0)
<1>1. 0 \in 0 .. MaxRows /\ 0 \in 0 .. NbSlots - 1 /\ 0 \in 0 .. MaxRuns
      /\ 0 \in 0 .. PerSlot * NbSlots
  BY PermitsRange, RunFields
<1>2. /\ NoRun \in RunRecords
      /\ NoRun.i = 0 /\ NoRun.j = 0 /\ NoRun.want = 0 /\ NoRun.taken = 0
  BY <1>1 DEF NoRun, RunRecords, RunPcs, Lists
<1> QED
  BY <1>2, RunFields DEF Clear, At, Moves, RangesInv, RunRecords, RunPcs

LEMMA BeginMoves ==
  ASSUME RangesInv, NEW c \in Runs, NEW kind \in Lists, Begin(c, kind)
  PROVE  /\ run[c].pc = "none"
         /\ run'[c].pc = "create" /\ run'[c].kind = kind
         /\ run'[c].i = run[c].i /\ run'[c].taken = run[c].taken
         /\ \A d \in Runs \ {c} : run'[d] = run[d]
         /\ run' \in [Runs -> RunRecords]
BY RunFields DEF Begin, RangesInv, RunRecords, RunPcs

(* A coordinator is terminated where it is.                                *)
LEMMA StopMoves ==
  ASSUME RangesInv, StopFiles
  PROVE  /\ \A d \in Runs :
              \/ run'[d] = run[d]
              \/ run'[d].pc = "dead" /\ d \in disturbed'
         /\ disturbed \subseteq disturbed'
         /\ run' \in [Runs -> RunRecords]
<1> DEFINE h == h_AVIRUSTTAL
           new == IF run[h].pc = "done" THEN run[h]
                  ELSE [NoRun EXCEPT !.pc = "dead"]
<1>1. run' = [run EXCEPT ![h] = new] /\ disturbed' = disturbed \union {h}
  BY DEF StopFiles
<1>2. /\ [NoRun EXCEPT !.pc = "dead"] \in RunRecords
      /\ [NoRun EXCEPT !.pc = "dead"].pc = "dead"
  BY PermitsRange DEF NoRun, RunRecords, RunPcs, Lists
<1>3. h \in Runs => new \in RunRecords /\ (new = run[h] \/ new.pc = "dead")
  BY <1>2, RunFields
<1> HIDE DEF new
<1> QED
  BY <1>1, <1>3 DEF RangesInv
-----------------------------------------------------------------------------
LEMMA ThreadFields ==
  ASSUME RangesInv, NEW t \in Threads
  PROVE  /\ th[t].pc \in ThreadPcs /\ th[t].j \in 0 .. NbSlots - 1
         /\ th[t].id \in 0 .. MaxRows - 1 /\ th[t].row \in Nat
         /\ th[t] \in ThreadRecords
         /\ t[1] \in Runs /\ t[2] \in 0 .. MaxRows - 1 /\ t = <<t[1], t[2]>>
BY DEF RangesInv, ThreadRecords, Threads

LEMMA RowFields ==
  ASSUME RangesInv, NEW k \in Lists
  PROVE  /\ list[k] \in Seq(Rows) /\ Len(list[k]) \in Nat
         /\ DOMAIN list[k] = 1 .. Len(list[k])
         /\ \A r \in 1 .. Len(list[k]) :
              /\ list[k][r] \in Rows /\ list[k][r].id \in 1 .. MaxRows
              /\ list[k][r].hash \in BOOLEAN
<1>1. list[k] \in Seq(Rows)
  BY DEF RangesInv
<1>2. \A r \in 1 .. Len(list[k]) : list[k][r] \in Rows
  BY <1>1, ElementOfSeq
<1> QED
  BY <1>1, <1>2, LenProperties DEF Rows

(* A thread's step: what changes in its record, and in no other.           *)
Turns(t, pc, j, id, row) ==
  /\ th'[t].pc = pc /\ th'[t].j = j /\ th'[t].id = id /\ th'[t].row = row
  /\ \A s \in Threads \ {t} : th'[s] = th[s]
  /\ th' \in [Threads -> ThreadRecords]

LEMMA NoThreadType ==
  /\ NoThread \in ThreadRecords
  /\ NoThread.j = 0 /\ NoThread.id = 0 /\ NoThread.row = 0
BY DEF NoThread, ThreadRecords, ThreadPcs

LEMMA ReadIdTurns ==
  ASSUME RangesInv, NEW t \in Threads, ReadId(t)
  PROVE  Turns(t, "row", th[t].j, slot[t[1]][th[t].j], th[t].row)
<1>1. slot[t[1]][th[t].j] \in 0 .. MaxRows - 1
  BY ThreadFields DEF RangesInv
<1> QED
  BY <1>1, ThreadFields
     DEF ReadId, CopyId, Step, Turns, RangesInv, ThreadRecords, ThreadPcs

LEMMA NotAskedTurns ==
  ASSUME RangesInv, NEW t \in Threads, NotAsked(t)
  PROVE  Turns(t, "leave", th[t].j, th[t].id, th[t].row)
BY ThreadFields DEF NotAsked, Step, Turns, RangesInv, ThreadRecords, ThreadPcs

LEMMA ReadRowTurns ==
  ASSUME RangesInv, NEW t \in Threads, ReadRow(t)
  PROVE  Turns(t, "ask", th[t].j, th[t].id, list[Kind(t)][th[t].id + 1].id)
<1>1. list[Kind(t)][th[t].id + 1].id \in Nat
  <2>1. Kind(t) \in Lists
    BY RunFields, ThreadFields DEF Kind
  <2>2. th[t].id + 1 \in 1 .. Len(list[Kind(t)])
    BY <2>1, ThreadFields, RowFields DEF ReadRow, Askable
  <2> QED
    BY <2>1, <2>2, RowFields
<1> QED
  BY <1>1, ThreadFields
     DEF ReadRow, Step, Turns, RangesInv, ThreadRecords, ThreadPcs

LEMMA AnswerTurns ==
  ASSUME RangesInv, NEW t \in Threads, Answer(t)
  PROVE  Turns(t, "leave", th[t].j, th[t].id, th[t].row)
BY ThreadFields DEF Answer, Step, Turns, RangesInv, ThreadRecords, ThreadPcs

LEMMA LeaveTurns ==
  ASSUME RangesInv, NEW t \in Threads, Leave(t)
  PROVE  Turns(t, "done", 0, 0, th[t].row)
BY NoThreadType, ThreadFields
   DEF Leave, Step, Turns, RangesInv, ThreadRecords, ThreadPcs

LEMMA PutTurns ==
  ASSUME RangesInv, OrderInv, NEW c \in Runs, PutAsked(c)
  PROVE  LET t == <<c, run[c].i>> IN
         t \in Threads /\ th[t].pc = "none" /\ Turns(t, "read", SlotOf(c), 0, 0)
<1> DEFINE t == <<c, run[c].i>>
           new == [NoThread EXCEPT !.pc = "read", !.j = SlotOf(c)]
<1>1. run[c].pc = "put" /\ run[c].i < MaxRows
  BY DEF PutAsked, At, OrderInv, AtRow
<1>2. t \in Threads /\ t[1] = c /\ t[2] = run[c].i
  BY <1>1, RunFields DEF Threads
<1>3. th[t].pc = "none"
  BY <1>1, <1>2, RunFields DEF OrderInv
<1>4. th' = [th EXCEPT ![t] = new]
  BY DEF PutAsked
<1>5. /\ new \in ThreadRecords
      /\ new.pc = "read" /\ new.j = SlotOf(c) /\ new.id = 0 /\ new.row = 0
  BY SlotOfRange, NoThreadType DEF ThreadRecords, ThreadPcs
<1> HIDE DEF t, new
<1>6. Turns(t, "read", SlotOf(c), 0, 0)
  BY <1>2, <1>4, <1>5 DEF Turns, RangesInv
<1> QED
  BY <1>2, <1>3, <1>6 DEF t
-----------------------------------------------------------------------------
(* What happens to the rows.                                               *)

(* What the window does to its lists.                                      *)
ByWindow ==
  \/ LVDelete \/ KillProcess \/ InsertRow \/ FillHash \/ FillText
  \/ \E k \in Lists : SortRows(k) \/ Reload(k) \/ CheckOne(k)

LEMMA WindowOnly ==
  ASSUME ByWindow
  PROVE  UNCHANGED <<gen, sem, item, open, run, slot, th, disturbed>>
BY DEF ByWindow, LVDelete, KillProcess, KeepRows, SortRows, Move, Reload,
       InsertRow, FillHash, FillText, CheckOne, workVars, semVars

LEMMA ListsAre == \A k : k \in Lists <=> k = "files" \/ k = "processes"
BY DEF Lists

(* The lists have rows, not too many, and no file twice.                   *)
Sound(lists) ==
  /\ lists \in [Lists -> Seq(Rows)]
  /\ \A k \in Lists :
       /\ Len(lists[k]) <= MaxRows
       /\ \A r, s \in 1 .. Len(lists[k]) : lists[k][r].id = lists[k][s].id => r = s

LEMMA SoundNow ==
  ASSUME RangesInv, OrderInv, Distinct
  PROVE  Sound(list)
BY DEF RangesInv, OrderInv, Distinct, Sound

LEMMA OneList ==
  ASSUME Sound(list), NEW k \in Lists, NEW new \in Seq(Rows), Len(new) <= MaxRows,
         \A r, s \in 1 .. Len(new) : new[r].id = new[s].id => r = s,
         list' = [list EXCEPT ![k] = new]
  PROVE  /\ Sound(list')
         /\ list'[k] = new
         /\ \A m \in Lists \ {k} : list'[m] = list[m]
<1>1. /\ list'[k] = new /\ \A m \in Lists \ {k} : list'[m] = list[m]
      /\ list' \in [Lists -> Seq(Rows)]
  BY DEF Sound
<1>2. ASSUME NEW m \in Lists
      PROVE  /\ Len(list'[m]) <= MaxRows
             /\ \A r, s \in 1 .. Len(list'[m]) :
                  list'[m][r].id = list'[m][s].id => r = s
  <2>1. CASE m = k
    BY <1>1, <2>1
  <2>2. CASE m # k
    BY <1>1, <2>2 DEF Sound
  <2> QED
    BY <2>1, <2>2
<1> QED
  BY <1>1, <1>2 DEF Sound

(* One row is written, and stays the row it is.                            *)
LEMMA RowSet ==
  ASSUME RangesInv, Sound(list), NEW k \in Lists, NEW r0 \in 1 .. Len(list[k]),
         NEW row \in Rows, row.id = list[k][r0].id,
         list' = [list EXCEPT ![k] = [list[k] EXCEPT ![r0] = row]]
  PROVE  /\ Sound(list')
         /\ \A m \in Lists : Len(list'[m]) = Len(list[m])
         /\ \A m \in Lists : \A r \in 1 .. Len(list[m]) :
              /\ list'[m][r].id = list[m][r].id
              /\ m # k \/ r # r0 => list'[m][r] = list[m][r]
         /\ list'[k][r0] = row
<1> DEFINE old == list[k]
           new == [old EXCEPT ![r0] = row]
<1>1. old \in Seq(Rows) /\ Len(old) \in Nat /\ Len(old) <= MaxRows
  BY RowFields DEF Sound
<1>2. /\ new \in Seq(Rows) /\ Len(new) = Len(old)
      /\ \A r \in 1 .. Len(old) : new[r] = IF r = r0 THEN row ELSE old[r]
  <2> HIDE DEF old
  <2> QED
    BY <1>1, ExceptSeq DEF old
<1>3. \A r \in 1 .. Len(old) : new[r].id = old[r].id
  BY <1>2
<1>4. \A r, s \in 1 .. Len(new) : new[r].id = new[s].id => r = s
  BY <1>2, <1>3 DEF Sound
<1> HIDE DEF new
<1>5. list' = [list EXCEPT ![k] = new]
  BY DEF new
<1>6. /\ Sound(list') /\ list'[k] = new
      /\ \A m \in Lists \ {k} : list'[m] = list[m]
  BY <1>1, <1>2, <1>4, <1>5, OneList
<1>7. ASSUME NEW m \in Lists
      PROVE  /\ Len(list'[m]) = Len(list[m])
             /\ \A r \in 1 .. Len(list[m]) :
                  /\ list'[m][r].id = list[m][r].id
                  /\ m # k \/ r # r0 => list'[m][r] = list[m][r]
  <2>1. CASE m = k
    BY <1>2, <1>3, <1>6, <2>1
  <2>2. CASE m # k
    BY <1>6, <2>2
  <2> QED
    BY <2>1, <2>2
<1> QED
  BY <1>2, <1>6, <1>7

Writes(k, r, text) == list' = [list EXCEPT ![k][r].text = text]

LEMMA TextSet ==
  ASSUME RangesInv, Sound(list), NEW k \in Lists, NEW r0 \in 1 .. Len(list[k]),
         NEW text \in {"error", "answer"},
         Writes(k, r0, text)
  PROVE  /\ Sound(list')
         /\ \A m \in Lists : Len(list'[m]) = Len(list[m])
         /\ \A m \in Lists : \A r \in 1 .. Len(list[m]) :
              /\ list'[m][r].id = list[m][r].id
              /\ New(list'[m][r]) => New(list[m][r])
         /\ ~New(list'[k][r0])
<1> DEFINE row == [list[k][r0] EXCEPT !.text = text]
<1>2. row \in Rows /\ row.id = list[k][r0].id /\ ~New(row)
  <2>1. list[k][r0] \in Rows
    BY RowFields
  <2> QED
    BY <2>1 DEF Rows, New
<1>3. list' = [list EXCEPT ![k] = [list[k] EXCEPT ![r0] = row]]
  BY DEF Writes
<1> HIDE DEF row
<1>4. /\ Sound(list')
      /\ \A m \in Lists : Len(list'[m]) = Len(list[m])
      /\ \A m \in Lists : \A r \in 1 .. Len(list[m]) :
           /\ list'[m][r].id = list[m][r].id
           /\ m # k \/ r # r0 => list'[m][r] = list[m][r]
  BY <1>2, <1>3, RowSet
<1>5. list'[k][r0] = row
  BY <1>3, RowFields DEF RangesInv
<1> QED
  BY <1>2, <1>4, <1>5

(* What a run needs of its rows when the window has been at them.          *)
StaysFor(c) ==
  LET k == run[c].kind IN
  /\ Len(list[k]) <= Len(list'[k])
  /\ \A r \in 1 .. Len(list[k]) :
       /\ list'[k][r].id = list[k][r].id
       /\ New(list'[k][r]) =>
            \/ New(list[k][r])
            \/ run[c].i < r \/ th[<<c, r - 1>>].pc \in {"read", "row"}

Looks(c) == run[c].pc \in AtWork \union {"clear"}

LEMMA LooksIs ==
  ASSUME NEW c \in Runs, Looks(c)
  PROVE  c \in AtRows(run[c].kind)
BY DEF Looks, AtRows, Busy, Alive, AtWork

LEMMA SameStays ==
  ASSUME RangesInv, NEW c \in Runs, list'[run[c].kind] = list[run[c].kind]
  PROVE  StaysFor(c)
BY RunFields, RowFields DEF StaysFor

LEMMA StirredStay ==
  ASSUME RangesInv, NEW k \in Lists, Stir(k),
         \A m \in Lists \ {k} : list'[m] = list[m]
  PROVE  /\ stirred \subseteq stirred'
         /\ \A c \in Runs \ stirred' : Looks(c) => StaysFor(c)
<1>1. stirred' = stirred \union AtRows(k)
  BY DEF Stir
<1>2. ASSUME NEW c \in Runs, c \notin stirred', Looks(c)
      PROVE  StaysFor(c)
  <2>1. run[c].kind # k
    BY <1>1, <1>2, LooksIs
  <2> QED
    BY <2>1, RunFields, SameStays
<1> QED
  BY <1>1, <1>2

LEMMA TextStays ==
  ASSUME RangesInv, NEW c \in Runs,
         \A m \in Lists : Len(list'[m]) = Len(list[m]),
         \A m \in Lists : \A r \in 1 .. Len(list[m]) :
           /\ list'[m][r].id = list[m][r].id
           /\ New(list'[m][r]) => New(list[m][r])
  PROVE  StaysFor(c)
BY RunFields, RowFields, SMTT(60) DEF StaysFor

LEMMA MoveRows ==
  ASSUME RangesInv, Sound(list), NEW k \in Lists, NEW n \in Nat,
         n <= Len(list[k]), NEW p \in [1 .. n -> DOMAIN list[k]],
         \A r, s \in 1 .. n : p[r] = p[s] => r = s,
         Move(k, n, p)
  PROVE  /\ Sound(list')
         /\ stirred \subseteq stirred'
         /\ \A c \in Runs \ stirred' : Looks(c) => StaysFor(c)
<1> DEFINE old == list[k]
           new == [r \in 1 .. n |-> old[p[r]]]
<1>1. /\ old \in Seq(Rows) /\ Len(old) \in Nat /\ Len(old) <= MaxRows
      /\ DOMAIN old = 1 .. Len(old)
      /\ \A r \in 1 .. Len(old) : old[r] \in Rows
      /\ \A r, s \in 1 .. Len(old) : old[r].id = old[s].id => r = s
  BY RowFields DEF Sound
<1>2. \A r \in 1 .. n : p[r] \in 1 .. Len(old)
  BY <1>1
<1>3. new \in [1 .. n -> Rows]
  BY <1>1, <1>2
<1>4. new \in Seq(Rows) /\ Len(new) = n /\ n <= MaxRows
  <2>1. new \in Seq(Rows)
    BY <1>3
  <2>2. Len(new) = n
    BY <1>3, <2>1, LenProperties
  <2> QED
    BY <1>1, <2>1, <2>2
<1>5. \A r, s \in 1 .. Len(new) : new[r].id = new[s].id => r = s
  BY <1>1, <1>2, <1>4
<1>6. list' = [list EXCEPT ![k] = new] /\ Stir(k)
  BY DEF Move
<1> HIDE DEF new
<1> QED
  BY <1>4, <1>5, <1>6, OneList, StirredStay

LEMMA KeptRows ==
  ASSUME RangesInv, Sound(list), NEW k \in Lists, NEW n \in Nat,
         n <= Len(list[k]), KeepRows(k, n)
  PROVE  /\ Sound(list')
         /\ stirred \subseteq stirred'
         /\ \A c \in Runs \ stirred' : Looks(c) => StaysFor(c)
<1>1. PICK p \in [1 .. n -> DOMAIN list[k]] :
        /\ \A r, s \in 1 .. n : r < s => p[r] < p[s]
        /\ Move(k, n, p)
  BY DEF KeepRows
<1>2. ASSUME NEW r \in 1 .. n, NEW s \in 1 .. n, p[r] = p[s]
      PROVE  r = s
  <2>1. p[r] \in Nat /\ p[s] \in Nat
    BY RowFields
  <2> QED
    BY <1>1, <1>2, <2>1
<1> QED
  BY <1>1, <1>2, MoveRows

LEMMA SortedRows ==
  ASSUME RangesInv, Sound(list), NEW k \in Lists, SortRows(k)
  PROVE  /\ Sound(list')
         /\ stirred \subseteq stirred'
         /\ \A c \in Runs \ stirred' : Looks(c) => StaysFor(c)
<1>1. PICK p \in [DOMAIN list[k] -> DOMAIN list[k]] :
        IsInjective(p) /\ Move(k, Len(list[k]), p)
  BY DEF SortRows
<1>2. Len(list[k]) \in Nat /\ DOMAIN list[k] = 1 .. Len(list[k])
  BY RowFields
<1>3. \A r, s \in 1 .. Len(list[k]) : p[r] = p[s] => r = s
  BY <1>1, <1>2 DEF IsInjective
<1> QED
  BY <1>1, <1>2, <1>3, MoveRows

LEMMA LoadedIs ==
  ASSUME NEW rows \in Loaded
  PROVE  /\ rows \in Seq(Rows) /\ Len(rows) <= MaxRows
         /\ \A r \in 1 .. Len(rows) : rows[r].id = r
<1> DEFINE S == {row \in Rows : row.text = "none"}
<1>1. rows \in BoundedSeq(S, MaxRows) /\ \A r \in DOMAIN rows : rows[r].id = r
  BY DEF Loaded
<1>2. PICK m \in 0 .. MaxRows : rows \in [1 .. m -> S]
  BY <1>1 DEF BoundedSeq, SeqOf
<1>3. rows \in Seq(S) /\ m \in Nat
  BY <1>2
<1>4. Len(rows) = m /\ DOMAIN rows = 1 .. m
  BY <1>2, <1>3, LenProperties
<1>5. rows \in Seq(Rows)
  BY <1>2, <1>3
<1> QED
  BY <1>1, <1>2, <1>4, <1>5

LEMMA ReloadRows ==
  ASSUME RangesInv, Sound(list), NEW k \in Lists, Reload(k)
  PROVE  /\ Sound(list')
         /\ stirred \subseteq stirred'
         /\ \A c \in Runs \ stirred' : Looks(c) => StaysFor(c)
<1>1. PICK rows \in Loaded : list' = [list EXCEPT ![k] = rows]
  BY DEF Reload
<1>2. /\ rows \in Seq(Rows) /\ Len(rows) <= MaxRows
      /\ \A r, s \in 1 .. Len(rows) : rows[r].id = rows[s].id => r = s
  BY LoadedIs
<1>3. Stir(k)
  BY DEF Reload
<1> QED
  BY <1>1, <1>2, <1>3, OneList, StirredStay

LEMMA InsertedRows ==
  ASSUME RangesInv, Sound(list), InsertRow
  PROVE  /\ Sound(list')
         /\ stirred \subseteq stirred'
         /\ \A c \in Runs \ stirred' : Looks(c) => StaysFor(c)
<1> DEFINE old == list["files"]
<1>1. PICK n \in 1 .. Len(old) + 1, id \in (1 .. MaxRows) \ Ids("files") :
        LET row == [id |-> id, hash |-> FALSE, text |-> "none"] IN
          /\ list' = [list EXCEPT !["files"] = InsertAt(old, n, row)]
          /\ IF n <= Len(old) THEN Stir("files") ELSE UNCHANGED stirred
  BY DEF InsertRow
<1> DEFINE row == [id |-> id, hash |-> FALSE, text |-> "none"]
           new == InsertAt(old, n, row)
<1>2. "files" \in Lists
  BY ListsAre
<1>3. /\ old \in Seq(Rows) /\ Len(old) \in Nat /\ DOMAIN old = 1 .. Len(old)
      /\ \A r, s \in 1 .. Len(old) : old[r].id = old[s].id => r = s
      /\ Len(old) < MaxRows
  BY <1>2, RowFields DEF Sound, InsertRow
<1>4. row \in Rows /\ row.id = id
  BY DEF Rows
<1>5. \A r \in 1 .. Len(old) : old[r].id # id
  BY <1>3 DEF Ids
<1> HIDE DEF old, row
<1>6. /\ SubSeq(old, 1, n - 1) \in Seq(Rows)
      /\ Len(SubSeq(old, 1, n - 1)) = n - 1
      /\ \A r \in 1 .. n - 1 : SubSeq(old, 1, n - 1)[r] = old[r]
  BY <1>3, SubSeqProperties
<1>7. /\ SubSeq(old, n, Len(old)) \in Seq(Rows)
      /\ Len(SubSeq(old, n, Len(old))) = Len(old) - n + 1
      /\ \A r \in 1 .. Len(old) - n + 1 :
           SubSeq(old, n, Len(old))[r] = old[n + r - 1]
  BY <1>3, SubSeqProperties
<1>8. /\ new \in Seq(Rows) /\ Len(new) = Len(old) + 1
      /\ \A r \in 1 .. Len(new) :
           new[r] = IF r < n THEN old[r] ELSE IF r = n THEN row ELSE old[r - 1]
  <2> DEFINE a == SubSeq(old, 1, n - 1)
             b == SubSeq(old, n, Len(old))
             ar == a \o <<row>>
  <2>1. /\ <<row>> \in Seq(Rows) /\ Len(<<row>>) = 1 /\ <<row>>[1] = row
    BY <1>4
  <2> HIDE DEF a, b
  <2>2. /\ ar \in Seq(Rows) /\ Len(ar) = n
        /\ \A r \in 1 .. n : ar[r] = IF r < n THEN old[r] ELSE row
    BY <1>3, <1>6, <2>1, ConcatProperties DEF a
  <2> HIDE DEF ar
  <2>3. /\ ar \o b \in Seq(Rows) /\ Len(ar \o b) = Len(old) + 1
        /\ \A r \in 1 .. Len(old) + 1 :
             (ar \o b)[r] = IF r <= n THEN ar[r] ELSE b[r - n]
    BY <1>3, <1>7, <2>2, ConcatProperties, SMTT(60) DEF b
  <2>4. \A r \in n + 1 .. Len(old) + 1 : b[r - n] = old[r - 1]
    BY <1>3, <1>7 DEF b
  <2>5. new = ar \o b
    BY DEF InsertAt, ar, a, b
  <2> QED
    BY <1>3, <2>2, <2>3, <2>4, <2>5
<1> HIDE DEF new
<1>9. \A r, s \in 1 .. Len(new) : new[r].id = new[s].id => r = s
  <2> SUFFICES ASSUME NEW r \in 1 .. Len(new), NEW s \in 1 .. Len(new),
                      new[r].id = new[s].id
               PROVE  r = s
    OBVIOUS
  <2> DEFINE at(x) == IF x < n THEN x ELSE x - 1
  <2>1. \A x \in 1 .. Len(new) : x # n =>
          at(x) \in 1 .. Len(old) /\ new[x] = old[at(x)]
    BY <1>3, <1>8
  <2>2. new[n] = row
    BY <1>3, <1>8
  <2>3. CASE r = n \/ s = n
    BY <1>4, <1>5, <2>1, <2>2, <2>3
  <2>4. CASE r # n /\ s # n
    <3>1. at(r) = at(s)
      BY <1>3, <2>1, <2>4
    <3> QED
      BY <1>3, <1>8, <2>4, <3>1
  <2> QED
    BY <2>3, <2>4
<1>10. list' = [list EXCEPT !["files"] = new]
  BY <1>1 DEF new, row
<1>11. new \in Seq(Rows) /\ Len(new) <= MaxRows
  BY <1>3, <1>8
<1>12. /\ Sound(list') /\ list'["files"] = new
       /\ \A m \in Lists \ {"files"} : list'[m] = list[m]
  BY <1>2, <1>9, <1>10, <1>11, OneList
<1>13. CASE n <= Len(old)
  <2>1. Stir("files")
    BY <1>1, <1>13 DEF old
  <2> QED
    BY <1>2, <1>12, <2>1, StirredStay
<1>14. CASE ~(n <= Len(old))
  <2>1. stirred' = stirred /\ n = Len(old) + 1
    BY <1>1, <1>3, <1>14 DEF old
  <2>2. ASSUME NEW c \in Runs PROVE StaysFor(c)
    <3>1. CASE run[c].kind = "files"
      <4>1. Len(old) <= Len(new) /\ \A r \in 1 .. Len(old) : new[r] = old[r]
        BY <1>3, <1>8, <2>1
      <4> QED
        BY <1>12, <3>1, <4>1 DEF StaysFor, old
    <3>2. CASE run[c].kind # "files"
      BY <1>12, <3>2, RunFields, SameStays
    <3> QED
      BY <3>1, <3>2
  <2> QED
    BY <1>12, <2>1, <2>2
<1> QED
  BY <1>13, <1>14

LEMMA FilledRows ==
  ASSUME RangesInv, Sound(list), FillHash
  PROVE  /\ Sound(list')
         /\ stirred \subseteq stirred'
         /\ \A c \in Runs \ stirred' : Looks(c) => StaysFor(c)
<1> DEFINE r0 == filling.row
           old == list["files"][r0]
           row == [old EXCEPT !.hash = TRUE]
<1>1. "files" \in Lists
  BY ListsAre
<1>2. r0 \in 1 .. Len(list["files"]) /\ old \in Rows
  BY <1>1, RowFields DEF FillHash
<1>3. row \in Rows /\ row.id = list["files"][r0].id
  BY <1>2 DEF Rows
<1>4. list' = [list EXCEPT !["files"] = [list["files"] EXCEPT ![r0] = row]]
  BY DEF FillHash
<1> HIDE DEF row, old, r0
<1>5. /\ Sound(list')
      /\ \A m \in Lists : Len(list'[m]) = Len(list[m])
      /\ \A m \in Lists : \A r \in 1 .. Len(list[m]) :
           /\ list'[m][r].id = list[m][r].id
           /\ m # "files" \/ r # r0 => list'[m][r] = list[m][r]
  BY <1>1, <1>2, <1>3, <1>4, RowSet, Zenon
<1>6. stirred' = stirred \union
        {c \in AtRows("files") : /\ r0 <= run[c].i
                                 /\ th[<<c, r0 - 1>>].pc \notin {"read", "row"}}
  BY DEF FillHash, r0
<1>7. ASSUME NEW c \in Runs, c \notin stirred', Looks(c)
      PROVE  StaysFor(c)
  <2>1. CASE run[c].kind = "files"
    <3>1. c \in AtRows("files")
      BY <1>7, <2>1, LooksIs
    <3>2. ~(r0 <= run[c].i) \/ th[<<c, r0 - 1>>].pc \in {"read", "row"}
      BY <1>6, <1>7, <3>1
    <3>3. run[c].i \in Nat /\ r0 \in Nat /\ Len(list["files"]) \in Nat
      BY <1>1, <1>2, RunFields, RowFields
    <3>4. ASSUME NEW r \in 1 .. Len(list["files"])
          PROVE  /\ list'["files"][r].id = list["files"][r].id
                 /\ New(list'["files"][r]) =>
                      \/ New(list["files"][r])
                      \/ run[c].i < r \/ th[<<c, r - 1>>].pc \in {"read", "row"}
      <4>1. CASE r = r0
        BY <1>1, <1>5, <3>2, <3>3, <4>1
      <4>2. CASE r # r0
        BY <1>1, <1>5, <4>2
      <4> QED
        BY <4>1, <4>2
    <3>5. Len(list["files"]) <= Len(list'["files"])
      BY <1>1, <1>5, <3>3
    <3> QED
      BY <2>1, <3>4, <3>5, Zenon DEF StaysFor
  <2>2. CASE run[c].kind # "files"
    <3>1. run[c].kind \in Lists /\ Len(list[run[c].kind]) \in Nat
      BY RunFields, RowFields
    <3> QED
      BY <1>5, <2>2, <3>1 DEF StaysFor
  <2> QED
    BY <2>1, <2>2
<1> QED
  BY <1>5, <1>6, <1>7

(* Whatever the window does, the lists stay sound, and the runs under which*)
(* no row moves find their rows where they were.                           *)
LEMMA WindowRows ==
  ASSUME RangesInv, OrderInv, Distinct, ByWindow
  PROVE  /\ Sound(list')
         /\ stirred \subseteq stirred'
         /\ \A c \in Runs \ stirred' : Looks(c) => StaysFor(c)
<1>0. Sound(list) /\ "files" \in Lists /\ "processes" \in Lists
  BY SoundNow, ListsAre
<1>1. \A k \in Lists : Len(list[k]) \in Nat /\ DOMAIN list[k] = 1 .. Len(list[k])
  BY RowFields
<1>2. CASE LVDelete
  <2>1. PICK n \in 0 .. Len(list["files"]) - 1 : KeepRows("files", n)
    BY <1>2 DEF LVDelete
  <2> QED
    BY <1>0, <1>1, <2>1, KeptRows
<1>3. CASE KillProcess
  <2>1. /\ Len(list["processes"]) - 1 \in Nat
        /\ Len(list["processes"]) - 1 <= Len(list["processes"])
    <3>1. Len(list["processes"]) # 0
      BY <1>0, <1>3, RowFields, EmptySeq DEF KillProcess
    <3> QED
      BY <1>0, <1>1, <3>1
  <2> QED
    BY <1>0, <1>3, <2>1, KeptRows DEF KillProcess
<1>4. CASE InsertRow
  BY <1>0, <1>4, InsertedRows
<1>5. CASE FillHash
  BY <1>0, <1>5, FilledRows
<1>6. CASE FillText
  <2>1. PICK text \in {"error", "answer"} :
          Writes("files", filling.row, text)
    BY <1>6 DEF FillText, Writes
  <2>2. filling.row \in 1 .. Len(list["files"]) /\ stirred' = stirred
    BY <1>0, <1>1, <1>6 DEF FillText
  <2> QED
    BY <1>0, <2>1, <2>2, TextSet, TextStays
<1>7. ASSUME NEW k \in Lists, CheckOne(k)
      PROVE  /\ Sound(list')
             /\ stirred \subseteq stirred'
             /\ \A c \in Runs \ stirred' : Looks(c) => StaysFor(c)
  <2>1. PICK r \in DOMAIN list[k], text \in {"error", "answer"} :
          Writes(k, r, text)
    BY <1>7 DEF CheckOne, Writes
  <2>2. r \in 1 .. Len(list[k]) /\ stirred' = stirred
    BY <1>1, <1>7 DEF CheckOne
  <2> QED
    BY <1>0, <2>1, <2>2, TextSet, TextStays
<1> QED
  BY <1>0, <1>2, <1>3, <1>4, <1>5, <1>6, <1>7, SortedRows, ReloadRows DEF ByWindow

LEMMA AnswerRows ==
  ASSUME RangesInv, OrderInv, Distinct, NEW t \in Threads, Answer(t)
  PROVE  /\ Sound(list')
         /\ \A m \in Lists : Len(list'[m]) = Len(list[m])
         /\ \A m \in Lists : \A r \in 1 .. Len(list[m]) :
              /\ list'[m][r].id = list[m][r].id
              /\ New(list'[m][r]) => New(list[m][r])
         /\ th[t].id < Len(list[Kind(t)]) => ~New(list'[Kind(t)][th[t].id + 1])
<1>1. Sound(list) /\ Kind(t) \in Lists /\ th[t].id \in Nat
      /\ Len(list[Kind(t)]) \in Nat
  BY SoundNow, RunFields, ThreadFields, RowFields DEF Kind
<1>2. CASE th[t].id + 1 > Len(list[Kind(t)])
  <2>1. list' = list
    BY <1>2 DEF Answer
  <2> QED
    BY <1>1, <1>2, <2>1
<1>3. CASE ~(th[t].id + 1 > Len(list[Kind(t)]))
  <2>1. PICK text \in {"error", "answer"} :
          Writes(Kind(t), th[t].id + 1, text)
    BY <1>3 DEF Answer, Writes
  <2>2. th[t].id + 1 \in 1 .. Len(list[Kind(t)])
    BY <1>1, <1>3
  <2> QED
    BY <1>1, <2>1, <2>2, TextSet
<1> QED
  BY <1>2, <1>3
-----------------------------------------------------------------------------
(* The counts of the semaphores.                                           *)

LEMMA SemAcquired ==
  ASSUME RangesInv, NEW h, Acquire(sem, h)
  PROVE  /\ sem' \in [Runs -> 0 .. PerSlot * NbSlots]
         /\ \A d \in Runs \ {h} : sem'[d] = sem[d]
         /\ h \in open => sem[h] > 0 /\ sem'[h] = sem[h] - 1
<1> DEFINE top == PerSlot * NbSlots
<1>1. top \in Nat /\ sem \in [Runs -> 0 .. top] /\ open \subseteq Runs
  BY PermitsRange DEF RangesInv
<1> HIDE DEF top
<1>2. CASE h \in open
  <2>1. /\ h \in Runs /\ sem[h] \in 0 .. top /\ sem[h] > 0
        /\ sem' = [sem EXCEPT ![h] = sem[h] - 1]
    BY <1>1, <1>2 DEF Acquire
  <2> QED
    BY <1>1, <2>1 DEF top
<1>3. CASE h \notin open
  BY <1>1, <1>3 DEF Acquire, top
<1> QED
  BY <1>2, <1>3

LEMMA ItemAcquired ==
  ASSUME RangesInv, NEW h, Acquire(item, h)
  PROVE  /\ item' \in [Runs -> 0 .. 1]
         /\ \A d \in Runs \ {h} : item'[d] = item[d]
         /\ h \in open => item[h] = 1 /\ item'[h] = 0
<1>1. item \in [Runs -> 0 .. 1] /\ open \subseteq Runs
  BY DEF RangesInv
<1>2. CASE h \in open
  <2>1. h \in Runs /\ item[h] = 1 /\ item' = [item EXCEPT ![h] = 0]
    BY <1>1, <1>2 DEF Acquire
  <2> QED
    BY <1>1, <2>1
<1>3. CASE h \notin open
  BY <1>1, <1>3 DEF Acquire
<1> QED
  BY <1>2, <1>3

LEMMA SemReleased ==
  ASSUME RangesInv, NEW kind, sem' = Released(sem, Permits(kind))
  PROVE  /\ sem' \in [Runs -> 0 .. PerSlot * NbSlots]
         /\ \A d \in Runs \ {gen} : sem'[d] = sem[d]
         /\ gen \in open /\ sem[gen] < Permits(kind) => sem'[gen] = sem[gen] + 1
<1> DEFINE top == PerSlot * NbSlots
           max == Permits(kind)
<1>1. /\ top \in Nat /\ max \in Nat /\ max <= top
      /\ sem \in [Runs -> 0 .. top] /\ open \subseteq Runs
      /\ sem' = Released(sem, max)
  BY PermitsRange DEF RangesInv
<1> HIDE DEF top, max
<1>2. CASE gen \in open /\ sem[gen] < max
  <2>1. /\ gen \in Runs /\ sem[gen] \in 0 .. top /\ sem[gen] + 1 \in 0 .. top
        /\ sem' = [sem EXCEPT ![gen] = sem[gen] + 1]
    BY <1>1, <1>2 DEF Released
  <2> QED
    BY <1>1, <2>1 DEF top
<1>3. CASE ~(gen \in open /\ sem[gen] < max)
  BY <1>1, <1>3 DEF Released, top, max
<1> QED
  BY <1>2, <1>3

LEMMA ItemReleased ==
  ASSUME RangesInv, item' = Released(item, 1)
  PROVE  /\ item' \in [Runs -> 0 .. 1]
         /\ \A d \in Runs \ {gen} : item'[d] = item[d]
<1>1. item \in [Runs -> 0 .. 1] /\ open \subseteq Runs
  BY DEF RangesInv
<1>2. CASE gen \in open /\ item[gen] < 1
  <2>1. gen \in Runs /\ item[gen] \in 0 .. 1 /\ item[gen] + 1 \in 0 .. 1
    BY <1>1, <1>2
  <2>2. item' = [item EXCEPT ![gen] = item[gen] + 1]
    BY <1>2 DEF Released
  <2> QED
    BY <1>1, <2>1, <2>2
<1>3. CASE ~(gen \in open /\ item[gen] < 1)
  BY <1>1, <1>3 DEF Released
<1> QED
  BY <1>2, <1>3
-----------------------------------------------------------------------------
(* The threads of a run at work.                                           *)

LEMMA MineFinite ==
  ASSUME NEW c
  PROVE  IsFiniteSet(Mine(c)) /\ Cardinality(Mine(c)) \in Nat
<1>1. IsFiniteSet(Runs) /\ IsFiniteSet(0 .. MaxRows - 1)
  BY FS_Interval DEF Runs
<1>2. IsFiniteSet(Threads)
  BY <1>1, FS_Product DEF Threads
<1>3. Mine(c) \subseteq Threads
  BY DEF Mine
<1> QED
  BY <1>2, <1>3, FS_Subset, FS_CardinalityType

LEMMA NoneAtWork ==
  ASSUME NEW c, Cardinality(Mine(c)) = 0
  PROVE  Mine(c) = {}
BY MineFinite, FS_EmptySet

LEMMA MineSame ==
  ASSUME UNCHANGED th, NEW c
  PROVE  Mine(c)' = Mine(c)
BY DEF Mine, Active

LEMMA MineStays ==
  ASSUME RangesInv, NEW t \in Threads, NEW pc \in {"row", "ask", "leave"},
         NEW j, NEW id, NEW row, Turns(t, pc, j, id, row),
         th[t].pc \notin {"none", "done"}, NEW c
  PROVE  Mine(c)' = Mine(c)
BY DEF Mine, Active, Turns

LEMMA MineGains ==
  ASSUME RangesInv, NEW t \in Threads,
         NEW j, NEW id, NEW row, Turns(t, "read", j, id, row),
         th[t].pc = "none"
  PROVE  /\ \A c : c # t[1] => Mine(c)' = Mine(c)
         /\ Cardinality(Mine(t[1]))' = Cardinality(Mine(t[1])) + 1
<1>1. \A c : c # t[1] => Mine(c)' = Mine(c)
  BY DEF Mine, Active, Turns
<1>2. Mine(t[1])' = Mine(t[1]) \union {t} /\ t \notin Mine(t[1])
  BY DEF Mine, Active, Turns
<1> QED
  BY <1>1, <1>2, MineFinite, FS_AddElement

LEMMA MineLoses ==
  ASSUME RangesInv, NEW t \in Threads,
         NEW j, NEW id, NEW row, Turns(t, "done", j, id, row),
         th[t].pc = "leave"
  PROVE  /\ \A c : c # t[1] => Mine(c)' = Mine(c)
         /\ Mine(t[1])' \subseteq Mine(t[1])
         /\ t \in Mine(t[1])
         /\ Cardinality(Mine(t[1]))' = Cardinality(Mine(t[1])) - 1
         /\ Cardinality(Mine(t[1])) > 0
<1>1. \A c : c # t[1] => Mine(c)' = Mine(c)
  BY DEF Mine, Active, Turns
<1>2. Mine(t[1])' = Mine(t[1]) \ {t} /\ t \in Mine(t[1])
  BY DEF Mine, Active, Turns
<1>3. Cardinality(Mine(t[1]))' = Cardinality(Mine(t[1])) - 1
  <2>1. IsFiniteSet(Mine(t[1]))
    BY MineFinite
  <2>2. Cardinality(Mine(t[1]) \ {t}) = Cardinality(Mine(t[1])) - 1
    BY <1>2, <2>1, FS_RemoveElement
  <2> QED
    BY <1>2, <2>2
<1>4. Cardinality(Mine(t[1])) # 0
  BY <1>2, NoneAtWork
<1> QED
  BY <1>1, <1>2, <1>3, <1>4, MineFinite
-----------------------------------------------------------------------------
LEMMA InitLookUp == Init => LookUpInv
<1> SUFFICES ASSUME Init PROVE LookUpInv
  OBVIOUS
<1>1. 0 \in 0 .. MaxRows /\ 0 \in 0 .. NbSlots - 1 /\ 0 \in 0 .. MaxRuns
      /\ 0 \in 0 .. PerSlot * NbSlots /\ 0 \in 0 .. MaxRows - 1
  BY PermitsRange
<1>2. /\ NoRun \in RunRecords
      /\ NoRun.pc = "none" /\ NoRun.i = 0 /\ NoRun.taken = 0
  BY <1>1 DEF NoRun, RunRecords, RunPcs, Lists
<1>3. NoThread \in ThreadRecords /\ NoThread.pc = "none" /\ NoThread.row = 0
  BY DEF NoThread, ThreadRecords, ThreadPcs
<1>4. \A c \in Runs : run[c] = NoRun
  BY DEF Init
<1>5. \A t \in Threads : th[t] = NoThread /\ t[1] \in Runs /\ t[2] \in Nat
  BY DEF Init, Threads
<1>6. \A c : Mine(c) = {}
  BY <1>3, <1>5 DEF Mine, Active
<1>8. /\ list \in [Lists -> Seq(Rows)]
      /\ \A k \in Lists :
           /\ Len(list[k]) <= MaxRows
           /\ \A r \in 1 .. Len(list[k]) : list[k][r].id = r
  <2>1. list \in [Lists -> Loaded]
    BY DEF Init
  <2> QED
    BY <2>1, LoadedIs
<1>9. RangesInv
  <2>1. run \in [Runs -> RunRecords] /\ th \in [Threads -> ThreadRecords]
    BY <1>2, <1>3 DEF Init
  <2>2. /\ slot \in [Runs -> [0 .. NbSlots - 1 -> 0 .. MaxRows - 1]]
        /\ sem \in [Runs -> 0 .. PerSlot * NbSlots]
    BY <1>1 DEF Init
  <2>3. item \in [Runs -> 0 .. 1] /\ gen \in 0 .. MaxRuns /\ open \subseteq Runs
    BY <1>1 DEF Init
  <2> QED
    BY <1>8, <2>1, <2>2, <2>3 DEF RangesInv, Init
<1>10. OrderInv
  BY <1>2, <1>3, <1>4, <1>5, <1>8 DEF OrderInv, Init, AtRow
<1>11. AloneInv /\ PermitsInv
  BY <1>2, <1>4, <1>6 DEF AloneInv, PermitsInv, AtRow, AtWork
<1>12. HandOver
  BY <1>2, <1>3, <1>4, <1>5 DEF HandOver
<1>13. NumbersInv /\ Distinct
  BY <1>3, <1>5, <1>8 DEF NumbersInv, Distinct
<1>14. RowsInv
  BY <1>2, <1>3, <1>4, <1>5 DEF RowsInv, Follows, Once, AtWork
<1> QED
  BY <1>9, <1>10, <1>11, <1>12, <1>13, <1>14 DEF LookUpInv
-----------------------------------------------------------------------------
(* Each action keeps the invariant: first the ranges.                      *)

LEMMA RangesKept ==
  ASSUME RangesInv, OrderInv, Distinct, Next
  PROVE  RangesInv'
<1>1. CASE ByWindow
  BY <1>1, WindowOnly, WindowRows DEF Sound, RangesInv
<1>3. CASE StopFiles
  BY <1>3, StopMoves DEF StopFiles, listVars, semVars, RangesInv
<1>4. ASSUME NEW c \in Runs, StartFiles(c) \/ StartProcesses(c)
      PROVE  RangesInv'
  <2>1. PICK kind \in Lists : Begin(c, kind)
    BY <1>4 DEF StartFiles, StartProcesses, Lists
  <2> QED
    BY <2>1, BeginMoves DEF Begin, listVars, semVars, RangesInv
<1>5. ASSUME NEW c \in Runs, Create(c)
      PROVE  RangesInv'
  <2>1. Permits(run[c].kind) \in 0 .. PerSlot * NbSlots /\ c \in 0 .. MaxRuns
    BY PermitsRange DEF Runs
  <2>2. sem' \in [Runs -> 0 .. PerSlot * NbSlots]
    BY <1>5, <2>1 DEF Create, RangesInv
  <2>3. item' \in [Runs -> 0 .. 1] /\ gen' \in 0 .. MaxRuns /\ open' \subseteq Runs
    BY <1>5, <2>1 DEF Create, RangesInv
  <2> QED
    BY <1>5, <2>2, <2>3, CreateMoves DEF Create, At, Moves, listVars, RangesInv
<1>6. ASSUME NEW c \in Runs, Test(c)
      PROVE  RangesInv'
  BY <1>6, TestMoves DEF Test, At, Moves, listVars, semVars, RangesInv
<1>7. ASSUME NEW c \in Runs, TakePermit(c)
      PROVE  RangesInv'
  BY <1>7, PermitMoves, SemAcquired DEF TakePermit, At, Moves, listVars, RangesInv
<1>8. ASSUME NEW c \in Runs, TakeItem(c)
      PROVE  RangesInv'
  BY <1>8, ItemMoves, ItemAcquired DEF TakeItem, At, Moves, listVars, RangesInv
<1>9. ASSUME NEW c \in Runs, PutAsked(c) \/ PutPassed(c)
      PROVE  slot' \in [Runs -> [0 .. NbSlots - 1 -> 0 .. MaxRows - 1]]
  <2>1. run[c].i \in 0 .. MaxRows - 1
    BY <1>9, RunFields DEF OrderInv, AtRow, PutAsked, PutPassed, At
  <2>2. slot' = [slot EXCEPT ![c][SlotOf(c)] = run[c].i]
    BY <1>9 DEF PutAsked, PutPassed
  <2> QED
    BY <2>1, <2>2, SlotOfRange DEF RangesInv
<1>10. ASSUME NEW c \in Runs, PutAsked(c)
       PROVE  RangesInv'
  BY <1>9, <1>10, PutMoves, PutTurns
     DEF PutAsked, At, Moves, Turns, listVars, semVars, RangesInv
<1>11. ASSUME NEW c \in Runs, PutPassed(c)
       PROVE  RangesInv'
  <2>1. sem' \in [Runs -> 0 .. PerSlot * NbSlots] /\ item' \in [Runs -> 0 .. 1]
    BY <1>11, SemReleased, ItemReleased DEF PutPassed
  <2> QED
    BY <1>9, <1>11, <2>1, PutMoves
       DEF PutPassed, At, Moves, listVars, RangesInv
<1>12. ASSUME NEW c \in Runs, Drain(c)
       PROVE  RangesInv'
  BY <1>12, DrainMoves, SemAcquired DEF Drain, At, Moves, listVars, RangesInv
<1>13. ASSUME NEW c \in Runs, CloseHandles(c)
       PROVE  RangesInv'
  <2>1. 0 \in 0 .. PerSlot * NbSlots
    BY PermitsRange
  <2>2. sem' \in [Runs -> 0 .. PerSlot * NbSlots]
    BY <1>13, <2>1 DEF CloseHandles, RangesInv
  <2>3. item' \in [Runs -> 0 .. 1]
    <3>1. item' = [item EXCEPT ![gen] = 0] /\ item \in [Runs -> 0 .. 1]
      BY <1>13 DEF CloseHandles, RangesInv
    <3>2. 0 \in 0 .. 1
      OBVIOUS
    <3> DEFINE S == 0 .. 1
    <3> HIDE DEF S
    <3>3. item' \in [Runs -> S]
      BY <3>1, <3>2 DEF S
    <3> QED
      BY <3>3 DEF S
  <2> QED
    BY <1>13, <2>2, <2>3, CloseMoves DEF CloseHandles, At, Moves, listVars, RangesInv
<1>14. ASSUME NEW c \in Runs, Clear(c)
       PROVE  RangesInv'
  BY <1>14, ClearMoves DEF Clear, At, Moves, listVars, semVars, RangesInv
<1>15. ASSUME NEW t \in Threads, ReadId(t)
       PROVE  RangesInv'
  <2>1. item' \in [Runs -> 0 .. 1]
    BY <1>15, ItemReleased DEF ReadId
  <2> QED
    BY <1>15, <2>1, ReadIdTurns DEF ReadId, CopyId, Step, Turns, RangesInv
<1>16. ASSUME NEW t \in Threads, NotAsked(t)
       PROVE  RangesInv'
  BY <1>16, NotAskedTurns DEF NotAsked, Step, Turns, RangesInv
<1>17. ASSUME NEW t \in Threads, ReadRow(t)
       PROVE  RangesInv'
  BY <1>17, ReadRowTurns DEF ReadRow, Step, Turns, RangesInv
<1>18. ASSUME NEW t \in Threads, Answer(t)
       PROVE  RangesInv'
  BY <1>18, AnswerTurns, AnswerRows DEF Answer, Step, Turns, RangesInv, Sound
<1>19. ASSUME NEW t \in Threads, Leave(t)
       PROVE  RangesInv'
  <2>1. sem' \in [Runs -> 0 .. PerSlot * NbSlots]
    BY <1>19, SemReleased DEF Leave
  <2> QED
    BY <1>19, <2>1, LeaveTurns DEF Leave, Step, Turns, RangesInv
<1> QED
  BY <1>1, <1>3, <1>4, <1>5, <1>6, <1>7, <1>8, <1>10, <1>11, <1>12,
     <1>13, <1>14, <1>15, <1>16, <1>17, <1>18, <1>19
     DEF Next, ByWindow, Coordinator, CheckFile

LEMMA OrderKept ==
  ASSUME RangesInv, OrderInv, Distinct, Next
  PROVE  OrderInv'
<1>0. \A t \in Threads : t[1] \in Runs /\ t[2] \in 0 .. MaxRows - 1
  BY ThreadFields
<1>1. CASE ByWindow
  BY <1>1, WindowOnly, WindowRows DEF Sound, OrderInv
<1>3. CASE StopFiles
  <2>1. UNCHANGED <<list, open, th>>
    BY <1>3 DEF StopFiles, listVars, semVars
  <2> QED
    BY <1>0, <1>3, <2>1, StopMoves DEF OrderInv, AtRow
<1>4. ASSUME NEW c \in Runs, StartFiles(c) \/ StartProcesses(c)
      PROVE  OrderInv'
  <2>1. PICK kind \in Lists : Begin(c, kind)
    BY <1>4 DEF StartFiles, StartProcesses, Lists
  <2>2. UNCHANGED <<list, open, th, disturbed>>
    BY <2>1 DEF Begin, listVars, semVars
  <2> QED
    BY <1>0, <2>1, <2>2, BeginMoves DEF OrderInv, AtRow
<1>5. ASSUME NEW c \in Runs, Create(c)
      PROVE  OrderInv'
  <2>1. UNCHANGED <<list, th>> /\ open' = open \union {c}
        /\ disturbed \subseteq disturbed' /\ run[c].pc = "create"
    BY <1>5 DEF Create, At, listVars
  <2> QED
    BY <1>0, <1>5, <2>1, CreateMoves DEF OrderInv, AtRow, Moves
<1>6. ASSUME NEW c \in Runs, Test(c)
      PROVE  OrderInv'
  <2>1. UNCHANGED <<list, open, th, disturbed>> /\ run[c].pc = "test"
    BY <1>6 DEF Test, At, listVars, semVars
  <2>2. run[c].i < Len(list[run[c].kind]) => run[c].i < MaxRows
    BY RunFields, RowFields DEF OrderInv
  <2> QED
    BY <1>0, <1>6, <2>1, <2>2, TestMoves DEF OrderInv, AtRow, Moves
<1>7. ASSUME NEW c \in Runs, TakePermit(c)
      PROVE  OrderInv'
  <2>1. UNCHANGED <<list, open, th, disturbed>> /\ run[c].pc = "permit"
    BY <1>7 DEF TakePermit, At, listVars
  <2> QED
    BY <1>0, <1>7, <2>1, PermitMoves DEF OrderInv, AtRow, Moves
<1>8. ASSUME NEW c \in Runs, TakeItem(c)
      PROVE  OrderInv'
  <2>1. UNCHANGED <<list, open, th, disturbed>> /\ run[c].pc = "item"
    BY <1>8 DEF TakeItem, At, listVars
  <2> QED
    BY <1>0, <1>8, <2>1, ItemMoves DEF OrderInv, AtRow, Moves
<1>9. ASSUME NEW c \in Runs, PutAsked(c)
      PROVE  OrderInv'
  <2>1. UNCHANGED <<list, open, disturbed>> /\ run[c].pc = "put"
    BY <1>9 DEF PutAsked, At, listVars, semVars
  <2> DEFINE t == <<c, run[c].i>>
  <2>2. /\ t \in Threads /\ t[1] = c /\ t[2] = run[c].i /\ run[c].i \in Nat
        /\ th'[t].pc = "read" /\ \A s \in Threads \ {t} : th'[s] = th[s]
    BY <1>9, PutTurns, RunFields DEF Turns
  <2> HIDE DEF t
  <2> QED
    BY <1>0, <1>9, <2>1, <2>2, PutMoves DEF OrderInv, AtRow, Moves
<1>10. ASSUME NEW c \in Runs, PutPassed(c)
       PROVE  OrderInv'
  <2>1. UNCHANGED <<list, open, th, disturbed>> /\ run[c].pc = "put"
        /\ run[c].i \in Nat
    BY <1>10, RunFields DEF PutPassed, At, listVars
  <2> QED
    BY <1>0, <1>10, <2>1, PutMoves DEF OrderInv, AtRow, Moves
<1>11. ASSUME NEW c \in Runs, Drain(c)
       PROVE  OrderInv'
  <2>1. UNCHANGED <<list, open, th, disturbed>> /\ run[c].pc = "drain"
    BY <1>11 DEF Drain, At, listVars
  <2> QED
    BY <1>0, <1>11, <2>1, DrainMoves DEF OrderInv, AtRow, Moves
<1>12. ASSUME NEW c \in Runs, CloseHandles(c)
       PROVE  OrderInv'
  <2>1. UNCHANGED <<list, th, disturbed>> /\ run[c].pc = "drain"
        /\ open' = open \ {gen}
    BY <1>12 DEF CloseHandles, At, listVars
  <2> QED
    BY <1>0, <1>12, <2>1, CloseMoves DEF OrderInv, AtRow, Moves
<1>13. ASSUME NEW c \in Runs, Clear(c)
       PROVE  OrderInv'
  <2>1. UNCHANGED <<list, open, th, disturbed>> /\ run[c].pc = "clear"
    BY <1>13 DEF Clear, At, listVars, semVars
  <2> QED
    BY <1>0, <1>13, <2>1, ClearMoves DEF OrderInv, AtRow, Moves
<1>14. ASSUME NEW t \in Threads, CheckFile(t)
       PROVE  OrderInv'
  <2>1. UNCHANGED <<run, open, disturbed>>
    BY <1>14 DEF CheckFile, ReadId, CopyId, NotAsked, ReadRow, Answer, Leave, Step
  <2>2. \A s \in Threads :
          IF th'[s].pc # "none" THEN th[s].pc # "none" ELSE th'[s] = th[s]
    <3>1. th[t].pc # "none"
      BY <1>14 DEF CheckFile, ReadId, CopyId, NotAsked, ReadRow, Answer, Leave, Step
    <3>2. th'[t].pc # "none" /\ \A s \in Threads \ {t} : th'[s] = th[s]
      BY <1>14, ReadIdTurns, NotAskedTurns, ReadRowTurns, AnswerTurns, LeaveTurns
         DEF CheckFile, Turns
    <3> QED
      BY <3>1, <3>2
  <2>3. \A k \in Lists : Len(list'[k]) <= MaxRows
    <3>1. CASE Answer(t)
      BY <3>1, AnswerRows DEF Sound
    <3>2. CASE ~Answer(t)
      BY <1>14, <3>2 DEF CheckFile, ReadId, NotAsked, ReadRow, Leave, OrderInv
    <3> QED
      BY <3>1, <3>2
  <2> QED
    BY <1>0, <2>1, <2>2, <2>3 DEF OrderInv
<1> QED
  BY <1>1, <1>3, <1>4, <1>5, <1>6, <1>7, <1>8, <1>9, <1>10, <1>11, <1>12,
     <1>13, <1>14
     DEF Next, ByWindow, Coordinator

(* A thread leaves the threads at work with its last step only.            *)
LEMMA CheckFileMine ==
  ASSUME RangesInv, NEW t \in Threads, CheckFile(t)
  PROVE  /\ Active(t) /\ t \in Mine(t[1])
         /\ ~Leave(t) => \A c : Mine(c)' = Mine(c)
         /\ \A c : Mine(c)' \subseteq Mine(c)
<1>1. th[t].pc \in {"read", "row", "ask", "leave"}
  BY DEF CheckFile, ReadId, CopyId, NotAsked, ReadRow, Answer, Leave, Step
<1>2. Active(t) /\ t \in Mine(t[1])
  BY <1>1 DEF Active, Mine
<1>3. CASE Leave(t)
  <2>1. th[t].pc = "leave"
    BY <1>3 DEF Leave, Step
  <2> QED
    BY <1>2, <1>3, <2>1, LeaveTurns, MineLoses
<1>4. CASE ~Leave(t)
  <2>1. \E pc \in {"row", "ask", "leave"} : \E j, id, row : Turns(t, pc, j, id, row)
    BY <1>4, ReadIdTurns, NotAskedTurns, ReadRowTurns, AnswerTurns DEF CheckFile
  <2> QED
    BY <1>1, <1>2, <1>4, <2>1, MineStays
<1> QED
  BY <1>3, <1>4
-----------------------------------------------------------------------------
(* While a coordinator or a thread is at work, no other run is that met no *)
(* other one.                                                              *)

LEMMA OneAtWork ==
  ASSUME AloneInv, NEW c \in Runs, NEW d \in Runs \ disturbed, d # c,
         run[c].pc \in AtWork \union {"clear"} \/ Mine(c) # {}
  PROVE  run[d].pc \notin AtWork \union {"clear"} /\ Mine(d) = {}
<1>1. run[d].pc \notin AtWork \union {"clear"}
  BY DEF AloneInv, AtWork
<1> QED
  BY <1>1 DEF AloneInv

LEMMA WorkIsAlone ==
  ASSUME AloneInv, NEW c \in Runs,
         run[c].pc \in AtWork \union {"clear"},
         \A d \in Runs \ {c} : run'[d] = run[d] /\ Mine(d)' = Mine(d),
         gen' = gen, open' \subseteq open, disturbed' = disturbed,
         c \notin disturbed =>
           /\ run'[c].pc \in AtWork => c \in open'
           /\ run'[c].pc \in AtRow \union {"drain"} => run'[c].want = c
           /\ run'[c].pc \notin AtWork => Mine(c)' = {}
           /\ run'[c].pc \in {"clear", "done"} => c \notin open'
  PROVE  AloneInv'
<1> SUFFICES ASSUME NEW d \in Runs, d \notin disturbed
             PROVE  /\ run'[d].pc \in AtWork \union {"clear"} =>
                         /\ gen' = d
                         /\ \A e \in Runs \ {d} :
                              run'[e].pc \in {"none", "create", "done", "dead"}
                              /\ Mine(e)' = {}
                    /\ run'[d].pc \in AtWork => d \in open'
                    /\ run'[d].pc \in AtRow \union {"drain"} => run'[d].want = d
                    /\ run'[d].pc \notin AtWork => Mine(d)' = {}
                    /\ run'[d].pc \in {"clear", "done"} => d \notin open'
  BY DEF AloneInv
<1>1. CASE d = c
  <2>1. /\ gen = c
        /\ \A e \in Runs \ {c} :
             run[e].pc \in {"none", "create", "done", "dead"} /\ Mine(e) = {}
    BY <1>1 DEF AloneInv
  <2> QED
    BY <1>1, <2>1
<1>2. CASE d # c
  <2>1. run[d].pc \notin AtWork \union {"clear"} /\ Mine(d) = {}
    BY <1>2, OneAtWork
  <2>2. run'[d] = run[d] /\ Mine(d)' = {}
    BY <1>2, <2>1
  <2>3. run[d].pc = "done" => d \notin open
    BY DEF AloneInv
  <2> QED
    BY <2>1, <2>2, <2>3 DEF AtRow, AtWork
<1> QED
  BY <1>1, <1>2

LEMMA AloneKept ==
  ASSUME RangesInv, OrderInv, AloneInv, PermitsInv, Next
  PROVE  AloneInv'
<1>1. CASE ByWindow
  <2>1. UNCHANGED <<run, th, gen, open, disturbed>>
    BY <1>1, WindowOnly
  <2> QED
    BY <2>1, MineSame DEF AloneInv
<1>2. CASE StopFiles
  <2>1. UNCHANGED <<th, gen, open>>
    BY <1>2 DEF StopFiles, semVars
  <2>2. \A d \in Runs : Mine(d)' = Mine(d)
    BY <2>1, MineSame
  <2> QED
    BY <1>2, <2>1, <2>2, StopMoves DEF AloneInv, AtRow, AtWork
<1>3. ASSUME NEW c \in Runs, StartFiles(c) \/ StartProcesses(c)
      PROVE  AloneInv'
  <2>1. PICK kind \in Lists : Begin(c, kind)
    BY <1>3 DEF StartFiles, StartProcesses, Lists
  <2>2. UNCHANGED <<th, gen, open, disturbed>>
    BY <2>1 DEF Begin, semVars
  <2>3. \A d \in Runs : Mine(d)' = Mine(d)
    BY <2>2, MineSame
  <2> QED
    BY <2>1, <2>2, <2>3, BeginMoves DEF AloneInv, AtRow, AtWork
<1>4. ASSUME NEW c \in Runs, Create(c)
      PROVE  AloneInv'
  <2> DEFINE others == {d \in Runs \ {c} : Busy(d)}
  <2>1. /\ UNCHANGED th /\ gen' = c /\ open' = open \union {c}
        /\ disturbed' = disturbed \union others
                          \union (IF others = {} THEN {} ELSE {c})
        /\ run[c].pc = "create"
    BY <1>4 DEF Create, At
  <2>2. \A d \in Runs : Mine(d)' = Mine(d)
    BY <2>1, MineSame
  <2>3. \A d \in Runs \ {c} :
          d \notin others => run[d].pc \in {"none", "done", "dead"} /\ Mine(d) = {}
    BY RunFields DEF Busy, Alive, Mine
  <2> HIDE DEF others
  <2>4. run'[c].pc = "test" /\ \A d \in Runs \ {c} : run'[d] = run[d]
    BY <1>4, CreateMoves DEF Moves
  <2> SUFFICES ASSUME NEW d \in Runs, d \notin disturbed'
               PROVE  /\ run'[d].pc \in AtWork \union {"clear"} =>
                           /\ gen' = d
                           /\ \A e \in Runs \ {d} :
                                run'[e].pc \in {"none", "create", "done", "dead"}
                                /\ Mine(e)' = {}
                      /\ run'[d].pc \in AtWork => d \in open'
                      /\ run'[d].pc \in AtRow \union {"drain"} => run'[d].want = d
                      /\ run'[d].pc \notin AtWork => Mine(d)' = {}
                      /\ run'[d].pc \in {"clear", "done"} => d \notin open'
    BY DEF AloneInv
  <2>5. CASE d = c
    <3>1. \A e \in Runs \ {c} : e \notin others
      BY <2>1, <2>5
    <3> QED
      BY <2>1, <2>2, <2>3, <2>4, <2>5, <3>1 DEF AtRow, AtWork
  <2>6. CASE d # c
    <3>1. d \notin disturbed /\ d \notin others
      BY <2>1
    <3>2. run[d].pc \in {"none", "done", "dead"} /\ Mine(d) = {}
      BY <2>3, <2>6, <3>1
    <3>3. run[d].pc = "done" => d \notin open
      BY <3>1 DEF AloneInv
    <3> QED
      BY <2>1, <2>2, <2>4, <2>6, <3>2, <3>3 DEF AtRow, AtWork
  <2> QED
    BY <2>5, <2>6
<1>5. ASSUME NEW c \in Runs, Test(c)
      PROVE  AloneInv'
  <2>1. UNCHANGED <<th, gen, open, disturbed>> /\ run[c].pc = "test"
    BY <1>5 DEF Test, At, semVars
  <2>2. \A d \in Runs : Mine(d)' = Mine(d)
    BY <2>1, MineSame
  <2>3. c \notin disturbed => gen = c /\ c \in open
    BY <2>1 DEF AloneInv, AtWork
  <2>4. /\ run'[c].pc \in {"permit", "drain"} /\ run'[c].want = gen
        /\ \A d \in Runs \ {c} : run'[d] = run[d]
    BY <1>5, TestMoves DEF Moves
  <2> QED
    BY <2>1, <2>2, <2>3, <2>4, WorkIsAlone DEF AtRow, AtWork
<1>6. ASSUME NEW c \in Runs, TakePermit(c) \/ TakeItem(c) \/ Drain(c)
      PROVE  AloneInv'
  <2>1. UNCHANGED <<th, gen, open, disturbed>>
        /\ run[c].pc \in {"permit", "item", "drain"}
    BY <1>6 DEF TakePermit, TakeItem, Drain, At
  <2>2. \A d \in Runs : Mine(d)' = Mine(d)
    BY <2>1, MineSame
  <2>3. c \notin disturbed => gen = c /\ c \in open /\ run[c].want = c
    BY <2>1 DEF AloneInv, AtRow, AtWork
  <2>4. /\ run'[c].pc \in {"item", "put", "drain"}
        /\ run'[c].want \in {gen, run[c].want}
        /\ \A d \in Runs \ {c} : run'[d] = run[d]
    BY <1>6, PermitMoves, ItemMoves, DrainMoves DEF Moves
  <2> QED
    BY <2>1, <2>2, <2>3, <2>4, WorkIsAlone DEF AtRow, AtWork
<1>7. ASSUME NEW c \in Runs, PutAsked(c) \/ PutPassed(c)
      PROVE  AloneInv'
  <2>1. UNCHANGED <<gen, open, disturbed>> /\ run[c].pc = "put"
    BY <1>7 DEF PutAsked, PutPassed, At, semVars
  <2>2. \A d \in Runs \ {c} : Mine(d)' = Mine(d)
    <3>1. CASE PutAsked(c)
      <4> DEFINE t == <<c, run[c].i>>
      <4>1. /\ t \in Threads /\ th[t].pc = "none" /\ t[1] = c
            /\ Turns(t, "read", SlotOf(c), 0, 0)
        BY <3>1, PutTurns
      <4> HIDE DEF t
      <4> QED
        BY <4>1, MineGains
    <3>2. CASE PutPassed(c)
      BY <3>2, MineSame DEF PutPassed
    <3> QED
      BY <1>7, <3>1, <3>2
  <2>3. c \notin disturbed => c \in open
    BY <2>1 DEF AloneInv, AtWork
  <2>4. run'[c].pc = "test" /\ \A d \in Runs \ {c} : run'[d] = run[d]
    BY <1>7, PutMoves DEF Moves
  <2> QED
    BY <2>1, <2>2, <2>3, <2>4, WorkIsAlone DEF AtRow, AtWork
<1>8. ASSUME NEW c \in Runs, CloseHandles(c)
      PROVE  AloneInv'
  <2>1. UNCHANGED <<th, gen, disturbed>> /\ open' = open \ {gen}
        /\ run[c].pc = "drain" /\ run[c].taken = Permits(run[c].kind)
    BY <1>8 DEF CloseHandles, At
  <2>2. \A d \in Runs : Mine(d)' = Mine(d)
    BY <2>1, MineSame
  <2>3. c \notin disturbed => gen = c /\ Mine(c) = {}
    <3> SUFFICES ASSUME c \notin disturbed PROVE gen = c /\ Mine(c) = {}
      OBVIOUS
    <3>1. gen = c
      BY <2>1 DEF AloneInv, AtWork
    <3>2. sem[c] + run[c].taken + Cardinality(Mine(c)) + 0 = Permits(run[c].kind)
      BY <2>1 DEF PermitsInv, AtWork
    <3>3. sem[c] \in Nat /\ run[c].taken \in Nat /\ Cardinality(Mine(c)) \in Nat
      BY RunFields, MineFinite, PermitsRange DEF RangesInv
    <3>4. Cardinality(Mine(c)) = 0
      BY <2>1, <3>2, <3>3
    <3> QED
      BY <3>1, <3>4, NoneAtWork
  <2>4. run'[c].pc = "clear" /\ \A d \in Runs \ {c} : run'[d] = run[d]
    BY <1>8, CloseMoves DEF Moves
  <2> QED
    BY <2>1, <2>2, <2>3, <2>4, WorkIsAlone DEF AtRow, AtWork
<1>9. ASSUME NEW c \in Runs, Clear(c)
      PROVE  AloneInv'
  <2>1. UNCHANGED <<th, gen, open, disturbed>> /\ run[c].pc = "clear"
    BY <1>9 DEF Clear, At, semVars
  <2>2. \A d \in Runs : Mine(d)' = Mine(d)
    BY <2>1, MineSame
  <2>3. c \notin disturbed => Mine(c) = {} /\ c \notin open
    BY <2>1 DEF AloneInv, AtWork
  <2>4. run'[c].pc = "done" /\ \A d \in Runs \ {c} : run'[d] = run[d]
    BY <1>9, ClearMoves DEF Moves
  <2> QED
    BY <2>1, <2>2, <2>3, <2>4, WorkIsAlone DEF AtRow, AtWork
<1>10. ASSUME NEW t \in Threads, CheckFile(t)
       PROVE  AloneInv'
  <2>1. UNCHANGED <<run, gen, open, disturbed>>
    BY <1>10 DEF CheckFile, ReadId, CopyId, NotAsked, ReadRow, Answer, Leave, Step
  <2>2. \A c : Mine(c)' \subseteq Mine(c)
    BY <1>10, CheckFileMine
  <2> QED
    BY <2>1, <2>2 DEF AloneInv
<1> QED
  BY <1>1, <1>2, <1>3, <1>4, <1>5, <1>6, <1>7, <1>8, <1>9, <1>10
     DEF Next, ByWindow, Coordinator
-----------------------------------------------------------------------------
Held(c) ==
  sem[c] + run[c].taken + Cardinality(Mine(c))
    + (IF run[c].pc \in {"item", "put"} THEN 1 ELSE 0)

LEMMA PermitsHeld ==
  /\ PermitsInv <=> \A c \in Runs \ disturbed :
                      run[c].pc \in AtWork => Held(c) = Permits(run[c].kind)
  /\ PermitsInv' <=> \A c \in Runs \ disturbed' :
                       run'[c].pc \in AtWork => Held(c)' = Permits(run'[c].kind)
BY DEF PermitsInv, Held, Permits

(* Only the step of the coordinator at work has to be looked at.           *)
LEMMA WorkHoldsPermits ==
  ASSUME AloneInv, PermitsInv, NEW c \in Runs,
         run[c].pc \in AtWork \union {"clear"},
         \A d \in Runs \ {c} : run'[d] = run[d],
         disturbed' = disturbed,
         c \notin disturbed /\ run'[c].pc \in AtWork =>
           Held(c)' = Permits(run'[c].kind)
  PROVE  PermitsInv'
<1> SUFFICES ASSUME NEW d \in Runs \ disturbed, run'[d].pc \in AtWork
             PROVE  Held(d)' = Permits(run'[d].kind)
  BY PermitsHeld
<1>1. CASE d # c
  BY <1>1, OneAtWork
<1> QED
  BY <1>1

LEMMA PermitsKept ==
  ASSUME RangesInv, OrderInv, AloneInv, PermitsInv, Next
  PROVE  PermitsInv'
<1>1. CASE ByWindow
  <2>1. UNCHANGED <<run, th, sem, disturbed>>
    BY <1>1, WindowOnly
  <2> QED
    BY <2>1, MineSame DEF PermitsInv, Permits
<1>2. CASE StopFiles
  <2>1. UNCHANGED <<th, sem>>
    BY <1>2 DEF StopFiles, semVars
  <2>2. \A d \in Runs : Mine(d)' = Mine(d)
    BY <2>1, MineSame
  <2>3. \A d \in Runs \ disturbed' :
          /\ d \in Runs \ disturbed
          /\ run'[d].pc = run[d].pc /\ run'[d].kind = run[d].kind
          /\ run'[d].taken = run[d].taken
    BY <1>2, StopMoves
  <2> QED
    BY <2>1, <2>2, <2>3, PermitsHeld DEF Held
<1>3. ASSUME NEW c \in Runs, StartFiles(c) \/ StartProcesses(c)
      PROVE  PermitsInv'
  <2>1. PICK kind \in Lists : Begin(c, kind)
    BY <1>3 DEF StartFiles, StartProcesses, Lists
  <2>2. UNCHANGED <<th, sem, disturbed>>
    BY <2>1 DEF Begin, semVars
  <2>3. \A d \in Runs : Mine(d)' = Mine(d)
    BY <2>2, MineSame
  <2>4. run'[c].pc \notin AtWork /\ \A d \in Runs \ {c} : run'[d] = run[d]
    BY <2>1, BeginMoves DEF AtWork
  <2> QED
    BY <2>2, <2>3, <2>4, PermitsHeld DEF Held
<1>4. ASSUME NEW c \in Runs, Create(c)
      PROVE  PermitsInv'
  <2> DEFINE others == {d \in Runs \ {c} : Busy(d)}
  <2>1. /\ UNCHANGED th /\ run[c].pc = "create"
        /\ disturbed' = disturbed \union others
                          \union (IF others = {} THEN {} ELSE {c})
        /\ sem' = [sem EXCEPT ![c] = Permits(run[c].kind)]
    BY <1>4 DEF Create, At
  <2>2. \A d \in Runs \ {c} : d \notin others => run[d].pc \notin AtWork
    BY DEF Busy, Alive, AtWork
  <2> HIDE DEF others
  <2>3. /\ run'[c].pc = "test" /\ run'[c].kind = run[c].kind
        /\ run'[c].taken = 0
        /\ \A d \in Runs \ {c} : run'[d] = run[d]
    BY <1>4, <2>1, CreateMoves DEF Moves, OrderInv
  <2> SUFFICES ASSUME NEW d \in Runs \ disturbed', run'[d].pc \in AtWork
               PROVE  Held(d)' = Permits(run'[d].kind)
    BY PermitsHeld
  <2>4. d = c
    BY <2>1, <2>2, <2>3
  <2>5. Mine(c)' = {}
    BY <2>1, <2>4, MineSame DEF AloneInv, AtWork
  <2>6. Cardinality({}) = 0
    BY FS_EmptySet
  <2>7. sem'[c] = Permits(run[c].kind)
    BY <2>1 DEF RangesInv
  <2>8. Permits(run[c].kind) + 0 + 0 + 0 = Permits(run[c].kind)
    BY PermitsRange
  <2> QED
    BY <2>3, <2>4, <2>5, <2>6, <2>7, <2>8 DEF Held
<1>5. ASSUME NEW c \in Runs, Test(c)
      PROVE  PermitsInv'
  <2>1. UNCHANGED <<th, sem, disturbed>> /\ run[c].pc = "test"
    BY <1>5 DEF Test, At, semVars
  <2>2. Mine(c)' = Mine(c)
    BY <2>1, MineSame
  <2>3. /\ run'[c].pc \in {"permit", "drain"}
        /\ run'[c].kind = run[c].kind /\ run'[c].taken = run[c].taken
        /\ \A d \in Runs \ {c} : run'[d] = run[d]
    BY <1>5, TestMoves DEF Moves
  <2>4. c \notin disturbed => Held(c) = Permits(run[c].kind)
    BY <2>1, PermitsHeld DEF AtWork
  <2>5. Held(c)' = Held(c)
    BY <2>1, <2>2, <2>3 DEF Held
  <2> QED
    BY <2>1, <2>3, <2>4, <2>5, WorkHoldsPermits DEF AtWork
<1>6. ASSUME NEW c \in Runs, TakePermit(c)
      PROVE  PermitsInv'
  <2>1. UNCHANGED <<th, disturbed>> /\ run[c].pc = "permit"
        /\ Acquire(sem, run[c].want)
    BY <1>6 DEF TakePermit, At
  <2>2. Mine(c)' = Mine(c) /\ Cardinality(Mine(c)) \in Nat
    BY <2>1, MineSame, MineFinite
  <2>3. /\ run'[c].pc = "item"
        /\ run'[c].kind = run[c].kind /\ run'[c].taken = run[c].taken
        /\ \A d \in Runs \ {c} : run'[d] = run[d]
    BY <1>6, PermitMoves DEF Moves
  <2>4. c \notin disturbed => Held(c)' = Held(c) /\ Held(c) = Permits(run[c].kind)
    <3> SUFFICES ASSUME c \notin disturbed
                 PROVE  Held(c)' = Held(c) /\ Held(c) = Permits(run[c].kind)
      OBVIOUS
    <3>1. run[c].want = c /\ c \in open
      BY <2>1 DEF AloneInv, AtRow, AtWork
    <3>2. sem'[c] = sem[c] - 1 /\ sem[c] \in Nat
      BY <2>1, <3>1, SemAcquired, PermitsRange DEF RangesInv
    <3>3. run[c].taken \in Nat
      BY RunFields, PermitsRange
    <3>4. Held(c)' = Held(c)
      BY <2>1, <2>2, <2>3, <3>2, <3>3 DEF Held
    <3> QED
      BY <2>1, <3>4, PermitsHeld DEF AtWork
  <2> QED
    BY <2>1, <2>3, <2>4, WorkHoldsPermits DEF AtWork
<1>7. ASSUME NEW c \in Runs, TakeItem(c)
      PROVE  PermitsInv'
  <2>1. UNCHANGED <<th, sem, disturbed>> /\ run[c].pc = "item"
    BY <1>7 DEF TakeItem, At
  <2>2. Mine(c)' = Mine(c)
    BY <2>1, MineSame
  <2>3. /\ run'[c].pc = "put"
        /\ run'[c].kind = run[c].kind /\ run'[c].taken = run[c].taken
        /\ \A d \in Runs \ {c} : run'[d] = run[d]
    BY <1>7, ItemMoves DEF Moves
  <2>4. c \notin disturbed => Held(c) = Permits(run[c].kind)
    BY <2>1, PermitsHeld DEF AtWork
  <2>5. Held(c)' = Held(c)
    BY <2>1, <2>2, <2>3 DEF Held
  <2> QED
    BY <2>1, <2>3, <2>4, <2>5, WorkHoldsPermits DEF AtWork
<1>8. ASSUME NEW c \in Runs, PutAsked(c)
      PROVE  PermitsInv'
  <2>1. UNCHANGED <<sem, disturbed>> /\ run[c].pc = "put"
    BY <1>8 DEF PutAsked, At, semVars
  <2>2. /\ run'[c].pc = "test"
        /\ run'[c].kind = run[c].kind /\ run'[c].taken = run[c].taken
        /\ \A d \in Runs \ {c} : run'[d] = run[d]
    BY <1>8, PutMoves DEF Moves
  <2> DEFINE t == <<c, run[c].i>>
  <2>3. /\ t \in Threads /\ th[t].pc = "none" /\ t[1] = c
        /\ Turns(t, "read", SlotOf(c), 0, 0)
    BY <1>8, PutTurns
  <2> HIDE DEF t
  <2>4. Cardinality(Mine(c))' = Cardinality(Mine(c)) + 1
    BY <2>3, MineGains
  <2>5. sem[c] \in Nat /\ run[c].taken \in Nat /\ Cardinality(Mine(c)) \in Nat
    BY RunFields, PermitsRange, MineFinite DEF RangesInv
  <2>6. Held(c)' = Held(c)
    BY <2>1, <2>2, <2>4, <2>5 DEF Held
  <2>7. c \notin disturbed => Held(c) = Permits(run[c].kind)
    BY <2>1, PermitsHeld DEF AtWork
  <2> QED
    BY <2>1, <2>2, <2>6, <2>7, WorkHoldsPermits DEF AtWork
<1>9. ASSUME NEW c \in Runs, PutPassed(c)
      PROVE  PermitsInv'
  <2>1. UNCHANGED <<th, disturbed>> /\ run[c].pc = "put"
        /\ sem' = Released(sem, Permits(run[gen].kind))
    BY <1>9 DEF PutPassed, At
  <2>2. Mine(c)' = Mine(c)
    BY <2>1, MineSame
  <2>3. /\ run'[c].pc = "test"
        /\ run'[c].kind = run[c].kind /\ run'[c].taken = run[c].taken
        /\ \A d \in Runs \ {c} : run'[d] = run[d]
    BY <1>9, PutMoves DEF Moves
  <2>4. c \notin disturbed => Held(c)' = Held(c) /\ Held(c) = Permits(run[c].kind)
    <3> SUFFICES ASSUME c \notin disturbed
                 PROVE  Held(c)' = Held(c) /\ Held(c) = Permits(run[c].kind)
      OBVIOUS
    <3>1. gen = c /\ c \in open
      BY <2>1 DEF AloneInv, AtWork
    <3>2. Held(c) = Permits(run[c].kind)
      BY <2>1, PermitsHeld DEF AtWork
    <3>3. /\ sem[c] \in Nat /\ run[c].taken \in Nat /\ Cardinality(Mine(c)) \in Nat
          /\ Permits(run[c].kind) \in Nat
      BY RunFields, PermitsRange, MineFinite DEF RangesInv
    <3>4. sem[c] < Permits(run[c].kind)
      BY <2>1, <3>2, <3>3 DEF Held
    <3>5. sem'[c] = sem[c] + 1
      BY <2>1, <3>1, <3>4, SemReleased
    <3>6. Held(c)' = Held(c)
      BY <2>1, <2>2, <2>3, <3>3, <3>5 DEF Held
    <3> QED
      BY <3>2, <3>6
  <2> QED
    BY <2>1, <2>3, <2>4, WorkHoldsPermits DEF AtWork
<1>10. ASSUME NEW c \in Runs, Drain(c)
       PROVE  PermitsInv'
  <2>1. UNCHANGED <<th, disturbed>> /\ run[c].pc = "drain"
        /\ Acquire(sem, run[c].want)
    BY <1>10 DEF Drain, At
  <2>2. Mine(c)' = Mine(c) /\ Cardinality(Mine(c)) \in Nat
    BY <2>1, MineSame, MineFinite
  <2>3. /\ run'[c].pc = "drain"
        /\ run'[c].kind = run[c].kind /\ run'[c].taken = run[c].taken + 1
        /\ \A d \in Runs \ {c} : run'[d] = run[d]
    BY <1>10, DrainMoves DEF Moves
  <2>4. c \notin disturbed => Held(c)' = Held(c) /\ Held(c) = Permits(run[c].kind)
    <3> SUFFICES ASSUME c \notin disturbed
                 PROVE  Held(c)' = Held(c) /\ Held(c) = Permits(run[c].kind)
      OBVIOUS
    <3>1. run[c].want = c /\ c \in open
      BY <2>1 DEF AloneInv, AtRow, AtWork
    <3>2. sem'[c] = sem[c] - 1 /\ sem[c] \in Nat
      BY <2>1, <3>1, SemAcquired, PermitsRange DEF RangesInv
    <3>3. run[c].taken \in Nat
      BY RunFields, PermitsRange
    <3>4. Held(c)' = Held(c)
      BY <2>1, <2>2, <2>3, <3>2, <3>3 DEF Held
    <3> QED
      BY <2>1, <3>4, PermitsHeld DEF AtWork
  <2> QED
    BY <2>1, <2>3, <2>4, WorkHoldsPermits DEF AtWork
<1>11. ASSUME NEW c \in Runs, CloseHandles(c)
       PROVE  PermitsInv'
  <2>1. disturbed' = disturbed /\ run[c].pc = "drain"
    BY <1>11 DEF CloseHandles, At
  <2>2. run'[c].pc = "clear" /\ \A d \in Runs \ {c} : run'[d] = run[d]
    BY <1>11, CloseMoves DEF Moves
  <2> QED
    BY <2>1, <2>2, WorkHoldsPermits DEF AtWork
<1>12. ASSUME NEW c \in Runs, Clear(c)
       PROVE  PermitsInv'
  <2>1. disturbed' = disturbed /\ run[c].pc = "clear"
    BY <1>12 DEF Clear, At
  <2>2. run'[c].pc = "done" /\ \A d \in Runs \ {c} : run'[d] = run[d]
    BY <1>12, ClearMoves DEF Moves
  <2> QED
    BY <2>1, <2>2, WorkHoldsPermits DEF AtWork
<1>13. ASSUME NEW t \in Threads, CheckFile(t), ~Leave(t)
       PROVE  PermitsInv'
  <2>1. UNCHANGED <<run, sem, disturbed>>
    BY <1>13 DEF CheckFile, ReadId, CopyId, NotAsked, ReadRow, Answer, Step
  <2>2. \A c : Mine(c)' = Mine(c)
    BY <1>13, CheckFileMine
  <2> QED
    BY <2>1, <2>2, PermitsHeld DEF Held
<1>14. ASSUME NEW t \in Threads, Leave(t)
       PROVE  PermitsInv'
  <2>1. UNCHANGED <<run, disturbed>> /\ th[t].pc = "leave"
        /\ sem' = Released(sem, Permits(run[gen].kind))
    BY <1>14 DEF Leave, Step
  <2>2. /\ t \in Mine(t[1])
        /\ Cardinality(Mine(t[1]))' = Cardinality(Mine(t[1])) - 1
        /\ Cardinality(Mine(t[1])) > 0
    BY <1>14, <2>1, LeaveTurns, MineLoses
  <2> SUFFICES ASSUME NEW c \in Runs \ disturbed, run[c].pc \in AtWork
               PROVE  Held(c)' = Permits(run[c].kind)
    BY <2>1, PermitsHeld
  <2>3. c = t[1]
    BY <2>2, ThreadFields, OneAtWork
  <2>4. gen = c /\ c \in open
    BY DEF AloneInv
  <2>5. Held(c) = Permits(run[c].kind)
    BY PermitsHeld
  <2>6. /\ sem[c] \in Nat /\ run[c].taken \in Nat /\ Cardinality(Mine(c)) \in Nat
        /\ Permits(run[c].kind) \in Nat
    BY RunFields, PermitsRange, MineFinite DEF RangesInv
  <2>7. sem[c] < Permits(run[c].kind)
    BY <2>2, <2>3, <2>5, <2>6 DEF Held
  <2>8. sem'[c] = sem[c] + 1
    BY <2>1, <2>4, <2>7, SemReleased
  <2> QED
    BY <2>1, <2>2, <2>3, <2>5, <2>6, <2>8 DEF Held
<1> QED
  BY <1>1, <1>2, <1>3, <1>4, <1>5, <1>6, <1>7, <1>8, <1>9, <1>10, <1>11, <1>12,
     <1>13, <1>14
     DEF Next, ByWindow, Coordinator, CheckFile
-----------------------------------------------------------------------------
(* The threads of c that have not copied their number.                     *)
Reads(c, t) == t[1] = c /\ th[t].pc = "read"

(* What HandOver says of one run.                                          *)
HandedOver(c) ==
  /\ run[c].pc = "put" =>
       item[c] = 0 /\ \A t \in Threads : ~Reads(c, t)
  /\ \A t \in Threads : Reads(c, t) =>
       /\ item[c] = 0
       /\ slot[c][th[t].j] = t[2]
       /\ \A s \in Threads : Reads(c, s) => s = t

LEMMA HandOverIs ==
  /\ HandOver <=> \A c \in Runs \ disturbed : HandedOver(c)
  /\ HandOver' <=> \A c \in Runs \ disturbed' : HandedOver(c)'
BY DEF HandOver, HandedOver, Reads

(* Where nobody works, nothing is handed over.                             *)
LEMMA IdleHandsNothing ==
  ASSUME NEW c \in Runs
  PROVE  /\ run[c].pc # "put" /\ Mine(c) = {} => HandedOver(c)
         /\ run'[c].pc # "put" /\ Mine(c)' = {} => HandedOver(c)'
BY DEF HandedOver, Reads, Mine, Active

LEMMA WorkHandsOver ==
  ASSUME AloneInv, HandOver, NEW c \in Runs,
         run[c].pc \in AtWork \union {"clear"} \/ Mine(c) # {},
         \A d \in Runs \ {c} : run'[d] = run[d] /\ Mine(d)' = Mine(d),
         disturbed' = disturbed,
         c \notin disturbed => HandedOver(c)'
  PROVE  HandOver'
<1> SUFFICES ASSUME NEW d \in Runs \ disturbed, d # c
             PROVE  HandedOver(d)'
  BY HandOverIs
<1>1. run[d].pc \notin AtWork \union {"clear"} /\ Mine(d) = {}
  BY OneAtWork
<1> QED
  BY <1>1, IdleHandsNothing DEF AtWork

LEMMA HandOverKept ==
  ASSUME RangesInv, OrderInv, AloneInv, PermitsInv, HandOver, Next
  PROVE  HandOver'
<1>1. CASE ByWindow
  <2>1. UNCHANGED <<run, th, item, slot, disturbed>>
    BY <1>1, WindowOnly
  <2> QED
    BY <2>1 DEF HandOver
<1>2. CASE StopFiles
  <2>1. UNCHANGED <<th, item, slot>>
    BY <1>2 DEF StopFiles, semVars
  <2>2. \A d \in Runs \ disturbed' :
          d \in Runs \ disturbed /\ run'[d].pc = run[d].pc
    BY <1>2, StopMoves
  <2> QED
    BY <2>1, <2>2, HandOverIs DEF HandedOver, Reads
<1>3. ASSUME NEW c \in Runs, StartFiles(c) \/ StartProcesses(c)
      PROVE  HandOver'
  <2>1. PICK kind \in Lists : Begin(c, kind)
    BY <1>3 DEF StartFiles, StartProcesses, Lists
  <2>2. UNCHANGED <<th, item, slot, disturbed>>
    BY <2>1 DEF Begin, semVars
  <2>3. \A d \in Runs : run'[d].pc = "put" => run[d].pc = "put"
    BY <2>1, BeginMoves
  <2> QED
    BY <2>2, <2>3, HandOverIs DEF HandedOver, Reads
<1>4. ASSUME NEW c \in Runs, Create(c)
      PROVE  HandOver'
  <2> DEFINE others == {d \in Runs \ {c} : Busy(d)}
  <2>1. /\ UNCHANGED th /\ run[c].pc = "create"
        /\ disturbed' = disturbed \union others
                          \union (IF others = {} THEN {} ELSE {c})
    BY <1>4 DEF Create, At
  <2>2. \A d \in Runs \ {c} :
          d \notin others => run[d].pc # "put" /\ Mine(d) = {}
    BY DEF Busy, Alive, Mine
  <2> HIDE DEF others
  <2>3. run'[c].pc = "test" /\ \A d \in Runs \ {c} : run'[d] = run[d]
    BY <1>4, CreateMoves DEF Moves
  <2> SUFFICES ASSUME NEW d \in Runs \ disturbed'
               PROVE  HandedOver(d)'
    BY HandOverIs
  <2>4. run'[d].pc # "put"
    BY <2>1, <2>2, <2>3
  <2>5. Mine(d) = {}
    BY <2>1, <2>2 DEF AloneInv, AtWork
  <2> QED
    BY <2>1, <2>4, <2>5, MineSame, IdleHandsNothing
<1>5. ASSUME NEW c \in Runs,
             Test(c) \/ TakePermit(c) \/ Drain(c) \/ CloseHandles(c) \/ Clear(c)
      PROVE  HandOver'
  <2>1. UNCHANGED <<th, slot, disturbed>> /\ run[c].pc \in AtWork \union {"clear"}
    BY <1>5 DEF Test, TakePermit, Drain, CloseHandles, Clear, At, semVars, AtWork
  <2>2. \A d \in Runs : Mine(d)' = Mine(d)
    BY <2>1, MineSame
  <2>3. run'[c].pc # "put" /\ \A d \in Runs \ {c} : run'[d] = run[d]
    BY <1>5, TestMoves, PermitMoves, DrainMoves, CloseMoves, ClearMoves DEF Moves
  <2>4. item' = item \/ item' = [item EXCEPT ![gen] = 0]
    BY <1>5 DEF Test, TakePermit, Drain, CloseHandles, Clear, semVars
  <2>5. item[c] = 0 => item'[c] = 0
    BY <2>4 DEF RangesInv
  <2>6. c \notin disturbed => HandedOver(c)'
    BY <2>1, <2>3, <2>5, HandOverIs DEF HandedOver, Reads
  <2> QED
    BY <2>1, <2>2, <2>3, <2>6, WorkHandsOver
<1>6. ASSUME NEW c \in Runs, TakeItem(c)
      PROVE  HandOver'
  <2>1. UNCHANGED <<th, slot, disturbed>> /\ run[c].pc = "item"
        /\ Acquire(item, run[c].want)
    BY <1>6 DEF TakeItem, At
  <2>2. \A d \in Runs : Mine(d)' = Mine(d)
    BY <2>1, MineSame
  <2>3. \A d \in Runs \ {c} : run'[d] = run[d]
    BY <1>6, ItemMoves DEF Moves
  <2>4. c \notin disturbed => HandedOver(c)'
    <3> SUFFICES ASSUME c \notin disturbed PROVE HandedOver(c)'
      OBVIOUS
    <3>1. run[c].want = c /\ c \in open
      BY <2>1 DEF AloneInv, AtRow, AtWork
    <3>2. item[c] = 1 /\ item'[c] = 0
      BY <2>1, <3>1, ItemAcquired
    <3>3. \A t \in Threads : ~Reads(c, t)
      BY <3>2, HandOverIs DEF HandedOver
    <3> QED
      BY <2>1, <3>2, <3>3 DEF HandedOver, Reads
  <2> QED
    BY <2>1, <2>2, <2>3, <2>4, WorkHandsOver DEF AtWork
<1>7. ASSUME NEW c \in Runs, PutAsked(c)
      PROVE  HandOver'
  <2>1. UNCHANGED <<item, disturbed>> /\ run[c].pc = "put"
        /\ slot' = [slot EXCEPT ![c][SlotOf(c)] = run[c].i]
    BY <1>7 DEF PutAsked, At, semVars
  <2>2. run'[c].pc = "test" /\ \A d \in Runs \ {c} : run'[d] = run[d]
    BY <1>7, PutMoves DEF Moves
  <2> DEFINE t == <<c, run[c].i>>
  <2>3. /\ t \in Threads /\ th[t].pc = "none" /\ t[1] = c /\ t[2] = run[c].i
        /\ Turns(t, "read", SlotOf(c), 0, 0)
    BY <1>7, PutTurns
  <2> HIDE DEF t
  <2>4. \A d \in Runs \ {c} : Mine(d)' = Mine(d)
    BY <2>3, MineGains
  <2>5. slot'[c][SlotOf(c)] = run[c].i
    BY <2>1, SlotOfRange DEF RangesInv
  <2>6. c \notin disturbed => HandedOver(c)'
    <3> SUFFICES ASSUME c \notin disturbed PROVE HandedOver(c)'
      OBVIOUS
    <3>1. item[c] = 0 /\ \A s \in Threads : ~Reads(c, s)
      BY <2>1, HandOverIs DEF HandedOver
    <3>2. \A s \in Threads : Reads(c, s)' => s = t
      BY <2>3, <3>1 DEF Reads, Turns
    <3>3. slot'[c][th'[t].j] = t[2]
      BY <2>3, <2>5 DEF Turns
    <3> QED
      BY <2>1, <2>2, <3>1, <3>2, <3>3 DEF HandedOver
  <2> QED
    BY <2>1, <2>2, <2>4, <2>6, WorkHandsOver DEF AtWork
<1>8. ASSUME NEW c \in Runs, PutPassed(c)
      PROVE  HandOver'
  <2>1. UNCHANGED <<th, disturbed>> /\ run[c].pc = "put"
    BY <1>8 DEF PutPassed, At
  <2>2. run'[c].pc = "test" /\ \A d \in Runs \ {c} : run'[d] = run[d]
    BY <1>8, PutMoves DEF Moves
  <2>3. \A d \in Runs : Mine(d)' = Mine(d)
    BY <2>1, MineSame
  <2>4. c \notin disturbed => HandedOver(c)'
    <3> SUFFICES ASSUME c \notin disturbed PROVE HandedOver(c)'
      OBVIOUS
    <3>1. \A s \in Threads : ~Reads(c, s)
      BY <2>1, HandOverIs DEF HandedOver
    <3> QED
      BY <2>1, <2>2, <3>1 DEF HandedOver, Reads
  <2> QED
    BY <2>1, <2>2, <2>3, <2>4, WorkHandsOver DEF AtWork
<1>9. ASSUME NEW t \in Threads, CheckFile(t)
      PROVE  HandOver'
  <2> DEFINE c == t[1]
  <2>1. c \in Runs
    BY ThreadFields
  <2>2. UNCHANGED <<run, slot, disturbed>>
    BY <1>9 DEF CheckFile, ReadId, CopyId, NotAsked, ReadRow, Answer, Leave, Step
  <2>3. Mine(c) # {} /\ \A d \in Runs \ {c} : Mine(d)' = Mine(d)
    <3>1. CASE Leave(t)
      <4>1. th[t].pc = "leave"
        BY <3>1 DEF Leave, Step
      <4> QED
        BY <3>1, <4>1, LeaveTurns, MineLoses
    <3>2. CASE ~Leave(t)
      BY <1>9, <3>2, CheckFileMine
    <3> QED
      BY <3>1, <3>2
  <2>4. /\ th'[t].pc # "read"
        /\ \A s \in Threads \ {t} : th'[s] = th[s]
    BY <1>9, ReadIdTurns, NotAskedTurns, ReadRowTurns, AnswerTurns, LeaveTurns
       DEF CheckFile, Turns
  <2>5. ReadId(t) \/ item' = item
    BY <1>9 DEF CheckFile, NotAsked, ReadRow, Answer, Leave
  <2>6. c \notin disturbed => HandedOver(c)'
    <3> SUFFICES ASSUME c \notin disturbed PROVE HandedOver(c)'
      OBVIOUS
    <3>1. HandedOver(c)
      BY <2>1, HandOverIs
    <3>2. CASE ReadId(t)
      <4>1. Reads(c, t)
        BY <3>2 DEF ReadId, CopyId, Step, Reads
      <4>2. run[c].pc # "put" /\ \A s \in Threads : Reads(c, s) => s = t
        BY <3>1, <4>1 DEF HandedOver
      <4>3. \A s \in Threads : ~Reads(c, s)'
        BY <2>4, <4>2 DEF Reads
      <4> QED
        BY <2>2, <4>2, <4>3 DEF HandedOver
    <3>3. CASE item' = item
      <4>1. \A s \in Threads : Reads(c, s)' => Reads(c, s) /\ th'[s] = th[s]
        BY <2>4 DEF Reads
      <4> QED
        BY <2>2, <3>1, <3>3, <4>1 DEF HandedOver
    <3> QED
      BY <2>5, <3>2, <3>3
  <2> QED
    BY <2>1, <2>2, <2>3, <2>6, WorkHandsOver
<1> QED
  BY <1>1, <1>2, <1>3, <1>4, <1>5, <1>6, <1>7, <1>8, <1>9
     DEF Next, ByWindow, Coordinator
-----------------------------------------------------------------------------
(* Who has been disturbed or stirred stays so.                             *)
LEMMA HistoryGrows ==
  ASSUME RangesInv, OrderInv, Distinct, Next
  PROVE  disturbed \subseteq disturbed' /\ stirred \subseteq stirred'
<1>1. CASE ByWindow
  BY <1>1, WindowOnly, WindowRows
<1>2. CASE \E c \in Runs : Create(c)
  BY <1>2 DEF Create, At, listVars
<1>3. CASE StopFiles
  BY <1>3 DEF StopFiles, listVars
<1>4. CASE ~ByWindow /\ ~StopFiles /\ ~\E c \in Runs : Create(c)
  BY <1>4 DEF Next, ByWindow, StartFiles, StartProcesses, Begin, Coordinator,
              Test, TakePermit, TakeItem, PutAsked, PutPassed, Drain,
              CloseHandles, Clear, At, CheckFile, ReadId, CopyId, NotAsked,
              ReadRow, Answer, Leave, Step, listVars
<1> QED
  BY <1>1, <1>2, <1>3, <1>4

(* Only the window and the answers write rows.                             *)
LEMMA ListsKept ==
  ASSUME Next, ~ByWindow, \A t \in Threads : ~Answer(t)
  PROVE  list' = list
BY DEF Next, ByWindow, StopFiles, StartFiles, StartProcesses, Begin, Coordinator,
       Create, Test, TakePermit, TakeItem, PutAsked, PutPassed, Drain,
       CloseHandles, Clear, At, CheckFile, ReadId, CopyId, NotAsked, ReadRow,
       Leave, Step, listVars

LEMMA DistinctKept ==
  ASSUME RangesInv, OrderInv, Distinct, Next
  PROVE  Distinct'
<1>1. Sound(list) => Distinct
  BY DEF Sound, Distinct
<1>2. Sound(list') => Distinct'
  BY DEF Sound, Distinct
<1>3. CASE ByWindow
  BY <1>2, <1>3, WindowRows
<1>4. CASE \E t \in Threads : Answer(t)
  BY <1>2, <1>4, AnswerRows
<1>5. CASE ~ByWindow /\ \A t \in Threads : ~Answer(t)
  BY <1>5, ListsKept DEF Distinct
<1> QED
  BY <1>3, <1>4, <1>5

LEMMA NumbersKept ==
  ASSUME RangesInv, OrderInv, Distinct, HandOver, NumbersInv, Next
  PROVE  NumbersInv'
<1> SUFFICES ASSUME NEW t \in Threads, t[1] \notin disturbed',
                    th'[t].pc \in {"row", "ask"}
             PROVE  th'[t].id = t[2]
  BY DEF NumbersInv
<1>1. t[1] \in Runs /\ t[1] \notin disturbed
  BY ThreadFields, HistoryGrows
<1>2. th[t].pc \in {"row", "ask"} => th[t].id = t[2]
  BY <1>1 DEF NumbersInv
<1>3. CASE th'[t] = th[t]
  BY <1>2, <1>3
<1>4. ASSUME NEW c \in Runs, PutAsked(c)
      PROVE  th'[t] = th[t]
  BY <1>4, PutTurns DEF Turns
<1>5. ASSUME NEW s \in Threads, CheckFile(s)
      PROVE  th'[t].id = t[2]
  <2>1. CASE s # t
    <3>1. th'[t] = th[t]
      BY <1>5, <2>1, ReadIdTurns, NotAskedTurns, ReadRowTurns, AnswerTurns,
         LeaveTurns DEF CheckFile, Turns
    <3> QED
      BY <1>2, <3>1
  <2>2. CASE s = t /\ ReadId(s)
    <3>1. th[t].pc = "read" /\ th'[t].id = slot[t[1]][th[t].j]
      BY <2>2, ReadIdTurns DEF ReadId, CopyId, Step, Turns
    <3> QED
      BY <1>1, <3>1 DEF HandOver
  <2>3. CASE s = t /\ ReadRow(s)
    BY <1>2, <2>3, ReadRowTurns DEF ReadRow, Step, Turns
  <2>4. CASE s = t /\ (NotAsked(s) \/ Answer(s) \/ Leave(s))
    BY <2>4, NotAskedTurns, AnswerTurns, LeaveTurns DEF Turns
  <2> QED
    BY <1>5, <2>1, <2>2, <2>3, <2>4 DEF CheckFile
<1>6. CASE /\ \A c \in Runs : ~PutAsked(c)
           /\ \A s \in Threads : ~CheckFile(s)
  <2>1. th' = th
    <3>1. CASE ByWindow
      BY <3>1, WindowOnly
    <3>2. CASE ~ByWindow
      BY <1>6, <3>2 DEF Next, ByWindow, StopFiles, StartFiles, StartProcesses,
         Begin, Coordinator, Create, Test, TakePermit, TakeItem, PutPassed,
         Drain, CloseHandles, Clear
    <3> QED
      BY <3>1, <3>2
  <2> QED
    BY <1>3, <2>1
<1> QED
  BY <1>3, <1>4, <1>5, <1>6
-----------------------------------------------------------------------------
(* A run whose record and threads do not change.                           *)
LEMMA StaysKeeps ==
  ASSUME RangesInv, NEW c \in Runs, Follows(c), Once(c),
         Looks(c) => StaysFor(c), run'[c] = run[c],
         \A t \in Threads : t[1] = c => th'[t] = th[t]
  PROVE  Follows(c)' /\ Once(c)'
<1>1. Once(c)'
  BY DEF Once
<1>2. ASSUME Looks(c)
      PROVE  Follows(c)'
  <2> DEFINE k == run[c].kind
             n == Len(list[k])
  <2>1. k \in Lists /\ n \in Nat /\ run[c].i \in Nat
    BY RunFields, RowFields
  <2>2. /\ n <= Len(list'[k]) /\ Len(list'[k]) \in Int
        /\ \A r \in 1 .. n :
             /\ list'[k][r].id = list[k][r].id
             /\ New(list'[k][r]) =>
                  \/ New(list[k][r])
                  \/ run[c].i < r \/ th[<<c, r - 1>>].pc \in {"read", "row"}
    BY <1>2 DEF StaysFor
  <2>3. /\ run[c].i <= n /\ (run[c].pc \in AtRow => run[c].i < n)
        /\ \A t \in Threads : t[1] = c =>
             /\ th[t].pc = "ask" \/ th[t].row # 0 =>
                  t[2] < n /\ list[k][t[2] + 1].id = th[t].row
             /\ t[2] < run[c].i =>
                  \/ ~New(list[k][t[2] + 1])
                  \/ th[t].pc \in {"read", "row", "ask"}
    BY <1>2 DEF Follows, Looks
  <2>4. ASSUME NEW t \in Threads, t[1] = c
        PROVE  /\ th'[t].pc = "ask" \/ th'[t].row # 0 =>
                    t[2] < Len(list'[k]) /\ list'[k][t[2] + 1].id = th'[t].row
               /\ t[2] < run[c].i =>
                    \/ ~New(list'[k][t[2] + 1])
                    \/ th'[t].pc \in {"read", "row", "ask"}
    <3>1. t[2] \in Nat /\ t = <<c, (t[2] + 1) - 1>> /\ th'[t] = th[t]
      BY <2>4, ThreadFields
    <3>2. t[2] < n => t[2] + 1 \in 1 .. n
      BY <2>1, <3>1
    <3> HIDE DEF n
    <3>3. t[2] < run[c].i => t[2] < n /\ ~(run[c].i < t[2] + 1)
      BY <2>1, <2>3, <3>1
    <3>4. th'[t].pc = "ask" \/ th'[t].row # 0 =>
            t[2] < Len(list'[k]) /\ list'[k][t[2] + 1].id = th'[t].row
      BY <2>1, <2>2, <2>3, <2>4, <3>1, <3>2
    <3>5. ASSUME t[2] < run[c].i, New(list'[k][t[2] + 1])
          PROVE  th'[t].pc \in {"read", "row", "ask"}
      <4>1. t[2] + 1 \in 1 .. n /\ ~(run[c].i < t[2] + 1)
        BY <3>2, <3>3, <3>5
      <4>2. New(list[k][t[2] + 1]) \/ th[<<c, (t[2] + 1) - 1>>].pc \in {"read", "row"}
        BY <2>2, <3>5, <4>1
      <4>3. CASE New(list[k][t[2] + 1])
        BY <2>3, <2>4, <3>1, <3>5, <4>3
      <4>4. CASE th[<<c, (t[2] + 1) - 1>>].pc \in {"read", "row"}
        BY <3>1, <4>4
      <4> QED
        BY <4>2, <4>3, <4>4
    <3> QED
      BY <3>4, <3>5
  <2>5. run[c].i <= Len(list'[k]) /\ (run[c].pc \in AtRow => run[c].i < Len(list'[k]))
    BY <2>1, <2>2, <2>3
  <2> HIDE DEF k, n
  <2> QED
    BY <2>4, <2>5 DEF Follows, k
<1>3. CASE ~Looks(c)
  <2>1. ~Looks(c)'
    BY <1>3 DEF Looks
  <2>2. ~Looks(c)' => Follows(c)'
    BY Zenon DEF Follows, Looks
  <2> QED
    BY <1>1, <2>1, <2>2
<1> QED
  BY <1>1, <1>2, <1>3

(* A coordinator comes to the next row only after it has seen that it is   *)
(* there.                                                                  *)
LEMMA CoordinatorFollows ==
  ASSUME RangesInv, OrderInv, NEW c \in Runs, Follows(c), Once(c),
         \/ Create(c) \/ Test(c) \/ TakePermit(c) \/ TakeItem(c)
         \/ Drain(c) \/ CloseHandles(c) \/ Clear(c)
  PROVE  Follows(c)' /\ Once(c)'
<1>1. list' = list /\ th' = th
  BY DEF Create, Test, TakePermit, TakeItem, Drain, CloseHandles, Clear, At,
         listVars
<1>2. Once(c)'
  BY <1>1 DEF Once
<1> DEFINE n == Len(list[run[c].kind])
<1>3. n \in Nat /\ run[c].i \in Nat
  BY RunFields, RowFields
<1>4. CASE Create(c)
  <2>1. run[c].pc = "create" /\ run[c].i = 0
    BY <1>4 DEF Create, At, OrderInv
  <2>2. run'[c].pc = "test" /\ run'[c].i = 0 /\ run'[c].kind = run[c].kind
    BY <1>4, <2>1, CreateMoves DEF Moves
  <2>3. \A t \in Threads : t[1] = c =>
          th[t].pc = "none" /\ th[t].row = 0 /\ ~(t[2] < 0)
    BY <2>1, ThreadFields DEF OrderInv
  <2> QED
    BY <1>1, <1>2, <1>3, <2>2, <2>3 DEF Follows, AtRow
<1>5. CASE Clear(c)
  BY <1>2, <1>5, ClearMoves DEF Moves, Follows, AtWork
<1>6. CASE \/ Test(c) \/ TakePermit(c) \/ TakeItem(c) \/ Drain(c)
           \/ CloseHandles(c)
  <2>1. run[c].pc \in AtWork
    BY <1>6 DEF Test, TakePermit, TakeItem, Drain, CloseHandles, At, AtWork
  <2>2. run'[c].i = run[c].i /\ run'[c].kind = run[c].kind
    BY <1>6, TestMoves, PermitMoves, ItemMoves, DrainMoves, CloseMoves DEF Moves
  <2>3. run'[c].pc \in AtRow => run[c].pc \in AtRow \/ run[c].i < n
    <3>1. CASE Test(c)
      BY <3>1, TestMoves DEF Moves, AtRow
    <3>2. CASE TakePermit(c) \/ TakeItem(c)
      BY <3>2 DEF TakePermit, TakeItem, At, AtRow
    <3>3. CASE Drain(c) \/ CloseHandles(c)
      BY <3>3, DrainMoves, CloseMoves DEF Moves, AtRow
    <3> QED
      BY <1>6, <3>1, <3>2, <3>3
  <2> QED
    BY <1>1, <1>2, <2>1, <2>2, <2>3 DEF Follows
<1> QED
  BY <1>4, <1>5, <1>6

(* A row it came by is handed to a thread, or is not to be asked.          *)
LEMMA PutFollows ==
  ASSUME RangesInv, OrderInv, NEW c \in Runs, Follows(c), Once(c),
         PutAsked(c) \/ PutPassed(c)
  PROVE  Follows(c)' /\ Once(c)'
<1> DEFINE k == run[c].kind
           n == Len(list[k])
           i == run[c].i
<1>1. list' = list /\ run[c].pc = "put"
  BY DEF PutAsked, PutPassed, At, listVars
<1>2. n \in Nat /\ i \in Nat /\ k \in Lists
  BY RunFields, RowFields
<1>3. /\ i < n
      /\ \A t \in Threads : t[1] = c =>
           /\ th[t].pc = "ask" \/ th[t].row # 0 =>
                t[2] < n /\ list[k][t[2] + 1].id = th[t].row
           /\ t[2] < i =>
                ~New(list[k][t[2] + 1]) \/ th[t].pc \in {"read", "row", "ask"}
  BY <1>1 DEF Follows, AtWork, AtRow
<1>4. run'[c].pc = "test" /\ run'[c].i = i + 1 /\ run'[c].kind = k
  BY PutMoves DEF Moves
<1>5. ASSUME NEW t \in Threads, t[1] = c, t[2] # i
      PROVE  th'[t] = th[t] /\ (t[2] < i + 1 => t[2] < i)
  <2>1. t[2] \in Nat
    BY ThreadFields
  <2>2. th'[t] = th[t]
    <3>1. CASE PutAsked(c)
      <4>1. t # <<c, i>>
        BY <1>5
      <4> QED
        BY <3>1, <4>1, PutTurns DEF Turns
    <3>2. CASE PutPassed(c)
      BY <3>2 DEF PutPassed
    <3> QED
      BY <3>1, <3>2
  <2> QED
    BY <1>2, <1>5, <2>1, <2>2
<1>6. ASSUME NEW t \in Threads, t[1] = c, t[2] = i
      PROVE  \/ th'[t].pc = "read" /\ th'[t].row = 0
             \/ th'[t] = th[t] /\ ~New(list[k][t[2] + 1])
  <2>1. t = <<c, i>>
    BY <1>6, ThreadFields
  <2>2. CASE PutAsked(c)
    BY <2>1, <2>2, PutTurns DEF Turns
  <2>3. CASE PutPassed(c)
    <3>1. th' = th /\ ~Wanted(c)
      BY <2>3 DEF PutPassed
    <3>2. ~New(list[k][i + 1])
      BY <1>2, <1>3, <3>1 DEF Wanted, New, Lists
    <3> QED
      BY <1>6, <3>1, <3>2
  <2> QED
    BY <2>2, <2>3
<1>7. Once(c)'
  <2> SUFFICES ASSUME NEW s \in Threads, NEW t \in Threads, s[1] = c, t[1] = c,
                      th'[s].row = th'[t].row, th'[s].row # 0
               PROVE  s = t
    BY DEF Once
  <2>1. th'[s].row = th[s].row /\ th'[t].row = th[t].row
    BY <1>5, <1>6
  <2> QED
    BY <2>1 DEF Once
<1>8. Follows(c)'
  <2>1. ASSUME NEW t \in Threads, t[1] = c
        PROVE  /\ th'[t].pc = "ask" \/ th'[t].row # 0 =>
                    t[2] < n /\ list[k][t[2] + 1].id = th'[t].row
               /\ t[2] < i + 1 =>
                    \/ ~New(list[k][t[2] + 1])
                    \/ th'[t].pc \in {"read", "row", "ask"}
    <3>1. CASE t[2] # i
      BY <1>3, <1>5, <2>1, <3>1
    <3>2. CASE t[2] = i
      BY <1>3, <1>6, <2>1, <3>2
    <3> QED
      BY <3>1, <3>2
  <2>2. i + 1 <= n /\ "test" \notin AtRow
    BY <1>2, <1>3 DEF AtRow
  <2> HIDE DEF k, n, i
  <2> QED
    BY <1>1, <1>4, <2>1, <2>2 DEF Follows, n
<1> QED
  BY <1>7, <1>8

(* A thread of a run under which no row moved is at the row it was made    *)
(* for.                                                                    *)
LEMMA ThreadFollows ==
  ASSUME RangesInv, OrderInv, AloneInv, NumbersInv, Distinct,
         NEW t \in Threads, CheckFile(t), t[1] \notin disturbed,
         Follows(t[1]), Once(t[1])
  PROVE  Follows(t[1])' /\ Once(t[1])'
<1> DEFINE c == t[1]
           k == run[c].kind
           n == Len(list[k])
<1>1. c \in Runs /\ t[2] \in Nat /\ k \in Lists /\ n \in Nat /\ run[c].i \in Nat
  BY ThreadFields, RunFields, RowFields
<1>2. run[c].pc \in AtWork /\ run' = run /\ Kind(t) = k
  <2>1. t \in Mine(c)
    BY CheckFileMine
  <2> QED
    BY <1>1, <2>1 DEF AloneInv, CheckFile, ReadId, CopyId, NotAsked, ReadRow,
                      Answer, Leave, Step, Kind
<1>3. /\ run[c].i <= n /\ (run[c].pc \in AtRow => run[c].i < n)
      /\ \A s \in Threads : s[1] = c =>
           /\ th[s].pc = "ask" \/ th[s].row # 0 =>
                s[2] < n /\ list[k][s[2] + 1].id = th[s].row
           /\ s[2] < run[c].i =>
                ~New(list[k][s[2] + 1]) \/ th[s].pc \in {"read", "row", "ask"}
  BY <1>2 DEF Follows
<1>4. \A s \in Threads \ {t} : th'[s] = th[s]
  BY ReadIdTurns, NotAskedTurns, ReadRowTurns, AnswerTurns, LeaveTurns
     DEF CheckFile, Turns
<1>5. th[t].pc \in {"row", "ask"} => th[t].id = t[2]
  BY DEF NumbersInv
(* The rows keep their place.                                              *)
<1>6. /\ Len(list'[k]) = n
      /\ \A r \in 1 .. n : /\ list'[k][r].id = list[k][r].id
                           /\ New(list'[k][r]) => New(list[k][r])
  <2>1. CASE Answer(t)
    BY <1>1, <2>1, AnswerRows
  <2>2. CASE ~Answer(t)
    <3>1. list' = list
      BY <2>2 DEF CheckFile, ReadId, NotAsked, ReadRow, Leave
    <3> QED
      BY <3>1
  <2> QED
    BY <2>1, <2>2
(* What the thread has done.                                               *)
<1>7. /\ \/ th'[t].row = th[t].row /\ th'[t].pc # "ask"
         \/ /\ th'[t].row = list[k][t[2] + 1].id /\ t[2] < n
      /\ t[2] < run[c].i =>
           \/ ~New(list'[k][t[2] + 1])
           \/ th'[t].pc \in {"read", "row", "ask"}
  <2>1. t[2] < run[c].i => t[2] < n /\ t[2] + 1 \in 1 .. n
    BY <1>1, <1>3
  <2>2. CASE ReadId(t)
    BY <2>2, ReadIdTurns DEF Turns
  <2>3. CASE NotAsked(t)
    <3>1. th[t].pc = "row" /\ ~Askable(t) /\ list' = list
      BY <2>3 DEF NotAsked, Step
    <3>2. th[t].id = t[2]
      BY <1>5, <3>1
    <3>3. t[2] < n => ~New(list[k][t[2] + 1])
      BY <1>2, <3>1, <3>2 DEF Askable, New
    <3>4. th'[t].pc = "leave" /\ th'[t].row = th[t].row
      BY <2>3, NotAskedTurns DEF Turns
    <3> QED
      BY <2>1, <3>1, <3>3, <3>4
  <2>4. CASE ReadRow(t)
    <3>1. th[t].pc = "row" /\ th[t].id < Len(list[Kind(t)])
      BY <2>4 DEF ReadRow, Step, Askable
    <3>2. th[t].id = t[2]
      BY <1>5, <3>1
    <3>3. th'[t].pc = "ask" /\ th'[t].row = list[Kind(t)][th[t].id + 1].id
      BY <2>4, ReadRowTurns DEF Turns
    <3> QED
      BY <1>2, <3>1, <3>2, <3>3
  <2>5. CASE Answer(t)
    <3>1. th[t].pc = "ask" /\ th'[t].pc = "leave" /\ th'[t].row = th[t].row
      BY <2>5, AnswerTurns DEF Answer, Step, Turns
    <3>2. th[t].id = t[2]
      BY <1>5, <3>1
    <3>3. t[2] < n
      BY <1>3, <3>1
    <3>4. ~New(list'[k][t[2] + 1])
      BY <1>2, <2>5, <3>2, <3>3, AnswerRows
    <3> QED
      BY <3>1, <3>4
  <2>6. CASE Leave(t)
    <3>1. th[t].pc = "leave" /\ list' = list
      BY <2>6 DEF Leave, Step
    <3>2. th'[t].pc = "done" /\ th'[t].row = th[t].row
      BY <2>6, LeaveTurns DEF Turns
    <3> QED
      BY <1>3, <3>1, <3>2
  <2> QED
    BY <2>2, <2>3, <2>4, <2>5, <2>6 DEF CheckFile
<1>8. ASSUME NEW s \in Threads, s[1] = c, th'[s].row # 0
      PROVE  s[2] < n /\ list[k][s[2] + 1].id = th'[s].row
  BY <1>3, <1>4, <1>7, <1>8
<1>9. Once(c)'
  <2> SUFFICES ASSUME NEW s \in Threads, NEW u \in Threads, s[1] = c, u[1] = c,
                      th'[s].row = th'[u].row, th'[s].row # 0
               PROVE  s = u
    BY DEF Once
  <2>1. s[2] \in Nat /\ u[2] \in Nat /\ s = <<s[1], s[2]>> /\ u = <<u[1], u[2]>>
    BY ThreadFields
  <2>2. s[2] + 1 \in 1 .. n /\ u[2] + 1 \in 1 .. n
    BY <1>1, <1>8, <2>1
  <2>3. s[2] + 1 = u[2] + 1
    BY <1>1, <1>8, <2>2 DEF Distinct
  <2>4. s[2] = u[2]
    BY <2>1, <2>3
  <2> QED
    BY <2>1, <2>4
<1>10. ASSUME NEW s \in Threads, s[1] = c
       PROVE  /\ th'[s].pc = "ask" \/ th'[s].row # 0 =>
                   s[2] < n /\ list'[k][s[2] + 1].id = th'[s].row
              /\ s[2] < run[c].i =>
                   \/ ~New(list'[k][s[2] + 1])
                   \/ th'[s].pc \in {"read", "row", "ask"}
  <2>1. s[2] \in Nat
    BY ThreadFields
  <2>2. s[2] < n => s[2] + 1 \in 1 .. n
    BY <1>1, <2>1
  <2>3. s[2] < run[c].i => s[2] < n
    BY <1>1, <1>3, <2>1
  <2>4. th'[s].pc = "ask" \/ th'[s].row # 0 =>
          s[2] < n /\ list[k][s[2] + 1].id = th'[s].row
    BY <1>3, <1>4, <1>7, <1>8, <1>10
  <2>5. s[2] < run[c].i => \/ ~New(list'[k][s[2] + 1])
                           \/ th'[s].pc \in {"read", "row", "ask"}
    <3>1. CASE s = t
      BY <1>7, <3>1
    <3>2. CASE s # t
      BY <1>3, <1>4, <1>6, <1>10, <2>2, <2>3, <3>2
    <3> QED
      BY <3>1, <3>2
  <2> QED
    BY <1>6, <2>2, <2>4, <2>5
<1>11. Follows(c)'
  <2> HIDE DEF k, n, c
  <2> QED
    BY <1>2, <1>3, <1>6, <1>10 DEF Follows, k
<1> QED
  BY <1>9, <1>11

LEMMA RowsKept ==
  ASSUME RangesInv, OrderInv, AloneInv, NumbersInv, Distinct, RowsInv, Next
  PROVE  RowsInv'
<1> SUFFICES ASSUME NEW c \in Runs, c \notin disturbed', c \notin stirred'
             PROVE  Follows(c)' /\ Once(c)'
  BY DEF RowsInv
<1>0. c \notin disturbed /\ Follows(c) /\ Once(c)
  BY HistoryGrows DEF RowsInv
<1>1. CASE ByWindow
  BY <1>0, <1>1, WindowOnly, WindowRows, StaysKeeps
<1>2. CASE StopFiles
  <2>1. list' = list /\ th' = th
    BY <1>2 DEF StopFiles, listVars
  <2>2. run'[c] = run[c]
    BY <1>2, StopMoves
  <2> QED
    BY <1>0, <2>1, <2>2, SameStays, StaysKeeps
<1>3. ASSUME NEW d \in Runs, StartFiles(d) \/ StartProcesses(d)
      PROVE  Follows(c)' /\ Once(c)'
  <2>1. PICK kind \in Lists : Begin(d, kind)
    BY <1>3 DEF StartFiles, StartProcesses, Lists
  <2>2. list' = list /\ th' = th
    BY <2>1 DEF Begin, listVars
  <2>3. run'[d].pc = "create" /\ \A e \in Runs \ {d} : run'[e] = run[e]
    BY <2>1, BeginMoves
  <2>4. CASE c = d
    BY <1>0, <2>2, <2>3, <2>4 DEF Follows, Once, AtWork
  <2>5. CASE c # d
    BY <1>0, <2>2, <2>3, <2>5, SameStays, StaysKeeps
  <2> QED
    BY <2>4, <2>5
<1>4. ASSUME NEW d \in Runs, Coordinator(d), d = c
      PROVE  Follows(c)' /\ Once(c)'
  BY <1>0, <1>4, CoordinatorFollows, PutFollows DEF Coordinator
<1>5. ASSUME NEW d \in Runs, Coordinator(d), d # c
      PROVE  Follows(c)' /\ Once(c)'
  <2>1. list' = list
    BY <1>5 DEF Coordinator, Create, Test, TakePermit, TakeItem, PutAsked,
                PutPassed, Drain, CloseHandles, Clear, At, listVars
  <2>2. run'[c] = run[c]
    BY <1>5, CreateMoves, TestMoves, PermitMoves, ItemMoves, PutMoves,
       DrainMoves, CloseMoves, ClearMoves DEF Coordinator, Moves
  <2>3. \A t \in Threads : t[1] = c => th'[t] = th[t]
    <3>1. CASE PutAsked(d)
      <4> DEFINE s == <<d, run[d].i>>
      <4>1. s[1] = d /\ \A t \in Threads \ {s} : th'[t] = th[t]
        BY <3>1, PutTurns DEF Turns
      <4> HIDE DEF s
      <4> QED
        BY <1>5, <4>1
    <3>2. CASE ~PutAsked(d)
      BY <1>5, <3>2 DEF Coordinator, Create, Test, TakePermit, TakeItem,
                        PutPassed, Drain, CloseHandles, Clear
    <3> QED
      BY <3>1, <3>2
  <2> QED
    BY <1>0, <2>1, <2>2, <2>3, SameStays, StaysKeeps
<1>6. ASSUME NEW t \in Threads, CheckFile(t), t[1] = c
      PROVE  Follows(c)' /\ Once(c)'
  BY <1>0, <1>6, ThreadFollows
<1>7. ASSUME NEW t \in Threads, CheckFile(t), t[1] # c
      PROVE  Follows(c)' /\ Once(c)'
  <2>1. run' = run /\ \A s \in Threads : s[1] = c => th'[s] = th[s]
    <3>1. \A s \in Threads \ {t} : th'[s] = th[s]
      BY <1>7, ReadIdTurns, NotAskedTurns, ReadRowTurns, AnswerTurns, LeaveTurns
         DEF CheckFile, Turns
    <3>2. run' = run
      BY <1>7 DEF CheckFile, ReadId, CopyId, NotAsked, ReadRow, Answer, Leave, Step
    <3> QED
      BY <1>7, <3>1, <3>2
  <2>2. StaysFor(c)
    <3>1. CASE Answer(t)
      BY <3>1, AnswerRows, TextStays
    <3>2. CASE ~Answer(t)
      <4>1. list' = list
        BY <1>7, <3>2 DEF CheckFile, ReadId, NotAsked, ReadRow, Leave
      <4> QED
        BY <4>1, SameStays
    <3> QED
      BY <3>1, <3>2
  <2> QED
    BY <1>0, <2>1, <2>2, StaysKeeps
<1> QED
  BY <1>1, <1>2, <1>3, <1>4, <1>5, <1>6, <1>7 DEF Next, ByWindow
-----------------------------------------------------------------------------
THEOREM LookUpHolds == Spec => []LookUpInv
<1>1. LookUpInv /\ [Next]_vars => LookUpInv'
  <2> SUFFICES ASSUME LookUpInv, [Next]_vars PROVE LookUpInv'
    OBVIOUS
  <2>1. CASE Next
    BY <2>1, RangesKept, OrderKept, AloneKept, PermitsKept, HandOverKept,
       NumbersKept, DistinctKept, RowsKept DEF LookUpInv
  <2>2. CASE UNCHANGED vars
    <3>1. UNCHANGED <<list, stirred, gen, sem, item, open, run, slot, th, disturbed>>
      BY <2>2 DEF vars, listVars, workVars, semVars
    <3>2. \A c : Mine(c)' = Mine(c)
      BY <3>1, MineSame
    <3>3. RangesInv' /\ OrderInv' /\ AloneInv'
      BY <3>1, <3>2 DEF LookUpInv, RangesInv, OrderInv, AloneInv
    <3>4. PermitsInv' /\ HandOver'
      BY <3>1, <3>2 DEF LookUpInv, PermitsInv, HandOver, Permits
    <3>5. NumbersInv' /\ Distinct' /\ RowsInv'
      BY <3>1 DEF LookUpInv, NumbersInv, Distinct, RowsInv, Follows, Once
    <3> QED
      BY <3>3, <3>4, <3>5 DEF LookUpInv
  <2> QED
    BY <2>1, <2>2
<1> QED
  BY <1>1, InitLookUp, PTL DEF Spec

(* The threads of a run use the structures on its coordinator's stack only *)
(* while it is there, and no more of them are at work than it has permits, *)
(* unless the run met another one or was terminated from the menu.         *)
THEOREM SlotsAreHeld == Spec => []SlotsHeld
<1>1. LookUpInv => SlotsHeld
  <2> SUFFICES ASSUME LookUpInv PROVE SlotsHeld
    OBVIOUS
  <2>1. \A c \in Runs :
          /\ sem[c] \in 0 .. PerSlot * NbSlots /\ item[c] \in 0 .. 1
          /\ slot[c] \in [0 .. NbSlots - 1 -> 0 .. MaxRows - 1]
    BY DEF LookUpInv, RangesInv
  <2>2. ASSUME NEW c \in Runs \ disturbed
        PROVE  /\ Mine(c) # {} => Alive(c) /\ gen = c /\ c \in open
               /\ c \in open /\ gen = c => Held(c) = Permits(run[c].kind)
    <3>1. run[c].pc \in RunPcs
      BY RunFields DEF LookUpInv
    <3>2. Mine(c) # {} => run[c].pc \in AtWork
      BY DEF LookUpInv, AloneInv
    <3>3. c \in open => run[c].pc \in AtWork
      BY <3>1 DEF LookUpInv, AloneInv, OrderInv, RunPcs, AtWork
    <3>4. run[c].pc \in AtWork => gen = c /\ c \in open /\ Alive(c)
      BY DEF LookUpInv, AloneInv, AtWork, Alive
    <3>5. run[c].pc \in AtWork => Held(c) = Permits(run[c].kind)
      BY PermitsHeld DEF LookUpInv
    <3> QED
      BY <3>2, <3>3, <3>4, <3>5
  <2> QED
    BY <2>1, <2>2 DEF SlotsHeld, Mine, Held
<1> QED
  BY <1>1, LookUpHolds, PTL

(* The shared structure hands the number of a row to its thread and to no  *)
(* other one, whatever happens to the rows; while they stay where they are,*)
(* and have their hash before they are looked at, no row is asked twice, an*)
(* answer goes to its row, and none that has to be asked is left out.      *)
THEOREM EachRowAskedOnce == Spec => []EachRowOnce
<1>1. LookUpInv => EachRowOnce
  <2> SUFFICES ASSUME LookUpInv PROVE EachRowOnce
    OBVIOUS
  <2> USE DEF LookUpInv
  <2>1. \A t \in Threads : t[1] \notin disturbed /\ th[t].pc \in {"row", "ask"} =>
          th[t].id = t[2]
    BY DEF NumbersInv
  <2>2. ASSUME NEW c \in Runs \ (disturbed \union stirred)
        PROVE  LET rows == list[run[c].kind] IN
               /\ \A s, t \in Threads :
                    s[1] = c /\ t[1] = c /\ th[s].row = th[t].row /\ th[s].row # 0
                      => s = t
               /\ \A t \in Threads : t[1] = c /\ th[t].pc = "ask" =>
                    th[t].id < Len(rows) /\ rows[th[t].id + 1].id = th[t].row
               /\ run[c].pc = "clear" => \A r \in 1 .. run[c].i : ~New(rows[r])
    <3>1. Follows(c) /\ Once(c)
      BY DEF RowsInv
    <3>2. ASSUME NEW t \in Threads, t[1] = c, th[t].pc = "ask"
          PROVE  /\ th[t].id < Len(list[run[c].kind])
                 /\ list[run[c].kind][th[t].id + 1].id = th[t].row
      <4>1. t \in Mine(c)
        BY <3>2 DEF Mine, Active
      <4>2. run[c].pc \in AtWork
        BY <4>1 DEF AloneInv
      <4> QED
        BY <2>1, <3>1, <3>2, <4>2 DEF Follows
    <3>3. ASSUME run[c].pc = "clear", NEW r \in 1 .. run[c].i
          PROVE  ~New(list[run[c].kind][r])
      <4> DEFINE t == <<c, r - 1>>
      <4>1. t \in Threads /\ t[1] = c /\ t[2] < run[c].i /\ t[2] + 1 = r
        BY RunFields DEF Threads
      <4> HIDE DEF t
      <4>2. t \notin Mine(c)
        BY <3>3 DEF AloneInv, AtWork
      <4>3. th[t].pc \in {"none", "done"}
        BY <4>1, <4>2 DEF Mine, Active
      <4> QED
        BY <3>1, <3>3, <4>1, <4>3 DEF Follows
    <3> QED
      BY <3>1, <3>2, <3>3 DEF Once
  <2> QED
    BY <2>1, <2>2 DEF EachRowOnce
<1> QED
  BY <1>1, LookUpHolds, PTL
=============================================================================
