-------------------------- MODULE NSResults_proofs --------------------------
(***************************************************************************)
(* Proofs about the result list of NS, for every number of scans, of Save  *)
(* clicks, of rows, and every NS.ini.                                      *)
(*                                                                         *)
(* An export is faithful because the part of the list it counted stays the *)
(* beginning of the list until somebody moves the rows, which marks it.    *)
(* The automatic save is exact because the two buttons and scan_start let  *)
(* nobody at the rows between the tests and the return of the buttons.     *)
(***************************************************************************)
EXTENDS NSResults, SequenceTheorems, TLAPS

ScanPcs == {"none", "scan", "extract", "saving", "extracted", "enabled", "done"}

Exports == [pc : ExportPcs, todo : Seq(Formats), n : Nat, file : Seq(0 .. MaxRows),
            base : Seq(1 .. MaxRows), moved : BOOLEAN]

RangesInv ==
  /\ ini \in Inis
  /\ rows \in Seq(1 .. MaxRows) /\ born \in 0 .. MaxRows
  /\ scan_start \in BOOLEAN /\ startOn \in BOOLEAN /\ reOn \in BOOLEAN
  /\ late \in BOOLEAN /\ overlapped \in BOOLEAN
  /\ save_done \in BOOLEAN /\ save_current \in BOOLEAN
  /\ spc \in [Scans -> ScanPcs]
  /\ exp \in [Threads -> Exports]
  /\ kept \subseteq 0 .. MaxRows
  /\ window \in {"open", "asking", "closed"} /\ answer \in {"none", "yes", "no"}

(* A file has at most the rows that were counted.                          *)
FilesInv == \A t \in Threads :
  /\ Len(exp[t].file) <= exp[t].n
  /\ exp[t].pc \in {"write", "saved"} => exp[t].todo # <<>>

(* What was counted is still the beginning of the list, and what was       *)
(* written is the beginning of that.                                       *)
PrefixInv == \A t \in Threads :
  exp[t].pc = "write" /\ ~exp[t].moved =>
    /\ Len(exp[t].base) = exp[t].n /\ exp[t].n <= Len(rows)
    /\ \A i \in 1 .. exp[t].n : rows[i] = exp[t].base[i]
    /\ \A i \in 1 .. Len(exp[t].file) : exp[t].file[i] = exp[t].base[i]

(* The flag is set as long as a SaveWorld thread is there.                 *)
SaverInv == OneSaver /\ \A s \in Savers : exp[s].pc # "none" => save_current

Working(k) == spc[k] \in {"scan", "extract", "saving", "extracted"}
UnderWay(k) == Working(k) \/ spc[k] = "enabled"

OneScan == \A j, k \in Scans : UnderWay(j) /\ UnderWay(k) => j = k

(* While the tests go on or the list is saved, one button is off, and the  *)
(* other one stops; after the Stop both are off.                           *)
ButtonsOff == Alive => \A k \in Scans : Working(k) =>
  IF scan_start THEN ~startOn \/ ~reOn ELSE ~startOn /\ ~reOn

ApartInv == ~overlapped => OneScan /\ ButtonsOff

ResultsInv ==
  RangesInv /\ FilesInv /\ PrefixInv /\ SaverInv /\ ApartInv /\ AutoSaveExact
-----------------------------------------------------------------------------
LEMMA ShortSeqs ==
  ASSUME NEW S, NEW a \in S, NEW b \in S, NEW c \in S
  PROVE  /\ <<>> \in Seq(S) /\ Len(<<>>) = 0 /\ <<a>> \in Seq(S)
         /\ <<a, b>> \in Seq(S) /\ <<a, b, c>> \in Seq(S)
<1>1. <<>> \in Seq(S)
  BY EmptySeq
<1>2. Len(<<>>) = 0
  BY EmptySeq
<1> QED
  BY <1>1, <1>2

LEMMA InitIsResultsInv == Init => ResultsInv
<1> SUFFICES ASSUME Init PROVE ResultsInv
  OBVIOUS
<1>1. NoExport \in Exports
  <2>1. <<>> \in Seq(Formats) /\ <<>> \in Seq(0 .. MaxRows) /\ <<>> \in Seq(1 .. MaxRows)
    BY EmptySeq
  <2> QED
    BY <2>1 DEF NoExport, Exports, ExportPcs
<1>2. RangesInv
  <2>1. rows \in Seq(1 .. MaxRows) /\ born \in 0 .. MaxRows
    <3>1. <<>> \in Seq(1 .. MaxRows)
      BY EmptySeq
    <3> QED
      BY <3>1, RowsAssumption DEF Init
  <2>2. exp \in [Threads -> Exports]
    BY <1>1 DEF Init
  <2> QED
    BY <2>1, <2>2 DEF Init, RangesInv, ScanPcs
<1>3. \A t \in Threads : exp[t].pc = "none" /\ Len(exp[t].file) = 0 /\ exp[t].n = 0
  BY EmptySeq DEF Init, NoExport
<1>4. FilesInv /\ PrefixInv
  BY <1>3 DEF FilesInv, PrefixInv
<1>6. SaverInv
  BY <1>3 DEF SaverInv, OneSaver, Threads
<1>5. ApartInv /\ AutoSaveExact
  BY DEF Init, ApartInv, OneScan, ButtonsOff, UnderWay, Working, AutoSaveExact
<1> QED
  BY <1>2, <1>4, <1>5, <1>6 DEF ResultsInv

(* Which export a step changes, and into what.                             *)
Becomes(t, e) == t \in Threads /\ exp' = [exp EXCEPT ![t] = e]

With(pc, todo, n, file, base, moved) ==
  [pc |-> pc, todo |-> todo, n |-> n, file |-> file, base |-> base, moved |-> moved]

Fresh(pc, todo) == With(pc, todo, 0, <<>>, <<>>, FALSE)

At(t, pc) == With(pc, exp[t].todo, exp[t].n, exp[t].file, exp[t].base, exp[t].moved)

LEMMA AutoFormatsType ==
  ASSUME RangesInv, NEW kind
  PROVE  AutoFormats(kind) \in Seq(Formats)
<1>1. \A f \in Formats : Chosen(f) \in Seq(Formats)
  <2> SUFFICES ASSUME NEW f \in Formats PROVE Chosen(f) \in Seq(Formats)
    OBVIOUS
  <2>1. <<f>> \in Seq(Formats) /\ <<>> \in Seq(Formats)
    BY ShortSeqs
  <2> QED
    BY <2>1 DEF Chosen
<1>2. /\ Chosen("csv") \in Seq(Formats) /\ Chosen("xml") \in Seq(Formats)
      /\ Chosen("html") \in Seq(Formats)
  BY <1>1 DEF Formats
<1>3. Chosen("csv") \o Chosen("xml") \o Chosen("html") \in Seq(Formats)
  BY <1>2, ConcatProperties
<1>4. <<"csv", "xml">> \in Seq(Formats)
  <2>1. "csv" \in Formats /\ "xml" \in Formats
    BY DEF Formats
  <2> QED
    BY <2>1, ShortSeqs
<1> QED
  BY <1>3, <1>4 DEF AutoFormats

LEMMA FreshNext ==
  ASSUME NEW todo
  PROVE  [NoExport EXCEPT !.pc = "next", !.todo = todo] = Fresh("next", todo)
<1>1. PICK z : z = <<>>
  OBVIOUS
<1>2. PICK f : f = FALSE
  OBVIOUS
<1>3. NoExport = [pc |-> "none", todo |-> z, n |-> 0, file |-> z, base |-> z,
                  moved |-> f]
  BY <1>1, <1>2 DEF NoExport
<1>4. Fresh("next", todo) = [pc |-> "next", todo |-> todo, n |-> 0, file |-> z,
                             base |-> z, moved |-> f]
  BY <1>1, <1>2 DEF Fresh, With
<1> DEFINE e == [NoExport EXCEPT !.pc = "next"]
<1>5. e = [pc |-> "next", todo |-> z, n |-> 0, file |-> z, base |-> z, moved |-> f]
  BY <1>3
<1>6. [NoExport EXCEPT !.pc = "next", !.todo = todo] = [e EXCEPT !.todo = todo]
  OBVIOUS
<1> HIDE DEF e
<1>7. [e EXCEPT !.todo = todo] = Fresh("next", todo)
  BY <1>4, <1>5
<1> QED
  BY <1>6, <1>7

LEMMA ExportSteps ==
  ASSUME RangesInv
  PROVE  /\ \A k \in Scans :
              /\ EndTests(k) => \E todo \in Seq(Formats) : Becomes(k, Fresh("next", todo))
              /\ EnableButtons(k) => Becomes(k, NoExport)
         /\ \A s \in Savers :
              /\ Save(s) => Becomes(s, At(s, "start"))
              /\ OpenDialog(s) => Becomes(s, At(s, "dialog"))
              /\ Accept(s) => \E todo \in Seq(Formats) : Becomes(s, Fresh("next", todo))
              /\ Cancel(s) \/ Saved(s) => Becomes(s, NoExport)
<1>0. ASSUME NEW t \in Threads, NEW pc PROVE [exp[t] EXCEPT !.pc = pc] = At(t, pc)
  <2>1. exp[t] \in Exports
    BY DEF RangesInv
  <2> QED
    BY <2>1 DEF Exports, At, With
<1>1. ASSUME NEW k \in Scans, EndTests(k)
      PROVE  \E todo \in Seq(Formats) : Becomes(k, Fresh("next", todo))
  <2> DEFINE todo == IF rows = <<>> THEN <<>> ELSE AutoFormats(spc[k])
  <2>1. todo \in Seq(Formats)
    BY AutoFormatsType, EmptySeq
  <2>2. exp' = [exp EXCEPT ![k] = [NoExport EXCEPT !.pc = "next", !.todo = todo]]
    BY <1>1 DEF EndTests
  <2>3. [NoExport EXCEPT !.pc = "next", !.todo = todo] = Fresh("next", todo)
    BY FreshNext
  <2>4. Becomes(k, Fresh("next", todo))
    BY <2>2, <2>3 DEF Becomes, Threads
  <2> HIDE DEF todo
  <2> QED
    BY <2>1, <2>4
<1>2. ASSUME NEW k \in Scans, EnableButtons(k) PROVE Becomes(k, NoExport)
  BY <1>2 DEF EnableButtons, Becomes, Threads
<1>3. ASSUME NEW s \in Savers, Save(s) PROVE Becomes(s, At(s, "start"))
  BY <1>0, <1>3 DEF Save, Becomes, Threads
<1>4. ASSUME NEW s \in Savers, OpenDialog(s) PROVE Becomes(s, At(s, "dialog"))
  BY <1>0, <1>4 DEF OpenDialog, Becomes, Threads
<1>5. ASSUME NEW s \in Savers, Accept(s)
      PROVE  \E todo \in Seq(Formats) : Becomes(s, Fresh("next", todo))
  <2>1. PICK todo \in {<<"xml">>, <<"xml", "csv", "html">>, <<>>} :
               exp' = [exp EXCEPT ![s] = [NoExport EXCEPT !.pc = "next", !.todo = todo]]
    BY <1>5 DEF Accept
  <2>2. todo \in Seq(Formats)
    <3>1. "csv" \in Formats /\ "xml" \in Formats /\ "html" \in Formats
      BY DEF Formats
    <3>2. /\ <<"xml">> \in Seq(Formats) /\ <<"xml", "csv", "html">> \in Seq(Formats)
          /\ <<>> \in Seq(Formats)
      BY <3>1, ShortSeqs
    <3> QED
      BY <3>2
  <2>3. [NoExport EXCEPT !.pc = "next", !.todo = todo] = Fresh("next", todo)
    BY FreshNext
  <2> QED
    BY <2>1, <2>2, <2>3 DEF Becomes, Threads
<1>6. ASSUME NEW s \in Savers, Cancel(s) \/ Saved(s) PROVE Becomes(s, NoExport)
  BY <1>6 DEF Cancel, Saved, Becomes, Threads
<1> QED
  BY <1>1, <1>2, <1>3, <1>4, <1>5, <1>6
LEMMA FileSteps ==
  ASSUME RangesInv, NEW t \in Threads
  PROVE  /\ SkipFile(t) => Becomes(t, With("saved", exp[t].todo, exp[t].n, <<>>,
                                           exp[t].base, exp[t].moved))
         /\ OpenFile(t) => Becomes(t, With("write", exp[t].todo, Len(rows), <<>>,
                                           rows, FALSE))
         /\ WriteRow(t) =>
              LET j == Len(exp[t].file)
                  line == IF j + 1 <= Len(rows) THEN rows[j + 1] ELSE Blank
              IN  Becomes(t, With("write", exp[t].todo, exp[t].n,
                                  Append(exp[t].file, line), exp[t].base, exp[t].moved))
         /\ CloseFile(t) => Becomes(t, At(t, "saved"))
         /\ NextFile(t) => Becomes(t, Fresh("next", Tail(exp[t].todo)))
<1>0. exp[t] \in Exports
  BY DEF RangesInv
<1>1. ASSUME SkipFile(t)
      PROVE  Becomes(t, With("saved", exp[t].todo, exp[t].n, <<>>, exp[t].base,
                             exp[t].moved))
  <2> DEFINE e == [exp[t] EXCEPT !.pc = "saved"]
  <2>1. PICK z : z = <<>>
    OBVIOUS
  <2>2. exp' = [exp EXCEPT ![t] = [exp[t] EXCEPT !.pc = "saved", !.file = z]]
    BY <1>1, <2>1 DEF SkipFile
  <2>3. e = At(t, "saved")
    BY <1>0 DEF Exports, At, With
  <2>4. [exp[t] EXCEPT !.pc = "saved", !.file = z] = [e EXCEPT !.file = z]
    OBVIOUS
  <2> HIDE DEF e
  <2>5. [e EXCEPT !.file = z]
          = With("saved", exp[t].todo, exp[t].n, z, exp[t].base, exp[t].moved)
    BY <2>3 DEF At, With
  <2> QED
    BY <2>1, <2>2, <2>4, <2>5 DEF Becomes
<1>2. ASSUME OpenFile(t)
      PROVE  Becomes(t, With("write", exp[t].todo, Len(rows), <<>>, rows, FALSE))
  BY <1>2 DEF OpenFile, Becomes, With
<1>3. ASSUME WriteRow(t)
      PROVE  LET j == Len(exp[t].file)
                 line == IF j + 1 <= Len(rows) THEN rows[j + 1] ELSE Blank
             IN  Becomes(t, With("write", exp[t].todo, exp[t].n,
                                 Append(exp[t].file, line), exp[t].base, exp[t].moved))
  <2> DEFINE line == IF Len(exp[t].file) + 1 <= Len(rows)
                     THEN rows[Len(exp[t].file) + 1] ELSE Blank
             new == Append(exp[t].file, line)
             e == [exp[t] EXCEPT !.file = new]
  <2>1. exp' = [exp EXCEPT ![t] = e] /\ exp[t].pc = "write"
    BY <1>3 DEF WriteRow
  <2> HIDE DEF new
  <2>2. e = With("write", exp[t].todo, exp[t].n, new, exp[t].base, exp[t].moved)
    BY <1>0, <2>1 DEF Exports, With
  <2> QED
    BY <2>1, <2>2 DEF Becomes, new
<1>4. ASSUME CloseFile(t) PROVE Becomes(t, At(t, "saved"))
  <2> DEFINE e == [exp[t] EXCEPT !.pc = "saved"]
  <2>1. exp' = [exp EXCEPT ![t] = e]
    BY <1>4 DEF CloseFile
  <2>2. e = At(t, "saved")
    BY <1>0 DEF Exports, At, With
  <2> QED
    BY <2>1, <2>2 DEF Becomes
<1>5. ASSUME NextFile(t) PROVE Becomes(t, Fresh("next", Tail(exp[t].todo)))
  <2>1. exp' = [exp EXCEPT ![t] = [NoExport EXCEPT !.pc = "next",
                                                   !.todo = Tail(exp[t].todo)]]
    BY <1>5 DEF NextFile
  <2> QED
    BY <2>1, FreshNext DEF Becomes
<1> QED
  BY <1>1, <1>2, <1>3, <1>4, <1>5
-----------------------------------------------------------------------------
(* The steps that are not about an export.                                 *)
Unconcerned ==
  \/ Over \/ Stop \/ Close \/ Ask \/ AnswerYes \/ AnswerNo \/ AddLSTVItem
  \/ \E k \in Scans : ClearStart(k)
  \/ UNCHANGED vars

LEMMA UnconcernedSteps == Unconcerned => exp' = exp
BY DEF Unconcerned, Over, Stop, Close, Ask, AnswerYes, AnswerNo, AddLSTVItem,
       ClearStart, vars

(* The steps that move the rows of the list.                               *)
Moves ==
  \/ Sort
  \/ \E k \in Scans : StartScan(k) \/ StartExtract(k)

LEMMA MoveSteps ==
  ASSUME Moves
  PROVE  exp' = [t \in Threads |-> [exp[t] EXCEPT !.moved = TRUE]]
BY DEF Moves, Sort, StartScan, StartExtract, Begin, MoveRows

LEMMA Steps ==
  [Next]_vars =>
    \/ Unconcerned \/ Moves
    \/ \E k \in Scans : EndTests(k) \/ EnableButtons(k)
    \/ \E s \in Savers : Save(s) \/ OpenDialog(s) \/ Accept(s) \/ Cancel(s) \/ Saved(s)
    \/ \E t \in Threads : Write(t)
BY DEF Next, DlgMain, ScanThread, SaveWorld, Unconcerned, Moves

LEMMA RowsKept ==
  ASSUME RangesInv, [Next]_vars
  PROVE  rows' \in Seq(1 .. MaxRows) /\ born' \in 0 .. MaxRows
<1> USE RowsAssumption DEF RangesInv
<1>1. CASE AddLSTVItem
  <2>1. born' \in 1 .. MaxRows /\ rows' = Append(rows, born')
    BY <1>1 DEF AddLSTVItem
  <2> QED
    BY <2>1, AppendProperties
<1>2. CASE Sort
  <2>1. PICK p \in Bijection(DOMAIN rows, DOMAIN rows) :
               rows' = [r \in DOMAIN rows |-> rows[p[r]]]
    BY <1>2 DEF Sort, MoveRows
  <2>2. p \in [DOMAIN rows -> DOMAIN rows]
    BY DEF Bijection, Injection
  <2>3. Len(rows) \in Nat /\ DOMAIN rows = 1 .. Len(rows)
    BY LenProperties
  <2>4. \A r \in 1 .. Len(rows) : rows[p[r]] \in 1 .. MaxRows
    BY <2>2, <2>3, ElementOfSeq
  <2>5. rows' \in [1 .. Len(rows) -> 1 .. MaxRows]
    BY <2>1, <2>3, <2>4
  <2>6. rows' \in Seq(1 .. MaxRows)
    BY <2>3, <2>5, SeqDef
  <2>7. born' = born
    BY <1>2 DEF Sort
  <2> QED
    BY <2>6, <2>7
<1>3. ASSUME NEW k \in Scans, StartScan(k) \/ StartExtract(k)
      PROVE  rows' \in Seq(1 .. MaxRows) /\ born' \in 0 .. MaxRows
  <2>1. rows' = <<>> /\ born' = born
    BY <1>3 DEF StartScan, StartExtract, Begin, MoveRows
  <2> QED
    BY <2>1, EmptySeq
<1>4. CASE rows' = rows /\ born' = born
  BY <1>4
<1>5. ASSUME ~AddLSTVItem, Unconcerned PROVE rows' = rows /\ born' = born
  BY <1>5 DEF Unconcerned, Over, Stop, Close, Ask, AnswerYes, AnswerNo, ClearStart,
              vars, listVars
<1>6. ASSUME NEW k \in Scans, EndTests(k) \/ EnableButtons(k)
      PROVE  rows' = rows /\ born' = born
  BY <1>6 DEF EndTests, EnableButtons, listVars
<1>7. ASSUME NEW s \in Savers,
             Save(s) \/ OpenDialog(s) \/ Accept(s) \/ Cancel(s) \/ Saved(s)
      PROVE  rows' = rows /\ born' = born
  BY <1>7 DEF Save, OpenDialog, Accept, Cancel, Saved, listVars
<1>8. ASSUME NEW t \in Threads, Write(t) PROVE rows' = rows /\ born' = born
  BY <1>8 DEF Write, SkipFile, OpenFile, WriteRow, CloseFile, NextFile, listVars
<1> QED
  BY <1>1, <1>2, <1>3, <1>4, <1>5, <1>6, <1>7, <1>8, Steps DEF Moves

LEMMA ExportsType ==
  ASSUME RangesInv, NEW t, NEW e \in Exports, Becomes(t, e)
  PROVE  exp' \in [Threads -> Exports]
BY DEF RangesInv, Becomes

LEMMA RecordsType ==
  ASSUME NEW pc \in ExportPcs, NEW todo \in Seq(Formats), NEW n \in Nat,
         NEW file \in Seq(0 .. MaxRows), NEW base \in Seq(1 .. MaxRows),
         NEW moved \in BOOLEAN
  PROVE  With(pc, todo, n, file, base, moved) \in Exports
BY DEF With, Exports

LEMMA FreshType ==
  ASSUME NEW todo \in Seq(Formats)
  PROVE  Fresh("next", todo) \in Exports /\ NoExport \in Exports
<1>1. /\ <<>> \in Seq(0 .. MaxRows) /\ <<>> \in Seq(1 .. MaxRows)
      /\ <<>> \in Seq(Formats)
  BY EmptySeq
<1>2. "next" \in ExportPcs /\ "none" \in ExportPcs /\ FALSE \in BOOLEAN /\ 0 \in Nat
  BY DEF ExportPcs
<1>3. NoExport = With("none", <<>>, 0, <<>>, <<>>, FALSE)
  BY DEF NoExport, With
<1> QED
  BY <1>1, <1>2, <1>3, RecordsType DEF Fresh

LEMMA ExportsKept ==
  ASSUME RangesInv, FilesInv, [Next]_vars
  PROVE  exp' \in [Threads -> Exports]
<1>1. CASE Unconcerned
  BY <1>1, UnconcernedSteps DEF RangesInv
<1>2. CASE Moves
  <2>1. ASSUME NEW t \in Threads PROVE [exp[t] EXCEPT !.moved = TRUE] \in Exports
    <3>1. exp[t] \in Exports
      BY DEF RangesInv
    <3> QED
      BY <3>1 DEF Exports
  <2> QED
    BY <1>2, <2>1, MoveSteps
<1>3. ASSUME NEW k \in Scans, EndTests(k) \/ EnableButtons(k)
      PROVE  exp' \in [Threads -> Exports]
  <2>1. CASE EndTests(k)
    <3>1. PICK todo \in Seq(Formats) : Becomes(k, Fresh("next", todo))
      BY <2>1, ExportSteps
    <3> QED
      BY <3>1, FreshType, ExportsType
  <2>2. CASE EnableButtons(k)
    <3>1. Becomes(k, NoExport)
      BY <2>2, ExportSteps
    <3>2. NoExport \in Exports
      BY EmptySeq, FreshType
    <3> QED
      BY <3>1, <3>2, ExportsType
  <2> QED
    BY <1>3, <2>1, <2>2
<1>4. ASSUME NEW t \in Threads, NEW pc \in ExportPcs PROVE At(t, pc) \in Exports
  <2>1. exp[t] \in Exports
    BY DEF RangesInv
  <2> QED
    BY <2>1, RecordsType DEF At, Exports
<1>5. ASSUME NEW s \in Savers,
             Save(s) \/ OpenDialog(s) \/ Accept(s) \/ Cancel(s) \/ Saved(s)
      PROVE  exp' \in [Threads -> Exports]
  <2>1. CASE Save(s) \/ OpenDialog(s)
    <3>1. Becomes(s, At(s, "start")) \/ Becomes(s, At(s, "dialog"))
      BY <2>1, ExportSteps
    <3>2. At(s, "start") \in Exports /\ At(s, "dialog") \in Exports
      BY <1>4 DEF ExportPcs, Threads
    <3> QED
      BY <3>1, <3>2, ExportsType
  <2>2. CASE Accept(s)
    <3>1. PICK todo \in Seq(Formats) : Becomes(s, Fresh("next", todo))
      BY <2>2, ExportSteps
    <3> QED
      BY <3>1, FreshType, ExportsType
  <2>3. CASE Cancel(s) \/ Saved(s)
    <3>1. Becomes(s, NoExport)
      BY <2>3, ExportSteps
    <3>2. NoExport \in Exports
      BY EmptySeq, FreshType
    <3> QED
      BY <3>1, <3>2, ExportsType
  <2> QED
    BY <1>5, <2>1, <2>2, <2>3
<1>6. ASSUME NEW t \in Threads, Write(t) PROVE exp' \in [Threads -> Exports]
  <2>0. /\ exp[t].todo \in Seq(Formats) /\ exp[t].n \in Nat
        /\ exp[t].file \in Seq(0 .. MaxRows) /\ exp[t].base \in Seq(1 .. MaxRows)
        /\ exp[t].moved \in BOOLEAN
    BY DEF RangesInv, Exports
  <2>1. CASE SkipFile(t)
    <3>1. <<>> \in Seq(0 .. MaxRows) /\ "saved" \in ExportPcs
      BY EmptySeq DEF ExportPcs
    <3>2. Becomes(t, With("saved", exp[t].todo, exp[t].n, <<>>, exp[t].base,
                          exp[t].moved))
      BY <2>1, FileSteps
    <3> QED
      BY <2>0, <3>1, <3>2, RecordsType, ExportsType
  <2>2. CASE OpenFile(t)
    <3>1. /\ <<>> \in Seq(0 .. MaxRows) /\ "write" \in ExportPcs /\ FALSE \in BOOLEAN
          /\ rows \in Seq(1 .. MaxRows) /\ Len(rows) \in Nat
      BY EmptySeq, LenProperties DEF ExportPcs, RangesInv
    <3>2. Becomes(t, With("write", exp[t].todo, Len(rows), <<>>, rows, FALSE))
      BY <2>2, FileSteps
    <3> QED
      BY <2>0, <3>1, <3>2, RecordsType, ExportsType
  <2>3. CASE WriteRow(t)
    <3> DEFINE j == Len(exp[t].file)
               line == IF j + 1 <= Len(rows) THEN rows[j + 1] ELSE Blank
               new == Append(exp[t].file, line)
    <3>1. line \in 0 .. MaxRows
      <4>1. j \in Nat /\ Len(rows) \in Nat
        BY <2>0, LenProperties DEF RangesInv
      <4>2. CASE j + 1 <= Len(rows)
        <5>1. j + 1 \in 1 .. Len(rows)
          BY <4>1, <4>2
        <5>2. rows[j + 1] \in 1 .. MaxRows
          BY <5>1, ElementOfSeq DEF RangesInv
        <5> QED
          BY <4>2, <5>2
      <4>3. CASE ~(j + 1 <= Len(rows))
        BY <4>3, RowsAssumption DEF Blank
      <4> QED
        BY <4>2, <4>3
    <3> HIDE DEF line
    <3>2. new \in Seq(0 .. MaxRows)
      BY <2>0, <3>1, AppendProperties
    <3>3. Becomes(t, With("write", exp[t].todo, exp[t].n, new, exp[t].base,
                          exp[t].moved))
      BY <2>3, FileSteps DEF line
    <3>4. "write" \in ExportPcs
      BY DEF ExportPcs
    <3> HIDE DEF new
    <3> QED
      BY <2>0, <3>2, <3>3, <3>4, RecordsType, ExportsType
  <2>4. CASE CloseFile(t)
    <3>1. Becomes(t, At(t, "saved")) /\ At(t, "saved") \in Exports
      BY <1>4, <2>4, FileSteps DEF ExportPcs
    <3> QED
      BY <3>1, ExportsType
  <2>5. CASE NextFile(t)
    <3>1. exp[t].todo # <<>>
      BY <2>5 DEF NextFile, FilesInv
    <3>2. Tail(exp[t].todo) \in Seq(Formats)
      BY <2>0, <3>1, HeadTailProperties
    <3>3. Becomes(t, Fresh("next", Tail(exp[t].todo)))
      BY <2>5, FileSteps
    <3> QED
      BY <3>2, <3>3, FreshType, ExportsType
  <2> QED
    BY <1>6, <2>1, <2>2, <2>3, <2>4, <2>5 DEF Write
<1> QED
  BY <1>1, <1>2, <1>3, <1>5, <1>6, Steps

LEMMA OthersKept ==
  ASSUME RangesInv, [Next]_vars
  PROVE  /\ ini' \in Inis
         /\ scan_start' \in BOOLEAN /\ startOn' \in BOOLEAN /\ reOn' \in BOOLEAN
         /\ late' \in BOOLEAN /\ overlapped' \in BOOLEAN
         /\ save_done' \in BOOLEAN /\ save_current' \in BOOLEAN
         /\ spc' \in [Scans -> ScanPcs]
         /\ kept' \subseteq 0 .. MaxRows
         /\ window' \in {"open", "asking", "closed"}
         /\ answer' \in {"none", "yes", "no"}
<1> DEFINE Goal ==
         /\ ini' \in Inis
         /\ scan_start' \in BOOLEAN /\ startOn' \in BOOLEAN /\ reOn' \in BOOLEAN
         /\ late' \in BOOLEAN /\ overlapped' \in BOOLEAN
         /\ save_done' \in BOOLEAN /\ save_current' \in BOOLEAN
         /\ spc' \in [Scans -> ScanPcs]
         /\ kept' \subseteq 0 .. MaxRows
         /\ window' \in {"open", "asking", "closed"}
         /\ answer' \in {"none", "yes", "no"}
<1> USE DEF RangesInv, ScanPcs, buttonVars, scanVars, saveVars, windowVars
<1>1. CASE Over \/ UNCHANGED vars
  BY <1>1 DEF Over, vars
<1>2. CASE Stop
  BY <1>2 DEF Stop
<1>3. CASE Close \/ Ask
  BY <1>3 DEF Close, Ask, EndDialog
<1>4. CASE AnswerYes \/ AnswerNo
  BY <1>4 DEF AnswerYes, AnswerNo, EndDialog
<1>5. CASE AddLSTVItem \/ Sort
  BY <1>5 DEF AddLSTVItem, Sort
<1>6. ASSUME NEW k \in Scans, StartScan(k) \/ StartExtract(k) PROVE Goal
  BY <1>6 DEF StartScan, StartExtract, Begin
<1>7. ASSUME NEW k \in Scans, EndTests(k) PROVE Goal
  <2>1. late' \in BOOLEAN /\ spc' \in [Scans -> ScanPcs]
    BY <1>7 DEF EndTests
  <2> QED
    BY <1>7, <2>1 DEF EndTests
<1>8. ASSUME NEW k \in Scans, EnableButtons(k) \/ ClearStart(k) PROVE Goal
  BY <1>8 DEF EnableButtons, ClearStart
<1>9. ASSUME NEW s \in Savers,
             Save(s) \/ OpenDialog(s) \/ Accept(s) \/ Cancel(s) \/ Saved(s)
      PROVE  Goal
  BY <1>9 DEF Save, OpenDialog, Accept, Cancel, Saved
<1>10. ASSUME NEW t \in Threads, SkipFile(t) \/ OpenFile(t) \/ WriteRow(t) \/ NextFile(t)
       PROVE  Goal
  BY <1>10 DEF SkipFile, OpenFile, WriteRow, NextFile
<1>11. ASSUME NEW t \in Threads, CloseFile(t) PROVE Goal
  <2>1. Range(exp[t].file) \subseteq 0 .. MaxRows
    <3>1. exp[t].file \in Seq(0 .. MaxRows)
      BY DEF Exports
    <3> QED
      BY <3>1, RangeOfSeq
  <2> QED
    BY <1>11, <2>1 DEF CloseFile
<1> QED
  BY <1>1, <1>2, <1>3, <1>4, <1>5, <1>6, <1>7, <1>8, <1>9, <1>10, <1>11
     DEF Next, DlgMain, ScanThread, SaveWorld, Write

LEMMA RangesKept == RangesInv /\ FilesInv /\ [Next]_vars => RangesInv'
<1> SUFFICES ASSUME RangesInv, FilesInv, [Next]_vars PROVE RangesInv'
  OBVIOUS
<1> QED
  BY RowsKept, ExportsKept, OthersKept DEF RangesInv
-----------------------------------------------------------------------------
LEMMA Fields ==
  ASSUME RangesInv, NEW t, NEW pc, NEW todo, NEW n, NEW file, NEW base, NEW moved,
         Becomes(t, With(pc, todo, n, file, base, moved))
  PROVE  /\ exp'[t].pc = pc /\ exp'[t].todo = todo /\ exp'[t].n = n
         /\ exp'[t].file = file /\ exp'[t].base = base /\ exp'[t].moved = moved
         /\ \A u \in Threads : u # t => exp'[u] = exp[u]
<1>1. exp'[t] = With(pc, todo, n, file, base, moved)
  BY DEF RangesInv, Becomes
<1>2. \A u \in Threads : u # t => exp'[u] = exp[u]
  BY DEF RangesInv, Becomes
<1> QED
  BY <1>1, <1>2 DEF With

LEMMA FieldTypes ==
  ASSUME RangesInv, NEW t \in Threads
  PROVE  /\ exp[t].pc \in ExportPcs /\ exp[t].todo \in Seq(Formats)
         /\ exp[t].n \in Nat /\ exp[t].file \in Seq(0 .. MaxRows)
         /\ exp[t].base \in Seq(1 .. MaxRows) /\ exp[t].moved \in BOOLEAN
         /\ Len(exp[t].file) \in Nat
<1>1. exp[t] \in Exports
  BY DEF RangesInv
<1>2. /\ exp[t].pc \in ExportPcs /\ exp[t].todo \in Seq(Formats)
      /\ exp[t].n \in Nat /\ exp[t].file \in Seq(0 .. MaxRows)
      /\ exp[t].base \in Seq(1 .. MaxRows) /\ exp[t].moved \in BOOLEAN
  BY <1>1 DEF Exports
<1> QED
  BY <1>2, LenProperties

(* Sorting and emptying the list leave of every export all but a mark.     *)
LEMMA MoveFields ==
  ASSUME RangesInv, Moves, NEW t \in Threads
  PROVE  /\ exp'[t].pc = exp[t].pc /\ exp'[t].todo = exp[t].todo
         /\ exp'[t].n = exp[t].n /\ exp'[t].file = exp[t].file
         /\ exp'[t].base = exp[t].base /\ exp'[t].moved = TRUE
<1>1. exp'[t] = [exp[t] EXCEPT !.moved = TRUE]
  BY MoveSteps
<1>2. exp[t] \in Exports
  BY DEF RangesInv
<1> QED
  BY <1>1, <1>2 DEF Exports

(* What becomes of one export in any step: where it gets and what changes. *)
Nothing(t) == exp'[t] = exp[t]

Marked(t) ==
  /\ Moves
  /\ exp'[t].pc = exp[t].pc /\ exp'[t].todo = exp[t].todo
  /\ exp'[t].n = exp[t].n /\ exp'[t].file = exp[t].file
  /\ exp'[t].base = exp[t].base /\ exp'[t].moved = TRUE

Starts(t) ==
  /\ exp'[t].pc \in {"none", "start", "dialog", "next"}
  /\ \/ exp'[t].n = 0 /\ exp'[t].file = <<>>
     \/ exp'[t].n = exp[t].n /\ exp'[t].file = exp[t].file

Opened(t) ==
  /\ OpenFile(t) /\ rows' = rows
  /\ exp'[t].pc = "write" /\ exp'[t].todo = exp[t].todo /\ exp[t].todo # <<>>
  /\ exp'[t].n = Len(rows) /\ exp'[t].file = <<>>
  /\ exp'[t].base = rows /\ exp'[t].moved = FALSE

Wrote(t) ==
  /\ exp[t].pc = "write" /\ Len(exp[t].file) < exp[t].n /\ rows' = rows
  /\ exp'[t].pc = "write" /\ exp'[t].todo = exp[t].todo
  /\ exp'[t].n = exp[t].n /\ exp'[t].base = exp[t].base
  /\ exp'[t].moved = exp[t].moved
  /\ exp'[t].file = Append(exp[t].file,
       IF Len(exp[t].file) + 1 <= Len(rows) THEN rows[Len(exp[t].file) + 1]
                                            ELSE Blank)

Ended(t) ==
  /\ exp'[t].pc = "saved"
  /\ exp'[t].todo = exp[t].todo /\ exp[t].todo # <<>>
  /\ exp'[t].n = exp[t].n
  /\ exp'[t].file = <<>> \/ exp'[t].file = exp[t].file

LEMMA EachExport ==
  ASSUME RangesInv, FilesInv, [Next]_vars, NEW t \in Threads
  PROVE  Nothing(t) \/ Marked(t) \/ Starts(t) \/ Opened(t) \/ Wrote(t) \/ Ended(t)
<1>1. CASE Unconcerned
  BY <1>1, UnconcernedSteps DEF Nothing
<1>2. CASE Moves
  BY <1>2, MoveFields DEF Marked
<1>3. ASSUME NEW u, NEW todo, Becomes(u, Fresh("next", todo))
      PROVE  Nothing(t) \/ Starts(t)
  BY <1>3, Fields DEF Fresh, Nothing, Starts
<1>4. ASSUME NEW u, Becomes(u, NoExport) PROVE Nothing(t) \/ Starts(t)
  <2>1. NoExport = With("none", <<>>, 0, <<>>, <<>>, FALSE)
    BY DEF NoExport, With
  <2> QED
    BY <1>4, <2>1, Fields DEF Nothing, Starts
<1>5. ASSUME NEW u, NEW pc \in {"start", "dialog"}, Becomes(u, At(u, pc))
      PROVE  Nothing(t) \/ Starts(t)
  <2>1. Becomes(u, With(pc, exp[u].todo, exp[u].n, exp[u].file, exp[u].base,
                        exp[u].moved))
    BY <1>5 DEF At
  <2> QED
    BY <2>1, Fields DEF Nothing, Starts
<1>6. ASSUME NEW k \in Scans, EndTests(k) \/ EnableButtons(k)
      PROVE  Nothing(t) \/ Starts(t)
  BY <1>3, <1>4, <1>6, ExportSteps
<1>7. ASSUME NEW s \in Savers,
             Save(s) \/ OpenDialog(s) \/ Accept(s) \/ Cancel(s) \/ Saved(s)
      PROVE  Nothing(t) \/ Starts(t)
  BY <1>3, <1>4, <1>5, <1>7, ExportSteps
<1>8. ASSUME NEW u \in Threads, Write(u)
      PROVE  Nothing(t) \/ Starts(t) \/ Opened(t) \/ Wrote(t) \/ Ended(t)
  <2>1. CASE SkipFile(u)
    <3>1. Becomes(u, With("saved", exp[u].todo, exp[u].n, <<>>, exp[u].base,
                          exp[u].moved))
      BY <2>1, FileSteps
    <3>2. exp[u].todo # <<>>
      BY <2>1 DEF SkipFile
    <3> QED
      BY <3>1, <3>2, Fields DEF Nothing, Ended
  <2>2. CASE OpenFile(u)
    <3>1. Becomes(u, With("write", exp[u].todo, Len(rows), <<>>, rows, FALSE))
      BY <2>2, FileSteps
    <3>2. exp[u].todo # <<>> /\ rows' = rows
      BY <2>2 DEF OpenFile, listVars
    <3> QED
      <4>1. CASE u = t
        <5>1. /\ exp'[t].pc = "write" /\ exp'[t].todo = exp[t].todo
              /\ exp'[t].n = Len(rows) /\ exp'[t].file = <<>>
              /\ exp'[t].base = rows /\ exp'[t].moved = FALSE
          <6>1. PICK f : f = FALSE
            OBVIOUS
          <6>2. Becomes(t, With("write", exp[t].todo, Len(rows), <<>>, rows, f))
            BY <3>1, <4>1, <6>1
          <6> QED
            BY <6>1, <6>2, Fields
        <5> QED
          BY <2>2, <3>2, <4>1, <5>1 DEF Opened
      <4>2. CASE u # t
        BY <3>1, <4>2, Fields DEF Nothing
      <4> QED
        BY <4>1, <4>2
  <2>3. CASE WriteRow(u)
    <3> DEFINE new == Append(exp[u].file, IF Len(exp[u].file) + 1 <= Len(rows)
                                          THEN rows[Len(exp[u].file) + 1] ELSE Blank)
    <3>1. Becomes(u, With("write", exp[u].todo, exp[u].n, new, exp[u].base,
                          exp[u].moved))
      BY <2>3, FileSteps
    <3>2. exp[u].pc = "write" /\ Len(exp[u].file) < exp[u].n /\ rows' = rows
      BY <2>3 DEF WriteRow, listVars
    <3> HIDE DEF new
    <3>3. CASE u = t
      <4>1. /\ exp'[t].pc = "write" /\ exp'[t].todo = exp[t].todo
            /\ exp'[t].n = exp[t].n /\ exp'[t].base = exp[t].base
            /\ exp'[t].moved = exp[t].moved /\ exp'[t].file = new
        BY <3>1, <3>3, Fields
      <4> QED
        BY <3>2, <3>3, <4>1 DEF Wrote, new
    <3>4. CASE u # t
      BY <3>1, <3>4, Fields DEF Nothing
    <3> QED
      BY <3>3, <3>4
  <2>4. CASE CloseFile(u)
    <3>1. Becomes(u, With("saved", exp[u].todo, exp[u].n, exp[u].file, exp[u].base,
                          exp[u].moved))
      BY <2>4, FileSteps DEF At
    <3>2. exp[u].todo # <<>>
      BY <2>4 DEF CloseFile, FilesInv
    <3> QED
      BY <3>1, <3>2, Fields DEF Nothing, Ended
  <2>5. CASE NextFile(u)
    BY <1>3, <2>5, FileSteps
  <2> QED
    BY <1>8, <2>1, <2>2, <2>3, <2>4, <2>5 DEF Write
<1> QED
  BY <1>1, <1>2, <1>6, <1>7, <1>8, Steps

LEMMA FilesKept == RangesInv /\ FilesInv /\ [Next]_vars => FilesInv'
<1> SUFFICES ASSUME RangesInv, FilesInv, [Next]_vars, NEW t \in Threads
             PROVE  /\ Len(exp'[t].file) <= exp'[t].n
                    /\ exp'[t].pc \in {"write", "saved"} => exp'[t].todo # <<>>
  BY DEF FilesInv
<1>1. /\ Len(exp[t].file) <= exp[t].n
      /\ exp[t].pc \in {"write", "saved"} => exp[t].todo # <<>>
  BY DEF FilesInv
<1>2. exp[t].n \in Nat /\ Len(exp[t].file) \in Nat /\ Len(rows) \in Nat
  BY FieldTypes, LenProperties DEF RangesInv
<1>3. Len(<<>>) = 0
  BY EmptySeq
<1>4. CASE Nothing(t) \/ Marked(t)
  BY <1>1, <1>4 DEF Nothing, Marked
<1>5. CASE Starts(t)
  BY <1>1, <1>2, <1>3, <1>5 DEF Starts
<1>6. CASE Opened(t) \/ Ended(t)
  BY <1>1, <1>2, <1>3, <1>6 DEF Opened, Ended
<1>7. CASE Wrote(t)
  <2>1. Len(exp'[t].file) = Len(exp[t].file) + 1
    <3> DEFINE line == IF Len(exp[t].file) + 1 <= Len(rows)
                       THEN rows[Len(exp[t].file) + 1] ELSE Blank
    <3>1. exp[t].file \in Seq((0 .. MaxRows) \union {line})
      <4>1. exp[t].file \in Seq(0 .. MaxRows)
        BY FieldTypes
      <4>2. 0 .. MaxRows \subseteq (0 .. MaxRows) \union {line}
        OBVIOUS
      <4> QED
        BY <4>1, <4>2, SeqMonotonic
    <3>2. exp'[t].file = Append(exp[t].file, line)
      BY <1>7 DEF Wrote
    <3> HIDE DEF line
    <3> QED
      BY <3>1, <3>2, AppendProperties
  <2> QED
    BY <1>1, <1>2, <1>7, <2>1 DEF Wrote
<1> QED
  BY <1>4, <1>5, <1>6, <1>7, EachExport

(* Unless the rows are moved, the list only grows.                         *)
LEMMA RowsGrow ==
  ASSUME RangesInv, [Next]_vars, ~Moves
  PROVE  \/ rows' = rows
         \/ AddLSTVItem /\ \E row \in 1 .. MaxRows : rows' = Append(rows, row)
<1>1. CASE AddLSTVItem
  BY <1>1, RowsAssumption DEF AddLSTVItem, RangesInv
<1>2. ASSUME ~AddLSTVItem, Unconcerned PROVE rows' = rows
  BY <1>2 DEF Unconcerned, Over, Stop, Close, Ask, AnswerYes, AnswerNo, ClearStart,
              vars, listVars
<1>3. ASSUME NEW k \in Scans, EndTests(k) \/ EnableButtons(k) PROVE rows' = rows
  BY <1>3 DEF EndTests, EnableButtons, listVars
<1>4. ASSUME NEW s \in Savers,
             Save(s) \/ OpenDialog(s) \/ Accept(s) \/ Cancel(s) \/ Saved(s)
      PROVE  rows' = rows
  BY <1>4 DEF Save, OpenDialog, Accept, Cancel, Saved, listVars
<1>5. ASSUME NEW t \in Threads, Write(t) PROVE rows' = rows
  BY <1>5 DEF Write, SkipFile, OpenFile, WriteRow, CloseFile, NextFile, listVars
<1> QED
  BY <1>1, <1>2, <1>3, <1>4, <1>5, Steps

LEMMA PrefixKept == RangesInv /\ FilesInv /\ PrefixInv /\ [Next]_vars => PrefixInv'
<1> SUFFICES ASSUME RangesInv, FilesInv, PrefixInv, [Next]_vars, NEW t \in Threads,
                    exp'[t].pc = "write", ~exp'[t].moved
             PROVE  /\ Len(exp'[t].base) = exp'[t].n /\ exp'[t].n <= Len(rows')
                    /\ \A i \in 1 .. exp'[t].n : rows'[i] = exp'[t].base[i]
                    /\ \A i \in 1 .. Len(exp'[t].file) :
                         exp'[t].file[i] = exp'[t].base[i]
  BY DEF PrefixInv
<1>1. /\ exp[t].n \in Nat /\ Len(exp[t].file) \in Nat /\ Len(rows) \in Nat
      /\ rows \in Seq(1 .. MaxRows)
      /\ Len(exp[t].file) <= exp[t].n
  BY FieldTypes, LenProperties DEF RangesInv, FilesInv
<1>2. ~Moves
  BY MoveFields
<1>3. ASSUME exp[t].pc = "write", ~exp[t].moved
      PROVE  /\ Len(exp[t].base) = exp[t].n /\ exp[t].n <= Len(rows)
             /\ \A i \in 1 .. exp[t].n : rows[i] = exp[t].base[i]
             /\ \A i \in 1 .. Len(exp[t].file) : exp[t].file[i] = exp[t].base[i]
  BY <1>3 DEF PrefixInv
<1>4. CASE Nothing(t)
  <2>1. /\ Len(exp[t].base) = exp[t].n /\ exp[t].n <= Len(rows)
        /\ \A i \in 1 .. exp[t].n : rows[i] = exp[t].base[i]
        /\ \A i \in 1 .. Len(exp[t].file) : exp[t].file[i] = exp[t].base[i]
    BY <1>3, <1>4 DEF Nothing
  <2>2. Len(rows') >= Len(rows) /\ \A i \in 1 .. Len(rows) : rows'[i] = rows[i]
    <3>1. CASE rows' = rows
      BY <1>1, <3>1
    <3>2. ASSUME NEW row \in 1 .. MaxRows, rows' = Append(rows, row)
          PROVE  Len(rows') >= Len(rows) /\ \A i \in 1 .. Len(rows) : rows'[i] = rows[i]
      BY <1>1, <3>2, AppendProperties
    <3> QED
      BY <1>2, <3>1, <3>2, RowsGrow
  <2>3. Len(rows') \in Nat
    BY RowsKept, LenProperties
  <2> QED
    BY <1>1, <1>4, <2>1, <2>2, <2>3 DEF Nothing
<1>5. CASE Opened(t)
  <2>1. Len(<<>>) = 0
    BY EmptySeq
  <2> QED
    BY <1>1, <1>5, <2>1 DEF Opened
<1>6. CASE Wrote(t)
  <2> DEFINE j == Len(exp[t].file)
             line == IF j + 1 <= Len(rows) THEN rows[j + 1] ELSE Blank
             new == Append(exp[t].file, line)
  <2>1. /\ exp[t].pc = "write" /\ ~exp[t].moved /\ j < exp[t].n /\ rows' = rows
        /\ exp'[t].n = exp[t].n /\ exp'[t].base = exp[t].base /\ exp'[t].file = new
    BY <1>6 DEF Wrote
  <2>2. /\ Len(exp[t].base) = exp[t].n /\ exp[t].n <= Len(rows)
        /\ \A i \in 1 .. exp[t].n : rows[i] = exp[t].base[i]
        /\ \A i \in 1 .. j : exp[t].file[i] = exp[t].base[i]
    BY <1>3, <2>1
  <2>3. j + 1 \in 1 .. exp[t].n /\ j + 1 <= Len(rows)
    BY <1>1, <2>1, <2>2
  <2>4. line = exp[t].base[j + 1] /\ line \in 0 .. MaxRows
    <3>1. line = rows[j + 1]
      BY <2>3
    <3>2. rows[j + 1] \in 1 .. MaxRows
      <4>1. j + 1 \in 1 .. Len(rows)
        BY <1>1, <2>3
      <4> QED
        BY <1>1, <4>1, ElementOfSeq
    <3> QED
      BY <2>2, <2>3, <3>1, <3>2
  <2> HIDE DEF line
  <2>5. exp[t].file \in Seq(0 .. MaxRows)
    BY FieldTypes
  <2>6. /\ Len(new) = j + 1 /\ new[j + 1] = line
        /\ \A i \in 1 .. j : new[i] = exp[t].file[i]
    BY <2>4, <2>5, AppendProperties
  <2> HIDE DEF new
  <2>7. ASSUME NEW i \in 1 .. Len(new) PROVE new[i] = exp[t].base[i]
    <3>1. i \in 1 .. j \/ i = j + 1
      BY <1>1, <2>6
    <3> QED
      BY <2>2, <2>4, <2>6, <3>1
  <2> QED
    BY <2>1, <2>2, <2>7
<1> QED
  BY <1>4, <1>5, <1>6, EachExport DEF Marked, Starts, Ended
-----------------------------------------------------------------------------
LEMMA SaverKept == RangesInv /\ FilesInv /\ SaverInv /\ [Next]_vars => SaverInv'
<1> SUFFICES ASSUME RangesInv, FilesInv, SaverInv, [Next]_vars PROVE SaverInv'
  OBVIOUS
<1> USE DEF SaverInv, OneSaver
<1>1. ASSUME \A s \in Savers : exp'[s].pc # "none" => exp[s].pc # "none",
             save_current' = save_current
      PROVE  SaverInv'
  BY <1>1
<1>2. CASE Unconcerned
  <2>1. exp' = exp
    BY <1>2, UnconcernedSteps
  <2>2. save_current' = save_current
    BY <1>2 DEF Unconcerned, Over, Stop, Close, Ask, AnswerYes, AnswerNo, AddLSTVItem,
                ClearStart, saveVars, vars
  <2> QED
    BY <1>1, <2>1, <2>2
<1>3. CASE Moves
  <2>1. save_current' = save_current
    BY <1>3 DEF Moves, Sort, StartScan, StartExtract, Begin, saveVars
  <2>2. \A s \in Savers : exp'[s].pc = exp[s].pc
    BY <1>3, MoveFields DEF Threads
  <2> QED
    BY <1>1, <2>1, <2>2
<1>4. ASSUME NEW k \in Scans, EndTests(k) \/ EnableButtons(k) PROVE SaverInv'
  <2>1. save_current' = save_current
    BY <1>4 DEF EndTests, EnableButtons, saveVars
  <2>2. \A s \in Savers : exp'[s] = exp[s]
    <3> SUFFICES ASSUME NEW s \in Savers PROVE exp'[s] = exp[s]
      OBVIOUS
    <3>1. s # k /\ s \in Threads
      BY SaversAssumption DEF Threads
    <3> QED
      BY <1>4, <3>1, ExportSteps DEF Becomes, RangesInv
  <2> QED
    BY <1>1, <2>1, <2>2
<1>5. ASSUME NEW s \in Savers, Save(s) PROVE SaverInv'
  <2>1. ~save_current /\ save_current'
    BY <1>5 DEF Save
  <2>2. \A r \in Savers : exp[r].pc = "none"
    BY <2>1
  <2>3. \A r \in Savers : r # s => exp'[r] = exp[r]
    BY <1>5, ExportSteps DEF Becomes, RangesInv, Threads
  <2> QED
    BY <2>1, <2>2, <2>3
<1>6. ASSUME NEW s \in Savers, OpenDialog(s) \/ Accept(s) \/ Cancel(s)
      PROVE  SaverInv'
  <2>1. save_current' = save_current /\ exp[s].pc # "none"
    BY <1>6 DEF OpenDialog, Accept, Cancel, saveVars
  <2>2. \A r \in Savers : r # s => exp'[r] = exp[r]
    BY <1>6, ExportSteps DEF Becomes, RangesInv, Threads
  <2> QED
    BY <1>1, <2>1, <2>2
<1>7. ASSUME NEW s \in Savers, Saved(s) PROVE SaverInv'
  <2>1. exp[s].pc # "none"
    BY <1>7 DEF Saved
  <2>2. \A r \in Savers : r # s => exp[r].pc = "none"
    BY <2>1
  <2>3. /\ \A r \in Savers : r # s => exp'[r] = exp[r]
        /\ exp'[s] = NoExport
    BY <1>7, ExportSteps DEF Becomes, RangesInv, Threads
  <2>4. exp'[s].pc = "none"
    BY <2>3 DEF NoExport
  <2> QED
    BY <2>2, <2>3, <2>4
<1>8. ASSUME NEW t \in Threads, Write(t) PROVE SaverInv'
  <2>1. save_current' = save_current /\ exp[t].pc # "none"
    BY <1>8 DEF Write, SkipFile, OpenFile, WriteRow, CloseFile, NextFile, saveVars
  <2>2. \A r \in Savers : r # t => exp'[r] = exp[r]
    BY <1>8, FileSteps DEF Write, Becomes, RangesInv, Threads
  <2> QED
    BY <1>1, <2>1, <2>2
<1> QED
  BY <1>2, <1>3, <1>4, <1>5, <1>6, <1>7, <1>8, Steps

(* The scans that have begun, and what the two buttons do about them.      *)
LEMMA ApartKept == RangesInv /\ ApartInv /\ [Next]_vars => ApartInv'
<1> SUFFICES ASSUME RangesInv, ApartInv, [Next]_vars, ~overlapped'
             PROVE  OneScan' /\ ButtonsOff'
  BY DEF ApartInv
<1> USE DEF OneScan, ButtonsOff, UnderWay, Working, Alive
<1>1. ASSUME UNCHANGED <<spc, overlapped>>,
             UNCHANGED buttonVars \/ window' = "closed",
             window' # "closed" => window # "closed"
      PROVE  OneScan' /\ ButtonsOff'
  BY <1>1 DEF ApartInv, buttonVars
<1>2. CASE Over \/ Close \/ Ask \/ AnswerYes \/ AnswerNo \/ AddLSTVItem \/ Sort
           \/ UNCHANGED vars
  BY <1>1, <1>2 DEF Over, Close, Ask, AnswerYes, AnswerNo, EndDialog, AddLSTVItem,
       Sort, vars, scanVars, windowVars, buttonVars, GuiFree
<1>3. CASE Stop
  <2>1. /\ UNCHANGED <<spc, overlapped, window>>
        /\ scan_start /\ ~scan_start'
        /\ \/ startOn /\ ~startOn' /\ reOn' = reOn
           \/ reOn /\ ~reOn' /\ startOn' = startOn
        /\ window # "closed"
    BY <1>3 DEF Stop, scanVars, windowVars, GuiFree
  <2> QED
    BY <2>1 DEF ApartInv
<1>4. ASSUME NEW k \in Scans, StartScan(k) \/ StartExtract(k)
      PROVE  OneScan' /\ ButtonsOff'
  <2>1. /\ ~scan_start /\ window # "closed"
        /\ startOn \/ reOn
        /\ scan_start'
        /\ ~startOn' \/ ~reOn'
        /\ \E kind \in {"scan", "extract"} : spc' = [spc EXCEPT ![k] = kind]
        /\ ~overlapped /\ \A j \in Scans : spc[j] # "enabled"
    BY <1>4 DEF StartScan, StartExtract, Begin, GuiFree
  <2>2. \A j \in Scans : ~UnderWay(j)
    BY <2>1 DEF ApartInv
  <2> QED
    BY <2>1, <2>2 DEF RangesInv
<1>5. ASSUME NEW k \in Scans, EndTests(k) PROVE OneScan' /\ ButtonsOff'
  <2>1. /\ UNCHANGED <<overlapped, window, scan_start, startOn, reOn>>
        /\ Working(k)
        /\ \E new \in {"saving", "extracted"} : spc' = [spc EXCEPT ![k] = new]
    BY <1>5 DEF EndTests, buttonVars, windowVars
  <2> QED
    BY <2>1 DEF ApartInv, RangesInv
<1>6. ASSUME NEW k \in Scans, EnableButtons(k) PROVE OneScan' /\ ButtonsOff'
  <2>1. /\ overlapped' = overlapped
        /\ Working(k) /\ spc' = [spc EXCEPT ![k] = "enabled"]
    BY <1>6 DEF EnableButtons
  <2>2. \A j \in Scans : j # k => ~UnderWay(j)
    BY <2>1 DEF ApartInv
  <2> QED
    BY <2>1, <2>2 DEF RangesInv
<1>7. ASSUME NEW k \in Scans, ClearStart(k) PROVE OneScan' /\ ButtonsOff'
  <2>1. /\ overlapped' = overlapped
        /\ UnderWay(k) /\ spc' = [spc EXCEPT ![k] = "done"]
    BY <1>7 DEF ClearStart
  <2>2. \A j \in Scans : j # k => ~UnderWay(j)
    BY <2>1 DEF ApartInv
  <2> QED
    BY <2>1, <2>2 DEF RangesInv
<1>8. ASSUME NEW s \in Savers,
             Save(s) \/ OpenDialog(s) \/ Accept(s) \/ Cancel(s) \/ Saved(s)
      PROVE  OneScan' /\ ButtonsOff'
  BY <1>1, <1>8 DEF Save, OpenDialog, Accept, Cancel, Saved, scanVars, windowVars
<1>9. ASSUME NEW t \in Threads, Write(t) PROVE OneScan' /\ ButtonsOff'
  BY <1>1, <1>9 DEF Write, SkipFile, OpenFile, WriteRow, CloseFile, NextFile,
       scanVars, windowVars
<1> QED
  BY <1>2, <1>3, <1>4, <1>5, <1>6, <1>7, <1>8, <1>9
     DEF Next, DlgMain, ScanThread, SaveWorld

(* The automatic save: nobody moves or adds a row while it is written.     *)
LEMMA SaveExactKept ==
  ASSUME RangesInv, FilesInv, ApartInv, AutoSaveExact, [Next]_vars
  PROVE  AutoSaveExact'
<1> SUFFICES ASSUME NEW k \in Scans, spc'[k] \in {"saving", "extracted"},
                    exp'[k].pc = "write", ~late', ~overlapped'
             PROVE  ~exp'[k].moved /\ rows' = exp'[k].base
  BY DEF AutoSaveExact
<1> k \in Threads
  BY DEF Threads
<1>1. ~late /\ ~overlapped
  <2> USE DEF scanVars, RangesInv
  <2>1. CASE Over \/ Stop \/ Close \/ Ask \/ AnswerYes \/ AnswerNo \/ AddLSTVItem
             \/ Sort \/ UNCHANGED vars
    BY <2>1 DEF Over, Stop, Close, Ask, AnswerYes, AnswerNo, AddLSTVItem, Sort, vars
  <2>2. ASSUME NEW j \in Scans, StartScan(j) \/ StartExtract(j)
        PROVE  ~late /\ ~overlapped
    BY <2>2 DEF StartScan, StartExtract, Begin
  <2>3. ASSUME NEW j \in Scans, EndTests(j) PROVE ~late /\ ~overlapped
    BY <2>3 DEF EndTests
  <2>4. ASSUME NEW j \in Scans, EnableButtons(j) \/ ClearStart(j)
        PROVE  ~late /\ ~overlapped
    BY <2>4 DEF EnableButtons, ClearStart
  <2>5. ASSUME NEW s \in Savers,
               Save(s) \/ OpenDialog(s) \/ Accept(s) \/ Cancel(s) \/ Saved(s)
        PROVE  ~late /\ ~overlapped
    BY <2>5 DEF Save, OpenDialog, Accept, Cancel, Saved
  <2>6. ASSUME NEW t \in Threads, Write(t) PROVE ~late /\ ~overlapped
    BY <2>6 DEF Write, SkipFile, OpenFile, WriteRow, CloseFile, NextFile
  <2> QED
    BY <2>1, <2>2, <2>3, <2>4, <2>5, <2>6 DEF Next, DlgMain, ScanThread, SaveWorld
<1>2. CASE EndTests(k)
  <2>1. PICK todo \in Seq(Formats) : Becomes(k, Fresh("next", todo))
    BY <1>2, ExportSteps
  <2>2. exp'[k].pc = "next"
    BY <2>1, Fields DEF Fresh
  <2> QED
    BY <2>2
<1>3. CASE ~EndTests(k)
  <2>1. spc[k] \in {"saving", "extracted"}
    <3> USE DEF scanVars, RangesInv
    <3>1. CASE Over \/ Stop \/ Close \/ Ask \/ AnswerYes \/ AnswerNo \/ AddLSTVItem
               \/ Sort \/ UNCHANGED vars
      BY <3>1 DEF Over, Stop, Close, Ask, AnswerYes, AnswerNo, AddLSTVItem, Sort, vars
    <3>2. ASSUME NEW j \in Scans, StartScan(j) \/ StartExtract(j)
          PROVE  spc[k] \in {"saving", "extracted"}
      BY <3>2 DEF StartScan, StartExtract, Begin
    <3>3. ASSUME NEW j \in Scans, EndTests(j) \/ EnableButtons(j) \/ ClearStart(j)
          PROVE  spc[k] \in {"saving", "extracted"}
      BY <1>3, <3>3 DEF EndTests, EnableButtons, ClearStart
    <3>4. ASSUME NEW s \in Savers,
                 Save(s) \/ OpenDialog(s) \/ Accept(s) \/ Cancel(s) \/ Saved(s)
          PROVE  spc[k] \in {"saving", "extracted"}
      BY <3>4 DEF Save, OpenDialog, Accept, Cancel, Saved
    <3>5. ASSUME NEW t \in Threads, Write(t) PROVE spc[k] \in {"saving", "extracted"}
      BY <3>5 DEF Write, SkipFile, OpenFile, WriteRow, CloseFile, NextFile
    <3> QED
      BY <3>1, <3>2, <3>3, <3>4, <3>5 DEF Next, DlgMain, ScanThread, SaveWorld
  <2>2. Working(k) /\ \A j \in Scans : j # k => ~Working(j)
    BY <1>1, <2>1 DEF ApartInv, OneScan, UnderWay, Working
  <2>3. ~Moves
    <3>1. CASE Sort
      BY <1>1, <2>2, <3>1 DEF Sort, ApartInv, ButtonsOff, GuiFree, Alive
    <3>2. ASSUME NEW j \in Scans, StartScan(j) \/ StartExtract(j) PROVE FALSE
      BY <1>1, <2>2, <3>2 DEF StartScan, StartExtract, Begin, ApartInv, ButtonsOff,
                              GuiFree, Alive
    <3> QED
      BY <3>1, <3>2 DEF Moves
  <2>4. rows' = rows
    <3>1. ~AddLSTVItem
      BY <1>1, <2>1, <2>2 DEF AddLSTVItem, Working
    <3> QED
      BY <2>3, <3>1, RowsGrow
  <2>5. exp[k].pc = "write" => ~exp[k].moved /\ rows = exp[k].base
    BY <1>1, <2>1 DEF AutoSaveExact
  <2>6. CASE Nothing(k)
    BY <2>4, <2>5, <2>6 DEF Nothing
  <2>7. CASE Opened(k)
    BY <2>4, <2>7 DEF Opened
  <2>8. CASE Wrote(k)
    BY <2>4, <2>5, <2>8 DEF Wrote
  <2> QED
    BY <2>3, <2>6, <2>7, <2>8, EachExport DEF Marked, Starts, Ended
<1> QED
  BY <1>2, <1>3
-----------------------------------------------------------------------------
THEOREM ResultsInvHolds == Spec => []ResultsInv
<1>1. ResultsInv /\ [Next]_vars => ResultsInv'
  BY RangesKept, FilesKept, PrefixKept, SaverKept, ApartKept, SaveExactKept
     DEF ResultsInv
<1> QED
  BY <1>1, InitIsResultsInv, PTL DEF Spec

(* save_current (main.c) lets one SaveWorld thread at a time be at work.   *)
THEOREM OneSaverHolds == Spec => []OneSaver
<1>1. ResultsInv => OneSaver
  BY DEF ResultsInv, SaverInv
<1> QED
  BY <1>1, ResultsInvHolds, PTL

(* SaveLSTV writes the beginning of the list it counted, row by row, until *)
(* somebody sorts or empties it, whatever is inserted meanwhile.           *)
THEOREM ExportsAreFaithful == Spec => []ExportFaithful
<1>1. ResultsInv => ExportFaithful
  <2> SUFFICES ASSUME ResultsInv PROVE ExportFaithful
    OBVIOUS
  <2>1. RangesInv /\ FilesInv /\ PrefixInv
    BY DEF ResultsInv
  <2>2. TypeOK
    <3>1. \A t \in Threads :
            /\ exp[t].pc \in ExportPcs /\ exp[t].todo \in Seq(Formats)
            /\ Len(exp[t].file) <= exp[t].n /\ exp[t].file \in Seq(0 .. MaxRows)
      BY <2>1, FieldTypes DEF FilesInv
    <3> QED
      BY <2>1, <3>1 DEF TypeOK, RangesInv, ScanPcs
  <2>3. ASSUME NEW t \in Threads, exp[t].pc = "write", ~exp[t].moved
        PROVE  exp[t].file = SubSeq(exp[t].base, 1, Len(exp[t].file))
    <3> DEFINE file == exp[t].file
               base == exp[t].base
               S == 0 .. MaxRows
    <3>1. /\ file \in Seq(S) /\ base \in Seq(1 .. MaxRows)
          /\ Len(file) \in Nat /\ Len(file) <= Len(base)
          /\ \A i \in 1 .. Len(file) : file[i] = base[i]
      BY <2>1, <2>3, FieldTypes DEF FilesInv, PrefixInv
    <3>2. \A i \in 1 .. Len(file) : base[i] \in S
      BY <3>1, ElementOfSeq
    <3> HIDE DEF file, base, S
    <3>3. /\ SubSeq(base, 1, Len(file)) \in Seq(S)
          /\ Len(SubSeq(base, 1, Len(file))) = Len(file)
          /\ \A i \in 1 .. Len(file) : SubSeq(base, 1, Len(file))[i] = base[i]
      BY <3>1, <3>2, SubSeqProperties
    <3>4. file = SubSeq(base, 1, Len(file))
      BY <3>1, <3>3, SeqEqual
    <3> QED
      BY <3>4 DEF file, base
  <2> QED
    BY <2>2, <2>3 DEF ExportFaithful
<1> QED
  BY <1>1, ResultsInvHolds, PTL

(* What scan and extraction save of their own accord is their whole list,  *)
(* unless threads were left behind or a scan began too early.              *)
THEOREM AutoSaveIsExact == Spec => []AutoSaveExact
<1>1. ResultsInv => AutoSaveExact
  BY DEF ResultsInv
<1> QED
  BY <1>1, ResultsInvHolds, PTL
=============================================================================
