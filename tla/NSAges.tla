------------------------------- MODULE NSAges -------------------------------
(***************************************************************************)
(* Whether a machine counts as up to date: the automatic scan compares the *)
(* date of the last Windows update, of the virus definitions and of the    *)
(* last virus scan with today, and writes OK when at most interval days    *)
(* lie between them. It never computes that number: it compares years,     *)
(* months and days, in unsigned integers, three times over with the same   *)
(* text. Here is that comparison, and the calendar to hold it against.     *)
(***************************************************************************)
EXTENDS Integers

CONSTANTS
  Years,       (* of the dates that are met                                 *)
  Intervals    (* of NS.ini; 30 for Windows updates                         *)

(* Every fourth year is a leap year; intervals are of one month at most.   *)
ASSUME CalendarAssumption ==
  Years \subseteq 1901 .. 2099 /\ Intervals \subseteq 0 .. 31

Months == 1 .. 12
LeapDays(y) == IF y % 4 = 0 THEN 1 ELSE 0

DaysIn(y, m) ==
  IF m = 2 THEN 28 + LeapDays(y) ELSE IF m \in {4, 6, 9, 11} THEN 30 ELSE 31

DaysBefore == <<0, 31, 59, 90, 120, 151, 181, 212, 243, 273, 304, 334>>

Dates ==
  {date \in [y : Years, m : Months, d : 1 .. 31] : date.d <= DaysIn(date.y, date.m)}

(* The number of a date's day, counted from the end of the year 1900.      *)
DayNumber(date) ==
  365 * (date.y - 1901) + (date.y - 1901) \div 4 + DaysBefore[date.m]
    + (IF date.m > 2 THEN LeapDays(date.y) ELSE 0) + date.d

Age(today, last) == DayNumber(today) - DayNumber(last)
-----------------------------------------------------------------------------
(* A negative difference is a huge unsigned number.                        *)
Within(days, interval) == days \in 0 .. interval

SameMonth(today, last) == today.m = last.m /\ today.y = last.y

(* The years are not compared.                                             *)
NextMonth(today, last) == today.m - last.m = 1

(* Mutant: the years are not compared at the turn of the year either.      *)
NextYearAny(today, last) == today.m = 1 /\ last.m = 12

NextYear(today, last) == today.y - last.y = 1 /\ today.m = 1 /\ last.m = 12

(* "exact calcul", by the length of the month today is in.                 *)
Ref(m) == IF m = 2 THEN 27 ELSE IF m \in {4, 6, 9, 11} THEN 30 ELSE 31

UpToDate(today, last, interval) ==
  \/ /\ SameMonth(today, last)
     /\ Within(today.d - last.d, interval)
  \/ /\ NextMonth(today, last)
     /\ Within(27 - last.d + today.d, interval)
     /\ Within(Ref(today.m) - last.d + today.d, interval)
  \/ /\ NextYear(today, last)
     /\ Within(31 - last.d + today.d, interval)
-----------------------------------------------------------------------------
(* Whom the unsigned difference hides: updates of the last days of a month *)
(* on the first days of the next one, which are never OK.                  *)
Wrapped(today, last) == NextMonth(today, last) /\ last.d > today.d + 27

(* OK is written only for what is at most four days older than the         *)
(* interval says (in February; one day in the months of 30 days) -- unless *)
(* it is of the month before in another year.                              *)
OkIsRecent(today, last, interval) ==
  /\ UpToDate(today, last, interval)
  /\ NextMonth(today, last) => today.y = last.y
  => Age(today, last) \in
       0 .. interval + (IF today.m = 2 THEN 4
                        ELSE IF today.m \in {4, 6, 9, 11} THEN 1 ELSE 0)

(* And NOK only for what is at most three days younger (in March), but for *)
(* the updates that the unsigned difference hides.                         *)
RecentIsOk(today, last, interval) ==
  /\ Age(today, last) \in 0 .. interval - (IF today.m = 3 THEN 3 ELSE 1)
  /\ ~Wrapped(today, last)
  => UpToDate(today, last, interval)

(* Whatever the dates, across leap years and turns of the year, machines   *)
(* are told up to date or not as their age says, to these few days.        *)
AgesTold ==
  \A today, last \in Dates, interval \in Intervals :
    OkIsRecent(today, last, interval) /\ RecentIsOk(today, last, interval)
=============================================================================
