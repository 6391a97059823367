---------------------------- MODULE ScanContract ----------------------------
(***************************************************************************)
(* What a scan of NS promises its user, whatever threads and semaphores it *)
(* is made of: addresses are taken in the order of the list and tested at  *)
(* most once; Stop lets at most one more address begin; the scan is over   *)
(* only when no test is running, and without a Stop only when every        *)
(* address was tested. After a Stop it may instead give up waiting.        *)
(***************************************************************************)
EXTENDS Integers

CONSTANT NbIp        (* how many addresses the list has                    *)

Addresses == 0 .. NbIp - 1

VARIABLES
  status,   (* "todo", "testing" or "tested", per address                  *)
  stopped,  (* the user asked for the end                                  *)
  more,     (* another address may still begin                             *)
  phase     (* "running", "over", or "gave_up"                             *)

vars == <<status, stopped, more, phase>>

TypeOK ==
  /\ status \in [Addresses -> {"todo", "testing", "tested"}]
  /\ stopped \in BOOLEAN
  /\ more \in BOOLEAN
  /\ phase \in {"running", "over", "gave_up"}

Init ==
  /\ status = [a \in Addresses |-> "todo"]
  /\ stopped = FALSE
  /\ more = TRUE
  /\ phase = "running"

Begin(a) ==
  /\ phase = "running" /\ more
  /\ status[a] = "todo"
  /\ \A b \in 0 .. a - 1 : status[b] # "todo"
  /\ status' = [status EXCEPT ![a] = "testing"]
  /\ more' = ~stopped
  /\ UNCHANGED <<stopped, phase>>

Complete(a) ==
  /\ status[a] = "testing"
  /\ status' = [status EXCEPT ![a] = "tested"]
  /\ UNCHANGED <<stopped, more, phase>>

Stop ==
  /\ ~stopped
  /\ stopped' = TRUE
  /\ more' \in BOOLEAN
  /\ UNCHANGED <<status, phase>>

End ==
  /\ phase = "running"
  /\ \A a \in Addresses : status[a] # "testing"
  /\ stopped \/ \A a \in Addresses : status[a] = "tested"
  /\ phase' = "over"
  /\ UNCHANGED <<status, stopped, more>>

GiveUp ==
  /\ phase = "running"
  /\ stopped
  /\ phase' = "gave_up"
  /\ UNCHANGED <<status, stopped, more>>

Next ==
  \/ \E a \in Addresses : Begin(a) \/ Complete(a)
  \/ Stop \/ End \/ GiveUp

Spec == Init /\ [][Next]_vars
=============================================================================
