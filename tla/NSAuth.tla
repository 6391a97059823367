------------------------------- MODULE NSAuth -------------------------------
(***************************************************************************)
(* How a worker of NS opens a Windows machine and reads its registry: the  *)
(* walk through the accounts of NetConnexionAuthenticateTest, and the      *)
(* registry service of the machine, started when it does not answer and    *)
(* stopped again. An automatic scan authenticates once for the account     *)
(* policy, and again for the registry; a scan and an extraction do so once.*)
(* Only an extraction does not look whether it was stopped before it opens *)
(* the registry, and only what it does after it looks.                     *)
(*                                                                         *)
(* Connections to a machine are shared by all threads of the program; one  *)
(* that is cancelled is gone for all of them. An address that is listed    *)
(* twice, or is in two intervals, has two workers.                         *)
(***************************************************************************)
EXTENDS Integers

CONSTANTS
  Workers, Machines,
  NbAccounts    (* the accounts of the list, numbered from 0                *)

ASSUME AccountsAssumption == NbAccounts \in Nat \ {0}

Modes == {"single", "file", "list"}
Jobs == {"scan", "auto", "extract"}

VARIABLES
  mode,        (* no list, one account per address, or a list to walk       *)
  job,         (* what runs                                                 *)
  scan_start,
  machine,     (* the machine of each worker                                *)
  found,       (* the machines whose registry service was running           *)
  running,     (* those where it is now                                     *)
  stuck,       (* those where it could not be stopped again                 *)
  left,        (* those where an extraction did not try to                  *)
  net,         (* the machines there is a connection to                     *)
  pc,          (* each worker                                               *)
  pass,        (* 1: account policy, 2: registry                            *)
  account,     (* the loop variable of the walk                             *)
  id_ok,       (* the account that worked, -1: none yet                     *)
  token,       (* workers with an open logon token                          *)
  connect,     (* workers that know that they are connected                 *)
  started,     (* workers that started the service                          *)
  unknown      (* machines connected to without a token to tell so          *)

fixedVars == <<mode, job, machine, found>>
serviceVars == <<running, stuck, left, started>>
walkVars == <<net, account, id_ok, token, connect, unknown>>
vars == <<fixedVars, scan_start, serviceVars, walkVars, pc, pass>>

Init ==
  /\ mode \in Modes /\ job \in Jobs
  /\ scan_start = TRUE
  /\ machine \in [Workers -> Machines]
  /\ found \in SUBSET Machines /\ running = found /\ stuck = {} /\ left = {}
  /\ net = {} /\ unknown = {}
  /\ pc = [w \in Workers |-> "begin"]
  /\ pass = [w \in Workers |-> IF job = "auto" THEN 1 ELSE 2]
  /\ account = [w \in Workers |-> 0]
  /\ id_ok = [w \in Workers |-> -1]
  /\ token = {} /\ connect = {} /\ started = {}

Stop ==
  /\ scan_start
  /\ scan_start' = FALSE
  /\ UNCHANGED <<fixedVars, serviceVars, walkVars, pc, pass>>

Go(w, from, to) ==
  /\ pc[w] = from
  /\ pc' = [pc EXCEPT ![w] = to]
  /\ UNCHANGED <<fixedVars, scan_start, pass>>
-----------------------------------------------------------------------------
(* NetConnexionAuthenticateTest. A logon may give a token or not; the walk *)
(* begins with the account that worked before.                             *)

LogonUser(w) ==
  /\ job # "auto" \/ scan_start
  /\ Go(w, "begin", "account")
  /\ token' \in {token, token \union {w}}
  /\ account' = [account EXCEPT ![w] = IF id_ok[w] > -1 THEN id_ok[w] ELSE 0]
  /\ UNCHANGED <<serviceVars, net, id_ok, connect, unknown>>

NoLogon(w) ==
  /\ job = "auto" /\ ~scan_start
  /\ Go(w, "begin", "authenticated")
  /\ UNCHANGED <<serviceVars, walkVars>>

(* The handle that is returned is the token; in a walk of the list, 1 when *)
(* there is none. A single account without a token returns 0, as a failure *)
(* does.                                                                   *)
AddConnection(w) ==
  /\ Go(w, "account", "authenticated")
  /\ net' = net \union {machine[w]}
  /\ id_ok' = [id_ok EXCEPT ![w] = IF mode = "list" THEN account[w] ELSE @]
  /\ IF w \in token \/ mode = "list"
     THEN connect' = connect \union {w} /\ UNCHANGED unknown
     ELSE unknown' = unknown \union {machine[w]} /\ UNCHANGED connect
  /\ UNCHANGED <<serviceVars, account, token>>

(* Mutant: the token of a refused account stays open.                      *)
AddConnectionFailsOpen(w) ==
  LET next == mode = "list" /\ account[w] + 1 < NbAccounts IN
  /\ Go(w, "account", IF next THEN "account" ELSE "authenticated")
  /\ account' = [account EXCEPT ![w] = IF next THEN @ + 1 ELSE @]
  /\ UNCHANGED <<serviceVars, net, id_ok, token, connect, unknown>>

AddConnectionFails(w) ==
  LET next == mode = "list" /\ account[w] + 1 < NbAccounts IN
  /\ Go(w, "account", IF next THEN "account" ELSE "authenticated")
  /\ token' = token \ {w}
  /\ account' = [account EXCEPT ![w] = IF next THEN @ + 1 ELSE @]
  /\ UNCHANGED <<serviceVars, net, id_ok, connect, unknown>>
-----------------------------------------------------------------------------
(* RemoteRegistryNetConnexion, its namesake of the automatic scan, and     *)
(* RemoteRegistryExtract; RemoteConnexionScan_auto_scan is pass 1.         *)

Open(w) == machine[w] \in running

NoRegistry(w) ==
  /\ pass[w] = 1 \/ (job # "extract" /\ ~scan_start)
  /\ Go(w, "authenticated", "leave")
  /\ UNCHANGED <<serviceVars, walkVars>>

(* RegConnectRegistry; it may fail for other reasons as well. What follows *)
(* is given up by an extraction that was stopped.                          *)
ConnectRegistry(w) ==
  /\ pass[w] = 2 /\ (job = "extract" \/ scan_start)
  /\ \/ Open(w) /\ Go(w, "authenticated", IF scan_start THEN "work" ELSE "leave")
     \/ Go(w, "authenticated", IF w \in connect THEN "start" ELSE "leave")
  /\ UNCHANGED <<serviceVars, walkVars>>

(* Mutant: a service that runs already counts as started.                  *)
StartServiceAnyway(w) ==
  \/ /\ Go(w, "start", "reconnect")
     /\ running' = running \union {machine[w]} /\ started' = started \union {w}
     /\ UNCHANGED <<stuck, left, walkVars>>
  \/ Go(w, "start", "leave") /\ UNCHANGED <<serviceVars, walkVars>>

(* StartRemoteRegistryService: starting a service that runs is a failure.  *)
StartService(w) ==
  \/ /\ ~Open(w)
     /\ Go(w, "start", "reconnect")
     /\ running' = running \union {machine[w]} /\ started' = started \union {w}
     /\ UNCHANGED <<stuck, left, walkVars>>
  \/ Go(w, "start", "leave") /\ UNCHANGED <<serviceVars, walkVars>>

(* After ten seconds. The extraction stops the service at the end of its   *)
(* work only.                                                              *)
Reconnect(w) ==
  \/ /\ Open(w) /\ (job = "extract" => scan_start)
     /\ Go(w, "reconnect", "work") /\ UNCHANGED <<serviceVars, walkVars>>
  \/ /\ job # "extract"
     /\ Go(w, "reconnect", "stop") /\ UNCHANGED <<serviceVars, walkVars>>
  \/ /\ job = "extract"
     /\ Go(w, "reconnect", "leave")
     /\ started' = started \ {w} /\ left' = left \union {machine[w]}
     /\ UNCHANGED <<running, stuck, walkVars>>

(* Each part of the work is skipped after a Stop.                          *)
Work(w) ==
  /\ Go(w, "work", IF w \in started THEN "stop" ELSE "leave")
  /\ UNCHANGED <<serviceVars, walkVars>>

StopService(w) ==
  /\ Go(w, "stop", "leave")
  /\ started' = started \ {w}
  /\ \/ running' = running \ {machine[w]} /\ UNCHANGED stuck
     \/ stuck' = stuck \union {machine[w]} /\ UNCHANGED running
  /\ UNCHANGED <<left, walkVars>>

(* Only who knows of a connection cancels it and closes a token.           *)
LeaveMachine(w) ==
  /\ pc[w] = "leave"
  /\ IF w \in connect
     THEN net' = net \ {machine[w]} /\ token' = token \ {w}
     ELSE UNCHANGED <<net, token>>
  /\ connect' = connect \ {w}
  /\ pc' = [pc EXCEPT ![w] = IF pass[w] = 1 THEN "begin" ELSE "done"]
  /\ pass' = [pass EXCEPT ![w] = 2]
  /\ UNCHANGED <<fixedVars, scan_start, serviceVars, account, id_ok, unknown>>

Worker(w) ==
  \/ LogonUser(w) \/ NoLogon(w) \/ AddConnection(w) \/ AddConnectionFails(w)
  \/ NoRegistry(w) \/ ConnectRegistry(w) \/ StartService(w) \/ Reconnect(w)
  \/ Work(w) \/ StopService(w) \/ LeaveMachine(w)

Next == Stop \/ \E w \in Workers : Worker(w)

Spec == Init /\ [][Next]_vars
-----------------------------------------------------------------------------
(* The registry service of a machine is left as it was found, however many *)
(* workers meet there and whenever the scan is stopped, unless stopping it *)
(* failed, or an extraction was stopped or could not connect after it had  *)
(* started it: beyond the machines where it ran before, it runs where the  *)
(* one worker that started it is still at work, and that one will stop it. *)
ServiceRestored ==
  /\ \A m \in Machines \ (stuck \union left) :
       m \in running <=> m \in found \/ \E w \in started : machine[w] = m
  /\ \A w, v \in started : machine[w] = machine[v] => w = v
  /\ \A w \in started : pc[w] \in {"reconnect", "work", "stop"}
  /\ found \subseteq running /\ (left # {} => job = "extract")

(* When the workers of a machine are gone, no token is open and there is   *)
(* no connection to it, unless one of them connected with its only account *)
(* but without a token, which its caller takes for a failure.              *)
NothingLeft == \A m \in Machines :
  LET here == {w \in Workers : machine[w] = m} IN
  (\A w \in here : pc[w] = "done") =>
    token \intersect here = {} /\ (m \in net => m \in unknown)
=============================================================================
