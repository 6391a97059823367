---------------------------- MODULE NSAuth_proofs ----------------------------
(***************************************************************************)
(* The registry services and the connections a scan leaves behind, for any *)
(* number of workers, machines and accounts.                               *)
(***************************************************************************)
EXTENDS NSAuth, TLAPS

Points == {"begin", "account", "authenticated", "start", "reconnect",
           "work", "stop", "leave", "done"}

AuthTypes ==
  /\ machine \in [Workers -> Machines]
  /\ pc \in [Workers -> Points]
  /\ started \subseteq Workers /\ token \subseteq Workers
  /\ connect \subseteq Workers
  /\ net \subseteq Machines

(* Who is between the start and the stop of the service started it; it     *)
(* runs, and did not before the scan.                                      *)
StarterAtWork ==
  /\ \A w \in started : machine[w] \in running \ found
  /\ \A w \in Workers : pc[w] \in {"reconnect", "stop"} => w \in started

ServiceInv == AuthTypes /\ StarterAtWork /\ ServiceRestored

(* A worker that knows of its connection is at work, and so is one with an *)
(* open token; a connection nobody knows of was made without a token.      *)
ConnectionInv ==
  /\ AuthTypes
  /\ \A w \in connect :
       pc[w] \in {"authenticated", "start", "reconnect", "work", "stop", "leave"}
  /\ \A w \in token : pc[w] = "account" \/ w \in connect
  /\ \A m \in net : m \in unknown \/ \E w \in connect : machine[w] = m

(* No step changes who works where, and all keep their control points.     *)
LEMMA AuthTypesHolds == Spec => []AuthTypes
<1>1. Init => AuthTypes
  BY DEF Init, AuthTypes, Points
<1>2. AuthTypes /\ [Next]_vars => AuthTypes'
  <2> SUFFICES ASSUME AuthTypes, [Next]_vars
               PROVE  AuthTypes'
    OBVIOUS
  <2> USE DEF AuthTypes, Points, fixedVars, serviceVars, walkVars, Go
  <2>1. CASE Stop
    BY <2>1 DEF Stop
  <2>2. ASSUME NEW w \in Workers, Worker(w)
        PROVE  AuthTypes'
    <3>1. CASE LogonUser(w) \/ NoLogon(w)
      BY <3>1 DEF LogonUser, NoLogon
    <3>2. CASE AddConnection(w)
      BY <3>2 DEF AddConnection
    <3>3. CASE AddConnectionFails(w)
      BY <3>3 DEF AddConnectionFails
    <3>4. CASE NoRegistry(w) \/ ConnectRegistry(w) \/ Reconnect(w) \/ Work(w)
      BY <3>4 DEF NoRegistry, ConnectRegistry, Reconnect, Work
    <3>5. CASE StartService(w) \/ StopService(w)
      BY <3>5 DEF StartService, StopService
    <3>6. CASE LeaveMachine(w)
      BY <3>6 DEF LeaveMachine
    <3> QED
      BY <2>2, <3>1, <3>2, <3>3, <3>4, <3>5, <3>6 DEF Worker
  <2>3. CASE UNCHANGED vars
    BY <2>3 DEF vars
  <2> QED
    BY <2>1, <2>2, <2>3 DEF Next
<1> QED
  BY <1>1, <1>2, PTL DEF Spec

(* ServiceInv is inductive. Only StartService and StopService change which *)
(* services run; StartService cannot start one that runs, so that a        *)
(* machine never has two starters.                                         *)
LEMMA ServiceInvHolds == Spec => []ServiceInv
<1>1. Init => StarterAtWork /\ ServiceRestored
  BY DEF Init, StarterAtWork, ServiceRestored
<1>2. AuthTypes /\ StarterAtWork /\ ServiceRestored /\ [Next]_vars
      => StarterAtWork' /\ ServiceRestored'
  <2> SUFFICES ASSUME AuthTypes, StarterAtWork, ServiceRestored, [Next]_vars
               PROVE  StarterAtWork' /\ ServiceRestored'
    OBVIOUS
  <2> USE DEF AuthTypes, Points, StarterAtWork, ServiceRestored,
              fixedVars, serviceVars, walkVars, Go
  <2>1. CASE Stop
    BY <2>1 DEF Stop
  <2>2. ASSUME NEW w \in Workers, Worker(w)
        PROVE  StarterAtWork' /\ ServiceRestored'
    <3>1. CASE LogonUser(w) \/ NoLogon(w)
      BY <3>1 DEF LogonUser, NoLogon
    <3>2. CASE AddConnection(w)
      BY <3>2 DEF AddConnection
    <3>3. CASE AddConnectionFails(w)
      BY <3>3 DEF AddConnectionFails
    <3>4. CASE NoRegistry(w) \/ ConnectRegistry(w) \/ Reconnect(w) \/ Work(w)
      BY <3>4 DEF NoRegistry, ConnectRegistry, Reconnect, Work
    <3>5. CASE StartService(w)
      BY <3>5 DEF StartService, Open
    <3>6. CASE StopService(w)
      <4> DEFINE m == machine[w]
      <4>1. w \in started /\ m \notin found /\ m \in Machines
        BY <3>6 DEF StopService
      <4>2. \A v \in started' : v \in started /\ machine[v] # m
        BY <3>6, <4>1 DEF StopService
      <4>3. StarterAtWork'
        BY <3>6 DEF StopService
      <4>4. \A n \in Machines \ (stuck \union left)' :
              n \in running' <=> n \in found \/ \E v \in started' : machine[v] = n
        <5> SUFFICES ASSUME NEW n \in Machines \ (stuck \union left)'
                     PROVE  n \in running' <=>
                              n \in found \/ \E v \in started' : machine[v] = n
          OBVIOUS
        <5>1. CASE n = m
          BY <3>6, <4>1, <4>2, <5>1 DEF StopService
        <5>2. CASE n # m
          BY <3>6, <4>1, <5>2 DEF StopService
        <5> QED
          BY <5>1, <5>2
      <4>5. found \subseteq running'
        BY <3>6, <4>1 DEF StopService
      <4>6. UNCHANGED <<machine, found>>
        BY <3>6 DEF StopService
      <4>7. left' = left /\ (left # {} => job = "extract") /\ job' = job
        BY <3>6 DEF StopService
      <4>8. \A v \in started' : pc'[v] \in {"reconnect", "work", "stop"}
        BY <3>6, <4>1 DEF StopService
      <4> QED
        BY <4>2, <4>3, <4>4, <4>5, <4>6, <4>7, <4>8
    <3>7. CASE LeaveMachine(w)
      BY <3>7 DEF LeaveMachine
    <3> QED
      BY <2>2, <3>1, <3>2, <3>3, <3>4, <3>5, <3>6, <3>7 DEF Worker
  <2>3. CASE UNCHANGED vars
    BY <2>3 DEF vars
  <2> QED
    BY <2>1, <2>2, <2>3 DEF Next
<1> QED
  BY <1>1, <1>2, AuthTypesHolds, PTL DEF Spec, ServiceInv

(* A machine's registry service runs after the scan as it did before: the  *)
(* workers that meet at a machine, in StartRemoteRegistryService and its   *)
(* callers, have one starter among them at most, which stops it.           *)
THEOREM ServiceRestoredHolds == Spec => []ServiceRestored
BY ServiceInvHolds, PTL DEF ServiceInv

(* ConnectionInv is inductive. A connection of which nobody knows comes    *)
(* from AddConnection, which then says so in unknown.                      *)
LEMMA ConnectionInvHolds == Spec => []ConnectionInv
<1>1. Init => ConnectionInv
  BY DEF Init, ConnectionInv, AuthTypes, Points
<1>2. AuthTypes' /\ ConnectionInv /\ [Next]_vars => ConnectionInv'
  <2> SUFFICES ASSUME AuthTypes', ConnectionInv, [Next]_vars
               PROVE  ConnectionInv'
    OBVIOUS
  <2> USE DEF AuthTypes, Points, ConnectionInv, fixedVars, serviceVars,
              walkVars, Go
  <2>1. CASE Stop
    BY <2>1 DEF Stop
  <2>2. ASSUME NEW w \in Workers, Worker(w)
        PROVE  ConnectionInv'
    <3>1. CASE LogonUser(w) \/ NoLogon(w)
      BY <3>1 DEF LogonUser, NoLogon
    <3>2. CASE AddConnection(w)
      BY <3>2 DEF AddConnection
    <3>3. CASE AddConnectionFails(w)
      BY <3>3 DEF AddConnectionFails
    <3>4. CASE NoRegistry(w) \/ ConnectRegistry(w) \/ Reconnect(w) \/ Work(w)
      BY <3>4 DEF NoRegistry, ConnectRegistry, Reconnect, Work
    <3>5. CASE StartService(w) \/ StopService(w)
      BY <3>5 DEF StartService, StopService
    <3>6. CASE LeaveMachine(w)
      BY <3>6 DEF LeaveMachine
    <3> QED
      BY <2>2, <3>1, <3>2, <3>3, <3>4, <3>5, <3>6 DEF Worker
  <2>3. CASE UNCHANGED vars
    BY <2>3 DEF vars
  <2> QED
    BY <2>1, <2>2, <2>3 DEF Next
<1> QED
  BY <1>1, <1>2, AuthTypesHolds, PTL DEF Spec

(* The walk through the accounts leaves no token open, and no connection   *)
(* but one made without a token for a single account.                      *)
THEOREM NothingLeftHolds == Spec => []NothingLeft
<1>1. ConnectionInv => NothingLeft
  BY DEF ConnectionInv, AuthTypes, Points, NothingLeft
<1> QED
  BY <1>1, ConnectionInvHolds, PTL
=============================================================================
