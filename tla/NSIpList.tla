------------------------------ MODULE NSIpList ------------------------------
(***************************************************************************)
(* The lists a scan runs through: the addresses (list box CB_IP), their    *)
(* descriptions (CB_DSC) and the accounts, as the user loads them from     *)
(* files. All three are read by the index of the address: the row of       *)
(* address i is described by line i of CB_DSC and, with an "advanced" list,*)
(* tested with config.accounts[i].                                         *)
(***************************************************************************)
EXTENDS NSIpRange, FiniteSets

CONSTANTS
  Files,        (* the IP lists the user may load: sequences of lines      *)
  AccountFiles, (* the account lists: sequences of accounts                *)
  MaxAccounts,  (* MAX_ACCOUNTS                                            *)
  MaxLoads,     (* bound on the files loaded one after the other           *)
  NoAccount     (* an element of config.accounts never written             *)

ASSUME MaxAssumption == MaxAccounts \in Nat \ {0} /\ MaxLoads \in Nat

(* Files are sequences. The ends of an interval and the address of a       *)
(* network are four octets: atoi into a BYTE.                              *)
ASSUME FilesAssumption ==
  /\ \A f \in Files \union AccountFiles : f \in Seq({f[k] : k \in DOMAIN f})
  /\ \A f \in Files : \A k \in DOMAIN f : LET t == f[k].target IN
       /\ t.is \in {"range", "net"} => t.p \in Address
       /\ t.is = "range" => t.q \in Address
       /\ t.is = "net" => t.size \in Nat

(* A line is [form, target, dsc, account]: a "plain" one has a target only,*)
(* a "csv" one a description too, a "full" one begins with "#!" and has an *)
(* account as well, and a "comment" begins with any other "#".             *)
VARIABLES
  file,           (* the IP list loaded last                               *)
  next,           (* the line loadFileIp reads next; 0 when it is done     *)
  cb_ip, cb_dsc,  (* the list boxes                                        *)
  src,            (* the line each address came from                       *)
  accounts, nb_accounts,
  global_ip_file, (* accounts are by address                               *)
  loads

vars == <<file, next, cb_ip, cb_dsc, src, accounts, nb_accounts,
          global_ip_file, loads>>

Init ==
  /\ file = <<>> /\ next = 0
  /\ cb_ip = <<>> /\ cb_dsc = <<>> /\ src = <<>>
  /\ accounts = [a \in 1 .. MaxAccounts |-> NoAccount]
  /\ nb_accounts = 0
  /\ global_ip_file = FALSE
  /\ loads = 0

Idle == next = 0
-----------------------------------------------------------------------------
(* load_file_ip: empties the lists and asks for a file, which may not be   *)
(* given.                                                                  *)
LoadIp ==
  /\ Idle /\ loads < MaxLoads
  /\ loads' = loads + 1
  /\ cb_ip' = <<>> /\ cb_dsc' = <<>> /\ src' = <<>>
  /\ \/ /\ file' = <<>>
        /\ UNCHANGED <<next, global_ip_file>>
     \/ /\ file' \in Files
        /\ next' = IF file' = <<>> THEN 0 ELSE 1
        /\ global_ip_file' = FALSE
  /\ UNCHANGED <<accounts, nb_accounts>>

(* load_file_accounts: the accounts that fit replace those before them.    *)
LoadAccounts ==
  /\ Idle /\ loads < MaxLoads
  /\ loads' = loads + 1
  /\ \E list \in AccountFiles \union {<<>>} :
       /\ accounts' = [a \in 1 .. MaxAccounts |->
                         IF a <= Len(list) THEN list[a] ELSE accounts[a]]
       /\ nb_accounts' = IF Len(list) < MaxAccounts THEN Len(list)
                         ELSE MaxAccounts - 1
  /\ UNCHANGED <<file, next, cb_ip, cb_dsc, src, global_ip_file>>

(* What addIPTest inserts for a target. A name that verifieName refuses    *)
(* gets a description without an address: the braces are missing.          *)
Added(t) ==
  CASE t.is = "name"    -> [ips |-> {t.p}, described |-> TRUE]
    [] t.is = "badname" -> [ips |-> {}, described |-> TRUE]
    [] t.is = "ip"      -> [ips |-> {t.p}, described |-> TRUE]
    [] t.is = "range"   -> Interval(t.p, t.q)
    [] t.is = "net"     -> Network(t.p, t.size)
    [] OTHER            -> Nothing

(* In the order of the nested loops; a single address as it is written.    *)
InsertedIps(t) ==
  LET ips == Added(t).ips IN
  IF t.is \in {"name", "ip"} THEN <<t.p>>
  ELSE [k \in 1 .. Cardinality(ips) |->
          CHOOSE x \in ips : Cardinality({y \in ips : Before(y, x)}) = k - 1]

DescriptionsFor(t) ==
  IF t.is = "badname" THEN 1
  ELSE IF Added(t).described THEN Cardinality(Added(t).ips)
  ELSE 0

Copies(n, x) == [k \in 1 .. n |-> x]

(* addIPTest is TRUE for every well-formed target, inserted or not.        *)
Accepted(t) == t.is # "none"

(* Mutant: the description list is not extended for a single address.      *)
InsertSkipsDsc(line) ==
  /\ cb_ip' = cb_ip \o InsertedIps(line.target)
  /\ src' = src \o Copies(Len(InsertedIps(line.target)), next)
  /\ cb_dsc' = IF line.target.is = "ip" THEN cb_dsc
               ELSE cb_dsc \o Copies(DescriptionsFor(line.target), line.dsc)

Insert(line) ==
  /\ cb_ip' = cb_ip \o InsertedIps(line.target)
  /\ src' = src \o Copies(Len(InsertedIps(line.target)), next)
  /\ cb_dsc' = cb_dsc \o Copies(DescriptionsFor(line.target), line.dsc)

(* The account goes behind the last one; on the first line of the file the *)
(* count then restarts at one. A full table ends the loading.              *)
AddAccount(line) ==
  /\ accounts' = [accounts EXCEPT ![nb_accounts + 1] = line.account]
  /\ IF nb_accounts + 1 >= MaxAccounts
     THEN next' = 0 /\ UNCHANGED nb_accounts
     ELSE /\ nb_accounts' = IF next = 1 THEN 1 ELSE nb_accounts + 1
          /\ next' = IF next = Len(file) THEN 0 ELSE next + 1

(* Mutant: the account is written before it is known whether the line has  *)
(* a target at all.                                                        *)
LoadLineEagerly ==
  /\ ~Idle
  /\ LET line == file[next]
     IN /\ Insert(line)
        /\ global_ip_file' = (IF line.form = "full" THEN TRUE
                              ELSE IF line.form = "csv" THEN FALSE
                              ELSE global_ip_file)
        /\ IF line.form # "plain" /\ global_ip_file'
           THEN AddAccount(line)
           ELSE /\ next' = IF next = Len(file) THEN 0 ELSE next + 1
                /\ UNCHANGED <<accounts, nb_accounts>>
  /\ UNCHANGED <<file, loads>>

(* loadFileIp, one line: getInfosFromLine, addIPTest, and the account.     *)
LoadLine ==
  /\ ~Idle
  /\ LET line == file[next]
     IN /\ Insert(line)
        /\ global_ip_file' = (IF line.form = "full" THEN TRUE
                              ELSE IF line.form = "csv" THEN FALSE
                              ELSE global_ip_file)
        /\ IF line.form # "plain" /\ Accepted(line.target) /\ global_ip_file'
           THEN AddAccount(line)
           ELSE /\ next' = IF next = Len(file) THEN 0 ELSE next + 1
                /\ UNCHANGED <<accounts, nb_accounts>>
  /\ UNCHANGED <<file, loads>>

Next == LoadIp \/ LoadAccounts \/ LoadLine

Spec == Init /\ [][Next]_vars
-----------------------------------------------------------------------------
Line(a) == file[src[a]]

(* The account address a is tested with, unless the list is tried in turn. *)
AccountOf(a) == IF a <= MaxAccounts THEN accounts[a] ELSE NoAccount

(* The lists and the table keep their shape: nb_accounts is the index of  *)
(* an element of config.accounts, whatever is loaded in whatever order.    *)
TypeOK ==
  /\ next \in 0 .. Len(file)
  /\ Len(src) = Len(cb_ip)
  /\ nb_accounts \in 0 .. MaxAccounts - 1
  /\ DOMAIN accounts = 1 .. MaxAccounts
  /\ global_ip_file \in BOOLEAN
  /\ loads \in 0 .. MaxLoads

(* What a line may add: itself, or the addresses between two ends, or the  *)
(* size addresses from the given one on.                                   *)
Meant(t) ==
  CASE t.is \in {"name", "ip"} -> {t.p}
    [] t.is = "range" -> {t.p, t.q} \union Between(t.p, t.q)
    [] t.is = "net" ->
          {t.p, LastHost(t.p, t.size)} \union Between(t.p, LastHost(t.p, t.size))
    [] OTHER -> {}

(* Whatever ends an interval or a network has, no address outside it is    *)
(* ever put into the list, and none is put there twice by a line.          *)
OnlyMeant ==
  /\ \A a \in DOMAIN cb_ip : cb_ip[a] \in Meant(Line(a).target)
  /\ \A a, b \in DOMAIN cb_ip : src[a] = src[b] /\ cb_ip[a] = cb_ip[b] => a = b

(* The addresses of an interval, as the help shows it: first to last.      *)
Wanted(t) == {x \in Between(t.p, t.q) : x[4] > 0}

Complete(t) ==
  t.is = "range" /\ Usable(t.p) /\ Usable(t.q) /\ Before(t.p, t.q) =>
    Wanted(t) \subseteq Added(t).ips

(* An interval whose ends agree in their first two octets is complete.     *)
SmallRangesComplete ==
  \A k \in DOMAIN file : LET t == file[k].target IN
    t.is = "range" /\ t.p[1] = t.q[1] /\ t.p[2] = t.q[2] => Complete(t)

(* A target that inserts as many addresses as descriptions.                *)
Tidy(t) == DescriptionsFor(t) = Cardinality(Added(t).ips)

Loaded == 1 .. (IF Idle THEN Len(file) ELSE next - 1)

(* As long as no line read so far is a name that is refused or an interval *)
(* of one address, every address has the description of its own line.      *)
TidyDescribed ==
  /\ TypeOK
  /\ (\A k \in Loaded : Tidy(file[k].target)) =>
       /\ Len(cb_dsc) = Len(cb_ip)
       /\ \A a \in DOMAIN cb_ip : cb_dsc[a] = Line(a).dsc

(* A file in the advanced format that names single addresses, loaded first *)
(* and fitting the table, gives every address the account of its line.     *)
FirstAdvancedList ==
  /\ loads = 1
  /\ Len(file) < MaxAccounts
  /\ \A k \in DOMAIN file :
       file[k].form = "full" /\ file[k].target.is \in {"name", "ip", "none"}

OwnAccountAtFirst ==
  FirstAdvancedList => \A a \in DOMAIN cb_ip : AccountOf(a) = Line(a).account
=============================================================================
