--------------------------- MODULE NSIpList_proofs ---------------------------
(***************************************************************************)
(* Proofs about the intervals of NSIpRange, and about the lists as they    *)
(* are loaded by NSIpList, for any Top: 255 in the code, where TLC cannot  *)
(* enumerate the addresses, and for files of any length.                   *)
(***************************************************************************)
EXTENDS NSIpList, FiniteSetTheorems, FunctionTheorems, SequenceTheorems, TLAPS

USE TopAssumption

(* An address is a tuple of four octets.                                  *)
LEMMA AddressType ==
  ASSUME NEW p \in Address
  PROVE  p = <<p[1], p[2], p[3], p[4]>>
         /\ p[1] \in 0 .. Top /\ p[2] \in 0 .. Top
         /\ p[3] \in 0 .. Top /\ p[4] \in 0 .. Top
BY DEF Address, Octet

(* The nested comparison of addIPInterval orders addresses as numbers.     *)
THEOREM ComparisonIsOrder ==
  ASSUME NEW p \in Address, NEW q \in Address
  PROVE  InOrder(p, q) <=> UpTo(p, q)
BY AddressType DEF InOrder, UpTo, Before

(* The four nested loops of addIPInterval never leave the interval.        *)
THEOREM LoopsStayInside ==
  ASSUME NEW p \in Address, NEW q \in Address
  PROVE  Enumerated(p, q) \subseteq Between(p, q)
<1> SUFFICES ASSUME NEW x \in Enumerated(p, q)
             PROVE  x \in Address /\ UpTo(p, x) /\ UpTo(x, q)
  BY DEF Between
<1>1. x \in Address
  BY DEF Enumerated
<1>2. /\ x[1] \in p[1] .. q[1]
      /\ x[1] = p[1] => x[2] >= p[2]
      /\ x[2] = p[2] => x[3] >= p[3]
      /\ x[3] = p[3] => x[4] >= p[4]
      /\ x[1] = q[1] => x[2] <= q[2]
      /\ x[2] = q[2] => x[3] <= q[3]
      /\ x[3] = q[3] => x[4] <= q[4]
  BY <1>1, AddressType DEF Enumerated, Span
<1>3. UpTo(p, x)
  BY <1>1, <1>2, AddressType DEF UpTo, Before
<1>4. UpTo(x, q)
  BY <1>1, <1>2, AddressType DEF UpTo, Before
<1>5. QED
  BY <1>1, <1>3, <1>4

(* Whatever interval is written, only its ends and what lies between them  *)
(* are inserted.                                                           *)
THEOREM IntervalStaysInside ==
  ASSUME NEW p \in Address, NEW q \in Address
  PROVE  Interval(p, q).ips \subseteq {p, q} \union Between(p, q)
<1>1. FirstHost(p) \in Address
  BY DEF FirstHost, Address, Octet
<1>2. Enumerated(FirstHost(p), q) \subseteq Between(FirstHost(p), q)
  BY <1>1, LoopsStayInside
<1>3. Between(FirstHost(p), q) \subseteq Between(p, q)
  <2> SUFFICES ASSUME NEW x \in Between(FirstHost(p), q) PROVE UpTo(p, x)
    BY DEF Between
  <2>1. x \in Address /\ UpTo(FirstHost(p), x)
    BY DEF Between
  <2>2. CASE p[4] # 0
    BY <2>1, <2>2 DEF FirstHost
  <2>3. CASE p[4] = 0
    <3>1. UpTo(<<p[1], p[2], p[3], 1>>, x)
      BY <2>1, <2>3 DEF FirstHost
    <3>2. QED
      BY <2>1, <2>3, <3>1, AddressType DEF UpTo, Before
  <2>4. QED
    BY <2>2, <2>3
<1>4. QED
  BY <1>2, <1>3 DEF Interval, Nothing

(* An interval whose ends agree in their first two octets loses no address.*)
THEOREM SmallIntervalComplete ==
  ASSUME NEW p \in Address, NEW q \in Address,
         Usable(p), Usable(q), Before(p, q), p[1] = q[1], p[2] = q[2],
         NEW x \in Between(p, q)
  PROVE  x \in Interval(p, q).ips
<1>1. x \in Address /\ UpTo(p, x) /\ UpTo(x, q)
  BY DEF Between
<1>2. Interval(p, q).ips = Enumerated(p, q)
  <2>1. p # Zero /\ q # Zero /\ FirstHost(p) = p
    BY AddressType DEF Usable, FirstHost
  <2>2. p # q
    BY AddressType DEF Before
  <2>3. InOrder(p, q)
    BY ComparisonIsOrder DEF UpTo
  <2>4. QED
    BY <2>1, <2>2, <2>3 DEF Interval
<1>3. x[1] = p[1] /\ x[2] = p[2] /\ x[3] \in p[3] .. q[3]
  BY <1>1, AddressType DEF UpTo, Before
<1>4. /\ x[3] = p[3] => x[4] >= p[4]
      /\ x[3] = q[3] => x[4] <= q[4]
      /\ x[4] \in 0 .. Top
  BY <1>1, AddressType DEF UpTo, Before
<1>5. x \in Enumerated(p, q)
  <2>1. x[1] \in p[1] .. q[1] /\ x[2] \in Span(x[1], p[1], q[1], p[2], q[2])
    BY <1>3, AddressType DEF Span
  <2>2. x[3] \in Span(x[2], p[2], q[2], p[3], q[3])
    BY <1>3 DEF Span
  <2>3. x[4] \in Span(x[3], p[3], q[3], p[4], q[4])
    BY <1>4, AddressType DEF Span
  <2>4. QED
    BY <1>1, <2>1, <2>2, <2>3 DEF Enumerated
<1>6. QED
  BY <1>2, <1>5

(* The file loaded is one the user may load.                               *)
Given == file = <<>> \/ file \in Files

(* Only LoadIp changes the file, and it takes one of the given ones.       *)
LEMMA GivenFile == Spec => []Given
<1>1. Init => Given
  BY DEF Init, Given
<1>2. Given /\ [Next]_vars => Given'
  BY DEF Given, Next, LoadIp, LoadAccounts, LoadLine, vars
<1>3. QED
  BY <1>1, <1>2, PTL DEF Spec

(* In every list that is loaded, the intervals within one network of 16    *)
(* bits are complete.                                                      *)
THEOREM SmallIntervalsComplete == Spec => []SmallRangesComplete
<1>1. Given => SmallRangesComplete
  <2> SUFFICES ASSUME Given, NEW k \in DOMAIN file,
                      file[k].target.is = "range",
                      file[k].target.p[1] = file[k].target.q[1],
                      file[k].target.p[2] = file[k].target.q[2]
               PROVE  Complete(file[k].target)
    BY DEF SmallRangesComplete
  <2>1. file \in Files
    BY DEF Given
  <2>2. file[k].target.p \in Address /\ file[k].target.q \in Address
    BY <2>1, FilesAssumption
  <2>3. Added(file[k].target) = Interval(file[k].target.p, file[k].target.q)
    BY DEF Added
  <2>4. QED
    BY <2>2, <2>3, SmallIntervalComplete DEF Complete, Wanted
<1>2. QED
  BY <1>1, GivenFile, PTL
-----------------------------------------------------------------------------
(* What a target inserts: each of its addresses once, and nothing else.    *)

Targets == UNION {{f[k].target : k \in DOMAIN f} : f \in Files}

Rank(S, x) == Cardinality({y \in S : Before(y, x)})

(* In a finite set of addresses there is one with k addresses before it,   *)
(* for every k up to its size, and two addresses never have as many.       *)
LEMMA Ranks ==
  ASSUME NEW S \in SUBSET Address, IsFiniteSet(S)
  PROVE  /\ Cardinality(S) \in Nat
         /\ \A k \in 1 .. Cardinality(S) : \E x \in S : Rank(S, x) = k - 1
<1> DEFINE n == Cardinality(S)
           below(x) == {y \in S : Before(y, x)}
           f == [x \in S |-> Rank(S, x)]
<1>1. n \in Nat
  BY FS_CardinalityType
<1>2. ASSUME NEW x \in S PROVE Rank(S, x) \in 0 .. n - 1
  <2>1. below(x) \in SUBSET (S \ {x})
    BY AddressType DEF Before
  <2>2. IsFiniteSet(S \ {x}) /\ Cardinality(S \ {x}) = n - 1
    BY FS_RemoveElement
  <2>3. IsFiniteSet(below(x)) /\ Cardinality(below(x)) <= n - 1
    BY <2>1, <2>2, FS_Subset
  <2>4. Cardinality(below(x)) \in Nat
    BY <2>3, FS_CardinalityType
  <2> QED
    BY <1>1, <2>3, <2>4 DEF Rank
<1>3. ASSUME NEW x \in S, NEW y \in S, Before(x, y)
      PROVE  Rank(S, x) < Rank(S, y)
  <2>1. below(x) \union {x} \in SUBSET below(y)
    BY <1>3, AddressType DEF Before
  <2>2. x \notin below(x)
    BY AddressType DEF Before
  <2>3. IsFiniteSet(below(x)) /\ IsFiniteSet(below(y))
    BY FS_Subset
  <2>4. Cardinality(below(x) \union {x}) = Cardinality(below(x)) + 1
    BY <2>2, <2>3, FS_AddElement
  <2>5. Cardinality(below(x) \union {x}) <= Cardinality(below(y))
    BY <2>1, <2>3, FS_Subset
  <2>6. Rank(S, x) \in Int /\ Rank(S, y) \in Int
    BY <1>2
  <2> QED
    BY <2>4, <2>5, <2>6 DEF Rank
<1>4. f \in [S -> 0 .. n - 1]
  BY <1>2
<1>5. ASSUME NEW x \in S, NEW y \in S, f[x] = f[y] PROVE x = y
  <2>1. x = y \/ Before(x, y) \/ Before(y, x)
    BY AddressType DEF Before
  <2>2. Rank(S, x) = Rank(S, y) /\ Rank(S, x) \in Int
    BY <1>2, <1>5
  <2>3. ~Before(x, y)
    BY <2>2, <1>3
  <2>4. ~Before(y, x)
    BY <2>2, <1>3
  <2> QED
    BY <2>1, <2>3, <2>4
<1>6. f \in Injection(S, 0 .. n - 1)
  BY <1>4, <1>5, Fun_IsInj
<1>7. IsFiniteSet(0 .. n - 1) /\ Cardinality(0 .. n - 1) = n
  BY <1>1, FS_Interval
<1>8. f \in Surjection(S, 0 .. n - 1)
  BY <1>6, <1>7, FS_Injection
<1>9. ASSUME NEW k \in 1 .. n PROVE \E x \in S : Rank(S, x) = k - 1
  <2>1. k - 1 \in 0 .. n - 1
    BY <1>1
  <2>2. \E x \in S : f[x] = k - 1
    <3> HIDE DEF f, n
    <3>1. \A r \in 0 .. n - 1 : \E x \in S : f[x] = r
      BY <1>8, Fun_SurjectionProperties
    <3> QED
      BY <2>1, <3>1
  <2> QED
    BY <2>2
<1> QED
  BY <1>1, <1>9

LEMMA FiniteAddresses == IsFiniteSet(Address)
<1>1. IsFiniteSet(Octet)
  BY FS_Interval DEF Octet
<1>2. IsFiniteSet(Octet \X Octet \X Octet \X Octet)
  <2>1. Octet \X Octet \X Octet \X Octet = Address
    BY DEF Address
  <2> DEFINE Triples == (Octet \X Octet) \X Octet
             Quads == Triples \X Octet
             g == [x \in Address |-> <<<<<<x[1], x[2]>>, x[3]>>, x[4]>>]
  <2>2. IsFiniteSet(Octet \X Octet)
    BY <1>1, FS_Product
  <2>3. IsFiniteSet(Triples)
    BY <1>1, <2>2, FS_Product
  <2>4. IsFiniteSet(Quads)
    BY <1>1, <2>3, FS_Product
  <2>5. g \in [Address -> Quads]
    BY DEF Address
  <2>6. \A x, y \in Address : g[x] = g[y] => x = y
    BY DEF Address
  <2>7. g \in Injection(Address, Quads)
    BY <2>5, <2>6, Fun_IsInj
  <2> QED
    BY <2>1, <2>4, <2>7, FS_Injection
<1> QED
  BY <1>2 DEF Address

(* The end of a network is an address, wherever the sum of 32 bits lands.  *)
LEMMA LastHostType ==
  ASSUME NEW p \in Address, NEW size \in Nat
  PROVE  LastHost(p, size) \in Address
<1>1. Base \in Nat \ {0}
  BY DEF Base
<1> HIDE DEF Base
<1>2. \A m \in Int : m % Base \in 0 .. Base - 1
  BY <1>1
<1>3. \A m, d \in Int : d > 0 => m \div d \in Int
  OBVIOUS
<1>4. Base * Base \in Int /\ Base * Base > 0
  BY <1>1
<1>5. Base * Base * Base \in Int /\ Base * Base * Base > 0
  BY <1>1, <1>4
<1>6. Number(p) \in Int
  BY <1>1, AddressType DEF Number
<1>7. ASSUME NEW n \in Int PROVE FromNumber(n) \in Address
  <2>1. /\ n \div (Base * Base * Base) \in Int /\ n \div (Base * Base) \in Int
        /\ n \div Base \in Int
    BY <1>1, <1>3, <1>4, <1>5
  <2>2. 0 .. Base - 1 = Octet
    BY DEF Base, Octet
  <2> QED
    BY <1>2, <2>1, <2>2 DEF FromNumber, Address
<1> QED
  BY <1>6, <1>7 DEF LastHost

LEMMA AddedIsMeant ==
  ASSUME NEW t \in Targets
  PROVE  /\ Added(t).ips \subseteq Meant(t)
         /\ t.is \in {"name", "ip"} => Added(t).ips = {t.p}
         /\ t.is \notin {"name", "ip"} => Added(t).ips \in SUBSET Address
<1>1. PICK f \in Files : \E k \in DOMAIN f : t = f[k].target
  BY DEF Targets
<1>2. /\ t.is \in {"range", "net"} => t.p \in Address
      /\ t.is = "range" => t.q \in Address
      /\ t.is = "net" => t.size \in Nat
  BY <1>1, FilesAssumption
<1>3. ASSUME NEW p \in Address, NEW q \in Address
      PROVE  Interval(p, q).ips \subseteq {p, q} \union Between(p, q)
             /\ Interval(p, q).ips \subseteq Address
  <2>1. Interval(p, q).ips \subseteq {p, q} \union Between(p, q)
    BY IntervalStaysInside
  <2> QED
    BY <2>1 DEF Between
<1>4. CASE t.is = "range"
  BY <1>2, <1>3, <1>4 DEF Added, Meant
<1>5. CASE t.is = "net"
  <2> DEFINE q == LastHost(t.p, t.size)
  <2>1. t.p \in Address /\ q \in Address
    BY <1>2, <1>5, LastHostType
  <2>2. Added(t) = Network(t.p, t.size)
    BY <1>5 DEF Added
  <2>3. Meant(t) = {t.p, q} \union Between(t.p, q)
    BY <1>5 DEF Meant
  <2>4. Network(t.p, t.size).ips \subseteq {t.p, q} \union Between(t.p, q)
        /\ Network(t.p, t.size).ips \subseteq Address
    BY <1>3, <2>1 DEF Network
  <2> QED
    BY <1>5, <2>2, <2>3, <2>4
<1>6. CASE t.is \notin {"range", "net"}
  BY <1>6 DEF Added, Meant, Nothing
<1> QED
  BY <1>4, <1>5, <1>6

LEMMA Inserted ==
  ASSUME NEW t \in Targets
  PROVE  LET ips == Added(t).ips IN
         /\ Cardinality(ips) \in Nat
         /\ InsertedIps(t) \in Seq(ips)
         /\ Len(InsertedIps(t)) = Cardinality(ips)
         /\ \A j, k \in 1 .. Cardinality(ips) :
              InsertedIps(t)[j] = InsertedIps(t)[k] => j = k
<1> DEFINE ips == Added(t).ips
<1>1. CASE t.is \in {"name", "ip"}
  <2>1. ips = {t.p} /\ InsertedIps(t) = <<t.p>>
    BY <1>1, AddedIsMeant DEF InsertedIps
  <2>2. Cardinality(ips) = 1
    BY <2>1, FS_Singleton
  <2>3. <<t.p>> \in Seq(ips) /\ Len(<<t.p>>) = 1
    BY <2>1
  <2> HIDE DEF ips
  <2>4. \A j, k \in 1 .. Cardinality(ips) : j = k
    BY <2>2
  <2>5. /\ Cardinality(ips) \in Nat
        /\ InsertedIps(t) \in Seq(ips)
        /\ Len(InsertedIps(t)) = Cardinality(ips)
    BY <2>1, <2>2, <2>3
  <2> QED
    BY <2>4, <2>5 DEF ips
<1>2. CASE t.is \notin {"name", "ip"}
  <2> DEFINE n == Cardinality(ips)
             at(k) == CHOOSE x \in ips : Rank(ips, x) = k - 1
  <2>1. ips \in SUBSET Address /\ IsFiniteSet(ips)
    BY <1>2, AddedIsMeant, FiniteAddresses, FS_Subset
  <2>2. n \in Nat /\ \A k \in 1 .. n : \E x \in ips : Rank(ips, x) = k - 1
    BY <2>1, Ranks
  <2>3. \A k \in 1 .. n : at(k) \in ips /\ Rank(ips, at(k)) = k - 1
    BY <2>2
  <2>4. InsertedIps(t) = [k \in 1 .. n |-> at(k)]
    BY <1>2 DEF InsertedIps, Rank
  <2> HIDE DEF at
  <2>5. [k \in 1 .. n |-> at(k)] \in [1 .. n -> ips]
    BY <2>3
  <2>6. \A j, k \in 1 .. n : at(j) = at(k) => j = k
    BY <2>2, <2>3
  <2> HIDE DEF ips
  <2>7. InsertedIps(t) \in Seq(ips) /\ Len(InsertedIps(t)) = n
    BY <2>2, <2>4, <2>5
  <2> QED
    BY <2>2, <2>4, <2>6, <2>7 DEF ips
<1> QED
  BY <1>1, <1>2
-----------------------------------------------------------------------------
(* The lists while files are loaded.                                       *)

Ips == UNION {Added(t).ips : t \in Targets}

Dscs == UNION {{f[k].dsc : k \in DOMAIN f} : f \in Files}

(* The lines that may have given an address so far.                        *)
Past == IF next = 0 THEN Len(file) ELSE next - 1

(* Each address was inserted by a line before the next one, as one of its  *)
(* addresses, once.                                                        *)
SourcesInv ==
  /\ \A a \in 1 .. Len(cb_ip) :
       src[a] \in 1 .. Past /\ cb_ip[a] \in Added(Line(a).target).ips
  /\ \A a, b \in 1 .. Len(cb_ip) :
       src[a] = src[b] /\ cb_ip[a] = cb_ip[b] => a = b

ListsInv ==
  /\ TypeOK /\ Given
  /\ cb_ip \in Seq(Ips) /\ cb_dsc \in Seq(Dscs) /\ src \in Seq(Nat)
  /\ SourcesInv

(* Until the table is full, a first advanced list writes the account of an *)
(* address at its own place.                                               *)
AccountsInv ==
  /\ loads = 0 => file = <<>> /\ next = 0 /\ nb_accounts = 0
  /\ file = <<>> => cb_ip = <<>>
  /\ FirstAdvancedList =>
       /\ Len(cb_ip) <= Past
       /\ next # 0 => nb_accounts = Len(cb_ip)
       /\ \A a \in 1 .. Len(cb_ip) : accounts[a] = Line(a).account

LEMMA FileOf ==
  ASSUME NEW f, f = <<>> \/ f \in Files
  PROVE  /\ Len(f) \in Nat /\ DOMAIN f = 1 .. Len(f)
         /\ \A k \in 1 .. Len(f) : f[k].target \in Targets /\ f[k].dsc \in Dscs
         /\ f # <<>> => Len(f) > 0
<1>1. CASE f = <<>>
  BY <1>1
<1>2. CASE f \in Files /\ f # <<>>
  <2> DEFINE Lines == {f[k] : k \in DOMAIN f}
  <2>0. f \in Seq(Lines)
    BY <1>2, FilesAssumption
  <2> HIDE DEF Lines
  <2>1. /\ Len(f) \in Nat /\ DOMAIN f = 1 .. Len(f)
        /\ Len(f) > 0
    BY <1>2, <2>0, LenProperties, EmptySeq
  <2>2. \A k \in 1 .. Len(f) : f[k].target \in Targets /\ f[k].dsc \in Dscs
    BY <1>2, <2>1 DEF Targets, Dscs
  <2> QED
    BY <1>2, <2>1, <2>2
<1> QED
  BY <1>1, <1>2

(* What a line adds at the end of the lists.                               *)
LEMMA LineAdds ==
  ASSUME ListsInv, next # 0, LoadLine
  PROVE  LET line == file[next]
             more == InsertedIps(line.target)
             n == Cardinality(Added(line.target).ips)
             d == DescriptionsFor(line.target)
         IN
         /\ next \in 1 .. Len(file) /\ line.target \in Targets
         /\ n \in Nat /\ more \in Seq(Added(line.target).ips) /\ Len(more) = n
         /\ d \in Nat
         /\ cb_ip' \in Seq(Ips) /\ cb_dsc' \in Seq(Dscs) /\ src' \in Seq(Nat)
         /\ Len(cb_ip') = Len(cb_ip) + n /\ Len(src') = Len(src) + n
         /\ Len(cb_dsc') = Len(cb_dsc) + d
         /\ \A a \in 1 .. Len(cb_ip) + n :
              /\ cb_ip'[a] = IF a <= Len(cb_ip) THEN cb_ip[a]
                             ELSE more[a - Len(cb_ip)]
              /\ src'[a] = IF a <= Len(cb_ip) THEN src[a] ELSE next
         /\ \A a \in 1 .. Len(cb_dsc) + d :
              cb_dsc'[a] = IF a <= Len(cb_dsc) THEN cb_dsc[a] ELSE line.dsc
<1> DEFINE line == file[next]
           more == InsertedIps(line.target)
           ips == Added(line.target).ips
           n == Cardinality(ips)
           d == DescriptionsFor(line.target)
<1>1. next \in 1 .. Len(file) /\ Len(file) \in Nat
      /\ line.target \in Targets /\ line.dsc \in Dscs
  BY FileOf DEF ListsInv, TypeOK, Given
<1>2. n \in Nat /\ more \in Seq(ips) /\ Len(more) = n
  BY <1>1, Inserted
<1>3. d \in Nat
  BY <1>2 DEF DescriptionsFor
<1>4. ips \subseteq Ips
  BY <1>1 DEF Ips
<1>5. /\ cb_ip' = cb_ip \o more
      /\ src' = src \o Copies(n, next)
      /\ cb_dsc' = cb_dsc \o Copies(d, line.dsc)
  BY <1>2 DEF LoadLine, Insert
<1> HIDE DEF line, more, ips, n, d
<1>6. more \in Seq(Ips)
  BY <1>2, <1>4, SeqMonotonic
<1>7. ASSUME NEW S, NEW x \in S, NEW c \in Nat
      PROVE  /\ Copies(c, x) \in Seq(S) /\ Len(Copies(c, x)) = c
             /\ \A k \in 1 .. c : Copies(c, x)[k] = x
  <2>1. Copies(c, x) \in [1 .. c -> S]
    BY <1>7 DEF Copies
  <2> QED
    BY <1>7, <2>1 DEF Copies
<1>8. /\ Copies(n, next) \in Seq(Nat) /\ Len(Copies(n, next)) = n
      /\ \A k \in 1 .. n : Copies(n, next)[k] = next
  <2>1. next \in Nat
    BY <1>1
  <2> QED
    BY <1>2, <1>7, <2>1
<1>9. /\ Copies(d, line.dsc) \in Seq(Dscs) /\ Len(Copies(d, line.dsc)) = d
      /\ \A k \in 1 .. d : Copies(d, line.dsc)[k] = line.dsc
  BY <1>1, <1>3, <1>7
<1>10. /\ cb_ip \in Seq(Ips) /\ src \in Seq(Nat) /\ cb_dsc \in Seq(Dscs)
       /\ Len(src) = Len(cb_ip)
  BY DEF ListsInv, TypeOK
<1>11. Len(cb_ip) \in Nat /\ Len(cb_dsc) \in Nat
  BY <1>10, LenProperties
<1>12. /\ cb_ip' \in Seq(Ips) /\ Len(cb_ip') = Len(cb_ip) + n
       /\ \A a \in 1 .. Len(cb_ip) + n :
            cb_ip'[a] = IF a <= Len(cb_ip) THEN cb_ip[a] ELSE more[a - Len(cb_ip)]
  BY <1>2, <1>5, <1>6, <1>10, ConcatProperties
<1>13. /\ src' \in Seq(Nat) /\ Len(src') = Len(src) + n
       /\ \A a \in 1 .. Len(cb_ip) + n :
            src'[a] = IF a <= Len(cb_ip) THEN src[a]
                      ELSE Copies(n, next)[a - Len(cb_ip)]
  <2> DEFINE added == Copies(n, next)
  <2>1. /\ src \o added \in Seq(Nat) /\ Len(src \o added) = Len(src) + Len(added)
        /\ \A a \in 1 .. Len(src) + Len(added) :
             (src \o added)[a] = IF a <= Len(src) THEN src[a]
                                 ELSE added[a - Len(src)]
    <3> HIDE DEF added
    <3> QED
      BY <1>8, <1>10, ConcatProperties DEF added
  <2> QED
    BY <1>5, <1>8, <1>10, <2>1
<1>14. /\ cb_dsc' \in Seq(Dscs) /\ Len(cb_dsc') = Len(cb_dsc) + d
       /\ \A a \in 1 .. Len(cb_dsc) + d :
            cb_dsc'[a] = IF a <= Len(cb_dsc) THEN cb_dsc[a]
                         ELSE Copies(d, line.dsc)[a - Len(cb_dsc)]
  BY <1>5, <1>9, <1>10, ConcatProperties
<1>15. \A a \in 1 .. Len(cb_ip) + n :
         src'[a] = IF a <= Len(cb_ip) THEN src[a] ELSE next
  BY <1>2, <1>8, <1>11, <1>13
<1>16. \A a \in 1 .. Len(cb_dsc) + d :
         cb_dsc'[a] = IF a <= Len(cb_dsc) THEN cb_dsc[a] ELSE line.dsc
  BY <1>3, <1>9, <1>11, <1>14
<1>17. /\ n \in Nat /\ more \in Seq(ips) /\ Len(more) = n /\ d \in Nat
       /\ cb_ip' \in Seq(Ips) /\ cb_dsc' \in Seq(Dscs) /\ src' \in Seq(Nat)
       /\ Len(cb_ip') = Len(cb_ip) + n /\ Len(src') = Len(src) + n
       /\ Len(cb_dsc') = Len(cb_dsc) + d
  BY <1>2, <1>3, <1>12, <1>13, <1>14
<1> QED
  BY <1>1, <1>12, <1>15, <1>16, <1>17 DEF line, more, ips, n, d

LEMMA InitIsListsInv == Init => ListsInv /\ AccountsInv /\ TidyDescribed
<1> SUFFICES ASSUME Init PROVE ListsInv /\ AccountsInv /\ TidyDescribed
  OBVIOUS
<1>1. \A S : <<>> \in Seq(S) /\ Len(<<>>) = 0
  BY EmptySeq
<1>2. TypeOK /\ Given
  <2>1. /\ next = 0 /\ Len(file) = 0 /\ Len(src) = 0 /\ Len(cb_ip) = 0
        /\ nb_accounts = 0 /\ loads = 0 /\ global_ip_file \in BOOLEAN
    BY <1>1 DEF Init
  <2>2. DOMAIN accounts = 1 .. MaxAccounts
    BY DEF Init
  <2> QED
    BY <2>1, <2>2, MaxAssumption DEF Init, TypeOK, Given
<1>3. SourcesInv
  BY <1>1 DEF Init, SourcesInv
<1>4. AccountsInv
  BY DEF Init, AccountsInv, FirstAdvancedList
<1>5. TidyDescribed
  BY <1>1, <1>2 DEF Init, TidyDescribed
<1> QED
  BY <1>1, <1>2, <1>3, <1>4, <1>5 DEF ListsInv, Init

(* Empty lists, whatever the file.                                         *)
LEMMA LoadIpKeeps ==
  ASSUME ListsInv, AccountsInv, LoadIp
  PROVE  ListsInv' /\ AccountsInv' /\ TidyDescribed'
<1> USE DEF LoadIp, Idle
<1>1. \A S : <<>> \in Seq(S) /\ Len(<<>>) = 0
  BY EmptySeq
<1>2. TypeOK
  BY DEF ListsInv
<1>3. Given'
  BY DEF Given
<1>4. Len(file') \in Nat /\ (file' # <<>> => Len(file') > 0)
  BY <1>3, FileOf DEF Given
<1>5. next' \in 0 .. Len(file')
  <2>1. CASE file' = <<>>
    BY <1>2, <1>4, <2>1 DEF TypeOK
  <2>2. CASE file' # <<>>
    BY <1>4, <2>2
  <2> QED
    BY <2>1, <2>2
<1>6. TypeOK'
  <2>1. Len(src') = 0 /\ Len(cb_ip') = 0
    BY <1>1
  <2>2. loads' \in 0 .. MaxLoads
    BY <1>2, MaxAssumption DEF TypeOK
  <2>3. /\ global_ip_file' \in BOOLEAN
        /\ nb_accounts' \in 0 .. MaxAccounts - 1
        /\ DOMAIN accounts' = 1 .. MaxAccounts
    BY <1>2 DEF TypeOK
  <2> QED
    BY <1>5, <2>1, <2>2, <2>3 DEF TypeOK
<1>7. SourcesInv'
  BY <1>1 DEF SourcesInv
<1>8. AccountsInv'
  <2>1. nb_accounts' = nb_accounts /\ Len(cb_ip') = 0 /\ loads' = loads + 1
    BY <1>1
  <2>2. next' # 0 => next' = 1 /\ Len(file') > 0
    BY <1>4
  <2>3. Past' \in Nat
    BY <1>4, <2>2 DEF Past
  <2>4. loads' # 0 /\ (loads' = 1 => nb_accounts' = 0)
    BY <1>2, <2>1, MaxAssumption DEF TypeOK, AccountsInv
  <2> QED
    BY <2>1, <2>2, <2>3, <2>4 DEF AccountsInv, FirstAdvancedList
<1>9. TidyDescribed'
  BY <1>1, <1>6 DEF TidyDescribed
<1> QED
  BY <1>1, <1>3, <1>6, <1>7, <1>8, <1>9 DEF ListsInv

(* Only the accounts.                                                      *)
LEMMA LoadAccountsKeeps ==
  ASSUME ListsInv, AccountsInv, TidyDescribed, LoadAccounts
  PROVE  ListsInv' /\ AccountsInv' /\ TidyDescribed'
<1> USE DEF LoadAccounts, Idle
<1>1. TypeOK'
  <2>1. PICK list \in AccountFiles \union {<<>>} :
          nb_accounts' = IF Len(list) < MaxAccounts THEN Len(list)
                         ELSE MaxAccounts - 1
    OBVIOUS
  <2>2. Len(list) \in Nat
    <3>1. CASE list = <<>>
      BY <3>1
    <3>2. CASE list \in AccountFiles
      BY <3>2, FilesAssumption, LenProperties
    <3> QED
      BY <2>1, <3>1, <3>2
  <2>3. nb_accounts' \in 0 .. MaxAccounts - 1
    BY <2>1, <2>2, MaxAssumption
  <2>4. loads' \in 0 .. MaxLoads /\ DOMAIN accounts' = 1 .. MaxAccounts
    BY MaxAssumption DEF ListsInv, TypeOK
  <2> QED
    BY <2>3, <2>4 DEF ListsInv, TypeOK
<1>2. Given' /\ SourcesInv'
  BY DEF ListsInv, Given, SourcesInv, Past, Line
<1>3. AccountsInv'
  <2>1. loads' # 0 /\ (loads' = 1 => file' = <<>> /\ cb_ip' = <<>> /\ next' = 0)
    BY MaxAssumption DEF ListsInv, TypeOK, AccountsInv
  <2>2. Len(<<>>) = 0
    OBVIOUS
  <2> QED
    BY <2>1, <2>2 DEF AccountsInv, FirstAdvancedList, Past
<1>4. TidyDescribed'
  BY <1>1 DEF TidyDescribed, Loaded, Tidy, Line
<1> QED
  BY <1>1, <1>2, <1>3, <1>4 DEF ListsInv

(* How the next line goes on, and what it does to the accounts.            *)
LEMMA LineMoves ==
  ASSUME ListsInv, next # 0, LoadLine
  PROVE  /\ TypeOK' /\ Given' /\ file' = file /\ loads' = loads
         /\ next' = 0 \/ (next' = next + 1 /\ next < Len(file))
         /\ Past \in Nat /\ Past = next - 1 /\ next <= Past' /\ Past' <= Len(file)
         /\ Past' \in Nat
<1> DEFINE line == file[next]
<1>1. next \in 1 .. Len(file) /\ Len(file) \in Nat
  BY LineAdds, FileOf DEF ListsInv, Given
<1>2. file' = file /\ loads' = loads
  BY DEF LoadLine
<1>3. global_ip_file' \in BOOLEAN
  BY DEF LoadLine, ListsInv, TypeOK
<1>4. \/ AddAccount(line)
      \/ /\ next' = IF next = Len(file) THEN 0 ELSE next + 1
         /\ UNCHANGED <<accounts, nb_accounts>>
  BY DEF LoadLine
<1> HIDE DEF line
<1>5. next' = 0 \/ (next' = next + 1 /\ next < Len(file))
  <2>1. next' = 0 \/ next' = IF next = Len(file) THEN 0 ELSE next + 1
    BY <1>4 DEF AddAccount
  <2> QED
    BY <1>1, <2>1
<1>6. /\ nb_accounts' \in 0 .. MaxAccounts - 1
      /\ DOMAIN accounts' = 1 .. MaxAccounts
  BY <1>4, MaxAssumption DEF AddAccount, ListsInv, TypeOK
<1>7. Len(src') = Len(cb_ip')
  BY LineAdds DEF ListsInv, TypeOK
<1>8. TypeOK'
  BY <1>1, <1>2, <1>3, <1>5, <1>6, <1>7 DEF ListsInv, TypeOK
<1>9. /\ Past \in Nat /\ Past = next - 1 /\ next <= Past' /\ Past' <= Len(file)
      /\ Past' \in Nat
  BY <1>1, <1>2, <1>5 DEF Past
<1> QED
  BY <1>2, <1>5, <1>8, <1>9 DEF ListsInv, Given

LEMMA LineSources ==
  ASSUME ListsInv, next # 0, LoadLine
  PROVE  SourcesInv'
<1> DEFINE line == file[next]
           more == InsertedIps(line.target)
           ips == Added(line.target).ips
           n == Cardinality(ips)
           old == Len(cb_ip)
<1>1. /\ next \in 1 .. Len(file) /\ line.target \in Targets
      /\ n \in Nat /\ more \in Seq(ips) /\ Len(more) = n
      /\ Len(cb_ip') = old + n
      /\ \A a \in 1 .. old + n :
           /\ cb_ip'[a] = IF a <= old THEN cb_ip[a] ELSE more[a - old]
           /\ src'[a] = IF a <= old THEN src[a] ELSE next
  BY LineAdds
<1>2. \A j, k \in 1 .. n : more[j] = more[k] => j = k
  BY <1>1, Inserted
<1>3. old \in Nat
  BY LenProperties DEF ListsInv
<1>4. /\ file' = file /\ Past \in Nat /\ Past = next - 1
      /\ next <= Past' /\ Past' <= Len(file) /\ Len(file) \in Nat
  BY LineMoves, FileOf DEF ListsInv, Given
<1>5. \A k \in 1 .. n : more[k] \in ips
  BY <1>1, ElementOfSeq
<1>6. Past' \in Nat
  BY LineMoves
<1> HIDE DEF more, n, old
<1>7. ASSUME NEW a \in 1 .. old + n
      PROVE  /\ src'[a] \in 1 .. Past'
             /\ cb_ip'[a] \in Added(file[src'[a]].target).ips
  <2>1. CASE a <= old
    <3>1. src[a] \in 1 .. Past /\ cb_ip[a] \in Added(file[src[a]].target).ips
      BY <1>3, <2>1 DEF ListsInv, SourcesInv, Line, old
    <3>2. src'[a] = src[a] /\ cb_ip'[a] = cb_ip[a]
      BY <1>1, <2>1
    <3> QED
      BY <1>1, <1>4, <1>6, <3>1, <3>2
  <2>2. CASE ~(a <= old)
    <3>1. a - old \in 1 .. n
      BY <1>1, <1>3, <2>2
    <3>2. src'[a] = next /\ cb_ip'[a] = more[a - old]
      BY <1>1, <2>2
    <3> QED
      BY <1>1, <1>4, <1>5, <1>6, <3>1, <3>2
  <2> QED
    BY <2>1, <2>2
<1>8. ASSUME NEW a \in 1 .. old + n, NEW b \in 1 .. old + n,
             src'[a] = src'[b], cb_ip'[a] = cb_ip'[b]
      PROVE  a = b
  <2>1. \A c \in 1 .. old : src[c] \in 1 .. Past
    BY DEF ListsInv, SourcesInv, old
  <2>2. CASE a <= old /\ b <= old
    <3>1. src[a] = src[b] /\ cb_ip[a] = cb_ip[b]
      BY <1>1, <1>8, <2>2
    <3> QED
      BY <1>3, <2>2, <3>1 DEF ListsInv, SourcesInv, old
  <2>3. CASE ~(a <= old) /\ ~(b <= old)
    <3>1. a - old \in 1 .. n /\ b - old \in 1 .. n
      BY <1>1, <1>3, <2>3
    <3>2. more[a - old] = more[b - old]
      BY <1>1, <1>8, <2>3
    <3>3. a - old = b - old
      BY <1>2, <3>1, <3>2
    <3> QED
      BY <1>1, <1>3, <3>3
  <2>4. CASE (a <= old) # (b <= old)
    <3>1. \E c \in 1 .. old : src[c] = next
      BY <1>1, <1>3, <1>8, <2>4
    <3> QED
      BY <1>1, <1>4, <2>1, <3>1
  <2> QED
    BY <2>2, <2>3, <2>4
<1> QED
  BY <1>1, <1>4, <1>7, <1>8 DEF SourcesInv, Line

(* A tidy line adds as many descriptions as addresses.                     *)
LEMMA LineTidy ==
  ASSUME ListsInv, TidyDescribed, next # 0, LoadLine
  PROVE  TidyDescribed'
<1> DEFINE line == file[next]
           n == Cardinality(Added(line.target).ips)
           d == DescriptionsFor(line.target)
<1> SUFFICES ASSUME \A k \in Loaded' : Tidy(file'[k].target)
             PROVE  /\ Len(cb_dsc') = Len(cb_ip')
                    /\ \A a \in DOMAIN cb_ip' : cb_dsc'[a] = file'[src'[a]].dsc
  BY LineMoves DEF TidyDescribed, Line, Tidy
<1>1. /\ next \in 1 .. Len(file) /\ n \in Nat /\ d \in Nat
      /\ cb_ip' \in Seq(Ips) /\ Len(cb_ip') = Len(cb_ip) + n
      /\ Len(cb_dsc') = Len(cb_dsc) + d
      /\ \A a \in 1 .. Len(cb_ip) + n :
           src'[a] = IF a <= Len(cb_ip) THEN src[a] ELSE next
      /\ \A a \in 1 .. Len(cb_dsc) + d :
           cb_dsc'[a] = IF a <= Len(cb_dsc) THEN cb_dsc[a] ELSE line.dsc
  BY LineAdds
<1>2. /\ file' = file /\ Past \in Nat /\ Past = next - 1 /\ next <= Past'
      /\ Past' \in Nat
  BY LineMoves
<1>3. Loaded = 1 .. Past /\ Loaded' = 1 .. Past'
  BY DEF Loaded, Past, Idle
<1>4. \A k \in 1 .. Past' : Tidy(file[k].target)
  BY <1>2, <1>3
<1>5. /\ Len(cb_dsc) = Len(cb_ip)
      /\ \A a \in DOMAIN cb_ip : cb_dsc[a] = Line(a).dsc
  BY <1>1, <1>2, <1>3, <1>4 DEF TidyDescribed
<1>6. n = d
  BY <1>1, <1>2, <1>4 DEF Tidy
<1>7. Len(cb_ip) \in Nat /\ DOMAIN cb_ip = 1 .. Len(cb_ip)
      /\ DOMAIN cb_ip' = 1 .. Len(cb_ip')
  BY <1>1, LenProperties DEF ListsInv
<1> HIDE DEF n, d
<1> QED
  BY <1>1, <1>2, <1>5, <1>6, <1>7 DEF Line

(* A line of a first advanced list adds one address and its account, or    *)
(* neither.                                                                *)
LEMMA LineAccounts ==
  ASSUME ListsInv, AccountsInv, next # 0, LoadLine
  PROVE  AccountsInv'
<1> DEFINE line == file[next]
           t == line.target
           n == Cardinality(Added(t).ips)
           old == Len(cb_ip)
<1>1. /\ next \in 1 .. Len(file) /\ t \in Targets /\ n \in Nat
      /\ Len(cb_ip') = old + n
      /\ \A a \in 1 .. old + n : src'[a] = IF a <= old THEN src[a] ELSE next
  BY LineAdds
<1>2. /\ file' = file /\ loads' = loads /\ Past \in Nat /\ Past = next - 1
      /\ next <= Past' /\ Past' <= Len(file) /\ Past' \in Nat
  BY LineMoves
<1>3. file # <<>> /\ loads # 0
  BY <1>1 DEF AccountsInv
<1>4. FirstAdvancedList' <=> FirstAdvancedList
  BY <1>2 DEF FirstAdvancedList
<1> SUFFICES ASSUME FirstAdvancedList
             PROVE  /\ Len(cb_ip') <= Past'
                    /\ next' # 0 => nb_accounts' = Len(cb_ip')
                    /\ \A a \in 1 .. Len(cb_ip') :
                         accounts'[a] = file'[src'[a]].account
  BY <1>2, <1>3, <1>4 DEF AccountsInv, Line
<1>5. /\ old \in Nat /\ old <= Past /\ nb_accounts = old
      /\ \A a \in 1 .. old : accounts[a] = file[src[a]].account
  BY LenProperties DEF AccountsInv, ListsInv, Line
<1>6. /\ line.form = "full" /\ t.is \in {"name", "ip", "none"}
      /\ Len(file) < MaxAccounts /\ Len(file) \in Nat
  BY <1>1, FileOf DEF FirstAdvancedList, ListsInv, Given
<1>7. /\ DOMAIN accounts = 1 .. MaxAccounts
  BY DEF ListsInv, TypeOK
<1>8. CASE t.is = "none"
  <2>1. n = 0
    BY <1>8, FS_EmptySet DEF Added, Nothing
  <2>2. accounts' = accounts /\ nb_accounts' = nb_accounts
    BY <1>8 DEF LoadLine, Accepted
  <2> HIDE DEF n, old
  <2> QED
    BY <1>1, <1>2, <1>5, <2>1, <2>2
<1>9. CASE t.is \in {"name", "ip"}
  <2>1. n = 1
    <3>1. Added(t).ips = {t.p}
      BY <1>1, <1>9, AddedIsMeant
    <3> QED
      BY <3>1, FS_Singleton
  <2>2. AddAccount(line)
    BY <1>6, <1>9 DEF LoadLine, Accepted
  <2> HIDE DEF n, old, line
  <2>3. nb_accounts + 1 < MaxAccounts /\ nb_accounts + 1 \in 1 .. MaxAccounts
    BY <1>1, <1>2, <1>5, <1>6, MaxAssumption
  <2>4. /\ accounts' = [accounts EXCEPT ![old + 1] = line.account]
        /\ nb_accounts' = old + 1
    <3>1. accounts' = [accounts EXCEPT ![old + 1] = line.account]
      BY <1>5, <2>2 DEF AddAccount
    <3>2. nb_accounts' = IF next = 1 THEN 1 ELSE old + 1
      BY <1>5, <2>2, <2>3, MaxAssumption DEF AddAccount
    <3>3. next = 1 => old = 0
      BY <1>2, <1>5
    <3> QED
      BY <3>1, <3>2, <3>3
  <2>5. accounts'[old + 1] = line.account
        /\ \A a \in 1 .. old : accounts'[a] = accounts[a]
    BY <1>5, <1>7, <2>3, <2>4
  <2>6. ASSUME NEW a \in 1 .. old + 1
        PROVE  accounts'[a] = file[src'[a]].account
    <3>1. CASE a <= old
      BY <1>1, <1>5, <2>1, <2>5, <3>1
    <3>2. CASE a = old + 1
      BY <1>1, <1>5, <2>1, <2>5, <3>2 DEF line
    <3> QED
      BY <1>5, <3>1, <3>2
  <2> QED
    BY <1>1, <1>2, <1>5, <2>1, <2>4, <2>6
<1> QED
  BY <1>6, <1>8, <1>9

LEMMA ListsKept ==
  ListsInv /\ AccountsInv /\ TidyDescribed /\ [Next]_vars
    => ListsInv' /\ AccountsInv' /\ TidyDescribed'
<1> SUFFICES ASSUME ListsInv, AccountsInv, TidyDescribed, [Next]_vars
             PROVE  ListsInv' /\ AccountsInv' /\ TidyDescribed'
  OBVIOUS
<1>1. CASE LoadIp
  BY <1>1, LoadIpKeeps
<1>2. CASE LoadAccounts
  BY <1>2, LoadAccountsKeeps
<1>3. CASE LoadLine
  <2>1. next # 0
    BY <1>3 DEF LoadLine, Idle
  <2>2. cb_ip' \in Seq(Ips) /\ cb_dsc' \in Seq(Dscs) /\ src' \in Seq(Nat)
    BY <1>3, <2>1, LineAdds
  <2> QED
    BY <1>3, <2>1, <2>2, LineMoves, LineSources, LineTidy, LineAccounts
       DEF ListsInv
<1>4. CASE UNCHANGED vars
  <2> USE <1>4 DEF vars
  <2>1. TypeOK' /\ Given'
    BY DEF ListsInv, TypeOK, Given
  <2>2. SourcesInv'
    BY DEF ListsInv, SourcesInv, Past, Line
  <2>3. AccountsInv'
    BY DEF AccountsInv, FirstAdvancedList, Past, Line
  <2>4. TidyDescribed'
    BY <2>1 DEF TidyDescribed, Loaded, Idle, Tidy, Line
  <2> QED
    BY <2>1, <2>2, <2>3, <2>4 DEF ListsInv
<1> QED
  BY <1>1, <1>2, <1>3, <1>4 DEF Next

LEMMA ListsHold == Spec => [](ListsInv /\ AccountsInv /\ TidyDescribed)
BY InitIsListsInv, ListsKept, PTL DEF Spec

(* Whatever a file has in it, addIPTest inserts no address beside those a  *)
(* line means, and none of them twice.                                     *)
THEOREM OnlyMeantHolds == Spec => []OnlyMeant
<1>1. ListsInv => OnlyMeant
  <2> SUFFICES ASSUME ListsInv PROVE OnlyMeant
    OBVIOUS
  <2>1. DOMAIN cb_ip = 1 .. Len(cb_ip)
    BY LenProperties DEF ListsInv
  <2>2. ASSUME NEW a \in 1 .. Len(cb_ip)
        PROVE  cb_ip[a] \in Meant(Line(a).target)
    <3>1. src[a] \in 1 .. Past /\ cb_ip[a] \in Added(Line(a).target).ips
      BY DEF ListsInv, SourcesInv
    <3>2. Past <= Len(file) /\ Past \in Int
      BY FileOf DEF Past, ListsInv, TypeOK, Given
    <3>3. Line(a).target \in Targets
      BY <3>1, <3>2, FileOf DEF Line, ListsInv, Given
    <3> QED
      BY <3>1, <3>3, AddedIsMeant
  <2> QED
    BY <2>1, <2>2 DEF OnlyMeant, ListsInv, SourcesInv
<1> QED
  BY <1>1, ListsHold, PTL

(* CB_DSC stays beside CB_IP as long as no line adds to one of them only.  *)
THEOREM TidyIsDescribed == Spec => []TidyDescribed
BY ListsHold, PTL

(* A first advanced list that fits into config.accounts gives each address *)
(* the account of its own line.                                            *)
THEOREM OwnAccountsAtFirst == Spec => []OwnAccountAtFirst
<1>1. ListsInv /\ AccountsInv => OwnAccountAtFirst
  <2> SUFFICES ASSUME ListsInv, AccountsInv, FirstAdvancedList,
                      NEW a \in DOMAIN cb_ip
               PROVE  AccountOf(a) = Line(a).account
    BY DEF OwnAccountAtFirst
  <2>1. DOMAIN cb_ip = 1 .. Len(cb_ip) /\ Len(cb_ip) \in Nat
    BY LenProperties DEF ListsInv
  <2>2. Past <= Len(file) /\ Past \in Int /\ Len(file) \in Nat
    BY FileOf DEF Past, ListsInv, TypeOK, Given
  <2>3. a <= MaxAccounts
    BY <2>1, <2>2, MaxAssumption DEF AccountsInv, FirstAdvancedList
  <2> QED
    BY <2>1, <2>3 DEF AccountsInv, AccountOf
<1> QED
  BY <1>1, ListsHold, PTL
=============================================================================
