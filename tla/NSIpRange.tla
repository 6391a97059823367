----------------------------- MODULE NSIpRange -----------------------------
(***************************************************************************)
(* The addresses NS puts into its list for one target of an IP list: a     *)
(* name, an address, an interval "a-b" or a network "a/n" (addIPTest and   *)
(* addIPInterval of NS/main.c). An address is a tuple of four octets, 0 to *)
(* Top; Top is 255 in the code.                                            *)
(***************************************************************************)
EXTENDS Integers, Sequences

CONSTANT Top

ASSUME TopAssumption == Top \in Nat \ {0}

Octet == 0 .. Top

Address == Octet \X Octet \X Octet \X Octet

Zero == <<0, 0, 0, 0>>

(* What the names say: the order of addresses, and an interval of them.    *)
Before(p, q) ==
  \/ p[1] < q[1]
  \/ /\ p[1] = q[1]
     /\ \/ p[2] < q[2]
        \/ p[2] = q[2] /\ (p[3] < q[3] \/ (p[3] = q[3] /\ p[4] < q[4]))

UpTo(p, q) == p = q \/ Before(p, q)

Between(p, q) == {x \in Address : UpTo(p, x) /\ UpTo(x, q)}
-----------------------------------------------------------------------------
(* addIPInterval.                                                          *)

(* One end of the interval passes the first test; either will do.          *)
Usable(p) == p # Zero /\ p[4] > 0 /\ p[1] < Top

(* Mutant: every octet is compared with its own counterpart only.          *)
InOrderByOctet(p, q) ==
  q[1] >= p[1] /\ q[2] >= p[2] /\ q[3] >= p[3] /\ q[4] >= p[4]

(* The comparison of the two ends, as it is written.                       *)
InOrder(p, q) ==
  /\ q[1] >= p[1]
  /\ q[2] >= p[2] \/ q[1] > p[1]
  /\ q[3] >= p[3] \/ q[2] > p[2] \/ q[1] > p[1]
  /\ q[4] >= p[4] \/ q[3] > p[3] \/ q[2] > p[2] \/ q[1] > p[1]

(* if (L14 == 0)L14 = 1;                                                   *)
FirstHost(p) == IF p[4] = 0 THEN <<p[1], p[2], p[3], 1>> ELSE p

(* Mutant: the loop of the last octet runs to the end of the block.        *)
SpanToTop(x, lo, hi, from, to) == (IF x = lo THEN from ELSE 0) .. Top

(* The bounds of one octet's loop depend on the octet before it: x is that *)
(* octet, which runs from lo to hi, and the interval's ends have `from'    *)
(* and `to' at this one. The octets further left are not looked at.        *)
Span(x, lo, hi, from, to) ==
  (IF x = lo THEN from ELSE 0) .. (IF x = hi THEN to ELSE Top)

Enumerated(p, q) ==
  {x \in Address :
     /\ x[1] \in p[1] .. q[1]
     /\ x[2] \in Span(x[1], p[1], q[1], p[2], q[2])
     /\ x[3] \in Span(x[2], p[2], q[2], p[3], q[3])
     /\ x[4] \in Span(x[3], p[3], q[3], p[4], q[4])}

(* What is inserted: a set of addresses (in their order), and whether each *)
(* of them gets a description.                                             *)
Nothing == [ips |-> {}, described |-> TRUE]

Interval(p, q) ==
  IF ~Usable(p) /\ ~Usable(q) THEN Nothing
  ELSE IF (p = Zero /\ q[1] > 0) \/ p = q THEN [ips |-> {p}, described |-> FALSE]
  ELSE IF q = Zero /\ Usable(p) THEN [ips |-> {q}, described |-> FALSE]
  ELSE IF InOrder(p, q)
       THEN [ips |-> Enumerated(FirstHost(p), q), described |-> TRUE]
  ELSE Nothing
-----------------------------------------------------------------------------
(* The network branch of addIPTest: size - 2 is added to the address, as a *)
(* number of 32 bits. A network of one address is that address.            *)

Base == Top + 1

Number(p) == ((p[1] * Base + p[2]) * Base + p[3]) * Base + p[4]

FromNumber(n) ==
  <<(n \div (Base * Base * Base)) % Base, (n \div (Base * Base)) % Base,
    (n \div Base) % Base, n % Base>>

LastHost(p, size) == FromNumber(Number(p) + size - 2)

Network(p, size) ==
  IF size = 1 THEN [ips |-> {p}, described |-> TRUE]
  ELSE Interval(p, LastHost(p, size))
=============================================================================
