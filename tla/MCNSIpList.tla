----------------------------- MODULE MCNSIpList -----------------------------
(***************************************************************************)
(* Small IP lists for NSIpList: addresses of octets 0 to 2, every kind of  *)
(* line, files of up to three lines.                                       *)
(***************************************************************************)
EXTENDS NSIpList

CONSTANTS a1, a2, a3

None == [is |-> "none"]
Ip(p) == [is |-> "ip", p |-> p]
Name(p) == [is |-> "name", p |-> p]
BadName == [is |-> "badname"]
FromTo(p, q) == [is |-> "range", p |-> p, q |-> q]
Net(p, size) == [is |-> "net", p |-> p, size |-> size]

Plain(t) == [form |-> "plain", target |-> t, dsc |-> "", account |-> NoAccount]
Csv(t, d) == [form |-> "csv", target |-> t, dsc |-> d, account |-> NoAccount]
Full(t, d, a) == [form |-> "full", target |-> t, dsc |-> d, account |-> a]
Comment == [form |-> "comment", target |-> None, dsc |-> "", account |-> NoAccount]

(* A line of each kind.                                                    *)
MCLines ==
  {Plain(Ip(<<1, 0, 0, 1>>)), Plain(BadName), Comment,
   Csv(FromTo(<<1, 0, 0, 0>>, <<1, 0, 0, 1>>), "d1"),
   Csv(Net(<<1, 0, 0, 0>>, 3), "d2"), Csv(None, "d3"),
   Full(Ip(<<1, 0, 0, 2>>), "d4", a1), Full(None, "d5", a2),
   Full(FromTo(<<1, 0, 0, 1>>, <<1, 0, 0, 1>>), "d6", a1),
   Full(FromTo(<<0, 0, 0, 1>>, <<0, 0, 1, 0>>), "d7", a2),
   Full(Name(<<0, 1, 0, 1>>), "d8", a2)}

MCFiles == UNION {[1 .. n -> MCLines] : n \in 1 .. 3}

MCAccountFiles == {<<a3>>, <<a3, a3>>, <<a3, a3, a3>>}

(* Files of one interval or network each: any two ends, any size.          *)
MCEnds == {p \in Address : p[1] < 2}

MCRangeFiles ==
  {<<Csv(FromTo(p, q), "d")>> : p \in MCEnds, q \in MCEnds}
    \union {<<Csv(Net(p, n), "d")>> : p \in MCEnds, n \in {1, 2, 3, 9, 27}}

MCBothFiles == MCFiles \union MCRangeFiles

(* What an interval inserts does not depend on what was loaded before, so  *)
(* a file of an interval is loaded alone.                                  *)
IntervalsAlone == file \in MCRangeFiles => loads <= 1
=============================================================================
