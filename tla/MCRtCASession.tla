---------------------------- MODULE MCRtCASession ----------------------------
(* Months of two days, of which one is counted: the last day of a month and *)
(* the first one of the next have the same number. A file has an early      *)
(* session and one of a later date. The clock stands still while nobody is  *)
(* about to read it. Each scan or import has one row at a time, a scan's    *)
(* tests have at most two numbers, and tests that escaped stand still,      *)
(* since the properties leave them out.                                     *)
EXTENDS RtCASession

MCFiles == {{1, 3}}

OneRowEach == \A w \in Writers :
  /\ Cardinality({r \in rows : r.by = w}) <= 1
  /\ Cardinality(writer[w].at) <= 2

Quiet ==
  /\ now' # now =>
       \/ h_conf /\ ~Scanning
       \/ \E w \in Writers : writer[w].pc = "ask"
  /\ \A w \in Writers : writer[w].pc = "escaped" => writer'[w] = writer[w]
=============================================================================
