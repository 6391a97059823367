----------------------------- MODULE MCRtCAScan -----------------------------
(* Scans of two tests, one after the other, and the click by which one meets *)
(* another.                                                                 *)
EXTENDS RtCAScan

(* The properties say nothing of scans that have met. A second scan runs     *)
(* where tests open transactions, and if there was no Stop in the first.     *)
StillApart ==
  /\ ~met
  /\ \A g \in Scans : g > 1 /\ gpc[g] # "none" =>
       ~full_speed /\ \A k \in Stops : spc[k] = "none"
=============================================================================
