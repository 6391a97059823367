---------------------------- MODULE MCNSAutoScan ----------------------------
(* Instances of NSAutoScan: few permits of each kind, so that threads wait *)
(* for each other in every section and in the nested ones. The verdicts of *)
(* its tests are checked for a common year and the leap year after it.     *)
EXTENDS NSAutoScan

MCLimit == [s \in Sems |-> IF s = "threads" THEN 2 ELSE 1]

MCAllOn == {[DNS_DISCOVERY |-> TRUE, MCAFEE_SCAN |-> TRUE]}

MCConfigs == MCAllOn \union {[DNS_DISCOVERY |-> FALSE, MCAFEE_SCAN |-> FALSE]}
=============================================================================
