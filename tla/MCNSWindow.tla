----------------------------- MODULE MCNSWindow -----------------------------
(* Instances of NSWindow: run 0, the thread auto_scan, and MaxRuns runs    *)
(* the user starts, of NbIp addresses each.                                *)
EXTENDS NSWindow

(* leaks only grows and the safety properties are about calm states, so    *)
(* nothing is missed by not going on from the others.                      *)
WhileCalm == Calm

(* The same for the liveness property, which excuses these.                *)
WhileUnspoilt == Without({"permit", "loader", "boot"})
=============================================================================
