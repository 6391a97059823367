------------------------------ MODULE MCNSAuth ------------------------------
(* Three workers on two machines: two of them at least meet.                *)
EXTENDS NSAuth, TLC

CONSTANTS w1, w2, w3, m1, m2

MCWorkers == {w1, w2, w3}
MCMachines == {m1, m2}
Symmetry == Permutations(MCWorkers) \union Permutations(MCMachines)
=============================================================================
