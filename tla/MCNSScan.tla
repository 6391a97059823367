------------------------------ MODULE MCNSScan ------------------------------
(***************************************************************************)
(* Small instances of NSScan for TLC: the limits are cut down so that two  *)
(* threads already compete for every semaphore.                            *)
(***************************************************************************)
EXTENDS NSScan

(* One permit everywhere except for the threads themselves.                *)
MCLimit == [s \in Sems |-> IF s = "threads" THEN 2 ELSE 1]

(* A selection of tests, DNS names not being a proof of existence.         *)
Selection(on) == [f \in ConfigFields |-> f \in on]

AllTests == Selection(ConfigFields)
FilesOnly == Selection({"icmp", "files"})
Nothing == Selection({})

MCConfigs == {AllTests, FilesOnly, Nothing}
=============================================================================
