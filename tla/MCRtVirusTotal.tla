--------------------------- MODULE MCRtVirusTotal ---------------------------
(* Two runs of either kind over lists of up to MaxRows rows, the second one *)
(* after the first or beside it, until each has been disturbed. The window  *)
(* changes the list of the first run, from its start until it drains, and   *)
(* once rows moved under it only takes rows away; a second run that begins  *)
(* creates its semaphores before anything else.                             *)
EXTENDS RtVirusTotal

Standard == [r \in 1 .. MaxRows |-> [id |-> r, hash |-> TRUE, text |-> "none"]]

AllStandard == filling.row = 0 /\ \A k \in Lists : list[k] = Standard

ListsWatched ==
  /\ <<list, filling>>' # <<list, filling>> /\ th' = th =>
       \/ /\ 1 \notin disturbed /\ run[2].pc = "none"
          /\ 1 \in stirred /\ run[1].pc # "create" =>
               Len(list'[run[1].kind]) < Len(list[run[1].kind])
          /\ run[1].pc \in {"create", "test", "permit", "item", "put"}
          /\ \A k \in Lists \ {run[1].kind} : list'[k] = list[k]
          /\ run[1].kind = "processes" => filling' = filling
       \/ /\ \A c \in Runs : run[c].pc \in {"none", "done", "dead"}
          /\ filling' = filling
          /\ \E k \in Lists : list' = [list EXCEPT ![k] = Standard]
  /\ run[1].pc = "none" /\ run'[1].pc # "none" =>
       \A k \in Lists \ {run'[1].kind} : list[k] = Standard
  /\ run[2].pc = "none" /\ run'[2].pc # "none" => AllStandard /\ stirred = {}
  /\ run[2].pc = "create" => run'[2].pc # "create"

Settled ==
  /\ disturbed # Runs
  /\ 1 \in disturbed /\ run[2].pc = "none" => AllStandard
=============================================================================
