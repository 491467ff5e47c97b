----------------------------- MODULE MCPlacement -----------------------------
(* Two nodes of known sites and between them one of a site that sites.json *)
(* does not have, with a cap of one node and without; a pod that others    *)
(* bind, again and again: it fills the first node and leaves room on the   *)
(* last.                                                                   *)
EXTENDS Placement

MCAlloc == [n \in Nodes |-> [cpu |-> IF n = 3 THEN 3 ELSE 2, mem |-> 2]]
MCCINorm == [n \in Nodes |-> IF n = 1 THEN 20 ELSE 80]
MCDemand == [p \in Pods |-> [cpu |-> IF p = "job" THEN 2 ELSE 1, mem |-> 1]]
MCLoad == [r \in Res |-> [S \in SUBSET Pods |-> MapThenSumSet(LAMBDA p : MCDemand[p][r], S)]]
MCLength == [p \in Pods |-> IF p = "job" THEN 1 ELSE 2]
=============================================================================
