---------------------------- MODULE MCOrderedLog ----------------------------
(* Plans for the model checker: either both goroutines of the server       *)
(* record events of its own, or another node does, or asks for recovery.   *)
EXTENDS OrderedLog

TwoPlans ==
  {[n \in Node |-> IF n = Server THEN 5 ELSE 0],
   [n \in Node |-> IF n = Server THEN 0 ELSE 1]}
=============================================================================
