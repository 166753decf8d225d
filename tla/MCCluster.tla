----------------------------- MODULE MCCluster -----------------------------
(* Cluster for the model checker: no step tells one payment value from     *)
(* another, so that a run without liveness may take them up to renaming.   *)
EXTENDS Cluster, TLC

ValueSymmetry == Permutations(Value)
=============================================================================
