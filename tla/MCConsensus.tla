---------------------------- MODULE MCConsensus ----------------------------
(* Drivers for the model checker.  TwoSetups: three candidates race for    *)
(* the votes of two nodes that do not campaign and for nobody else's; two  *)
(* candidates vote themselves, and leaders send heartbeats.  OneSetup, as  *)
(* in the first half of cmd/test_member4.                                  *)
EXTENDS Consensus

TwoSetups ==
  {[timers |-> {1, 2, 3}, voters |-> {4, 5}, beating |-> {}, terms |-> 2],
   [timers |-> {1, 2}, voters |-> {1, 2, 3}, beating |-> {1, 2, 3}, terms |-> 1]}
OneSetup == {[timers |-> {1}, voters |-> {2, 3}, beating |-> {1, 2, 3}, terms |-> 1]}
=============================================================================
