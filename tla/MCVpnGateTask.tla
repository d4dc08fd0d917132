---------------------------- MODULE MCVpnGateTask ----------------------------
(* VpnGateTask with interchangeable attempts, failovers and requests. *)
EXTENDS VpnGateTask, TLC

Symmetry ==
  Permutations(Conns) \cup Permutations(Failovers) \cup Permutations(Requests)

=============================================================================
