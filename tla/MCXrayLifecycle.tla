--------------------------- MODULE MCXrayLifecycle ---------------------------
(* Small instances of XrayLifecycle for TLC. *)
EXTENDS XrayLifecycle, TLC

Symmetry == Permutations(Procs) \cup Permutations(Panel) \cup Permutations(Ticks)
=============================================================================
