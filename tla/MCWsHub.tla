------------------------------- MODULE MCWsHub -------------------------------
(* WsHub on small instances; connections are interchangeable.                *)
EXTENDS WsHub, TLC

Symmetry == Permutations(Clients) \cup Permutations(Senders)
=============================================================================
