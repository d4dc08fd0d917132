----------------------------- MODULE MCWsClient -----------------------------
(* The browser's client with a few sockets; liveness is checked, so no symmetry *)
(* is used.                                                                     *)
EXTENDS WsClient

=============================================================================
