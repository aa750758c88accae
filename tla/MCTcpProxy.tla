----------------------------- MODULE MCTcpProxy -----------------------------
(* Instances of TcpProxy for TLC. *)
EXTENDS TcpProxy, TLC
=============================================================================
