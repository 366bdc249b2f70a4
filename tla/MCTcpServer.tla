----------------------------- MODULE MCTcpServer -----------------------------
(***************************************************************************)
(* An instance of TcpServer for TLC: two threads accept.                   *)
(***************************************************************************)
EXTENDS TcpServer

=============================================================================
