-------------------------- MODULE MCTcpConnection --------------------------
(* Model values for TcpConnection: one thread beside the loop thread.       *)
EXTENDS TcpConnection

CONSTANT t1
=============================================================================
