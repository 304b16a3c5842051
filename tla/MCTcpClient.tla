---------------------------- MODULE MCTcpClient ----------------------------
(* Model values for TcpClient: one thread beside the loop thread.           *)
EXTENDS TcpClient

CONSTANT t1
=============================================================================
