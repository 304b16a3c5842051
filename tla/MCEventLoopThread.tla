------------------------- MODULE MCEventLoopThread -------------------------
(* Model values for EventLoopThread: the owner, two more threads that post  *)
(* or quit, one descriptor.                                                 *)
EXTENDS EventLoopThread

CONSTANTS owner, o1, o2, loop, sock
=============================================================================
