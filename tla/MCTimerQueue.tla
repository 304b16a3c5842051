---------------------------- MODULE MCTimerQueue ----------------------------
(* Model values for TimerQueue: an allocator of two addresses and one thread *)
(* beside the loop thread.                                                   *)
EXTENDS TimerQueue, TLC

CONSTANTS p, q, t1

AddrSymmetry == Permutations(Addr)
=============================================================================
