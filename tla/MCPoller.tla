------------------------------ MODULE MCPoller ------------------------------
(* Model values for Poller: three channels over the descriptors of the cfg. *)
EXTENDS Poller, TLC

CONSTANTS a, b, c

ChannelSymmetry == Permutations(Channels)
=============================================================================
