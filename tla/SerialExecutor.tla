--------------------------- MODULE SerialExecutor ---------------------------
(***************************************************************************)
(* What an EventLoop promises to the threads that post work to it: every   *)
(* functor is run at most once, by one thread, in the order in which the   *)
(* posts took effect.  Nothing is said of wake-ups, polling or batches.    *)
(***************************************************************************)
EXTENDS Naturals, Sequences

CONSTANT Functor   \* whatever can be posted

VARIABLES
    posted,        \* every functor posted so far, in order
    executed       \* every functor run so far, in order

vars == <<posted, executed>>

Init == posted = <<>> /\ executed = <<>>

Post == \E f \in Functor :
            /\ posted' = Append(posted, f)
            /\ UNCHANGED executed

Execute == /\ Len(executed) < Len(posted)
           /\ executed' = Append(executed, posted[Len(executed) + 1])
           /\ UNCHANGED posted

Next == Post \/ Execute

Spec == Init /\ [][Next]_vars
=============================================================================
