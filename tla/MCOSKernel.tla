----------------------------- MODULE MCOSKernel -----------------------------
(***************************************************************************)
(* Small instances of OSKernel for TLC.                                    *)
(***************************************************************************)
EXTENDS OSKernel

CONSTANTS a, b, c

CapacityOne == [q \in Queues |-> 1]
CapacityTwo == [q \in Queues |-> 2]

\* Application threads are interchangeable.
AppThreads == Permutations(Threads \ {Idle})
==============================================================================
