--------------------------- MODULE ProcessThreads ---------------------------
(* The threads of a process.  Modules that share them use no other name    *)
(* twice, so that Process_proofs can extend all of them.                   *)
EXTENDS Integers, FiniteSets

CONSTANT Threads

(* There is one thread at least.                                           *)
ASSUME ThreadsAssumption == IsFiniteSet(Threads) /\ Threads # {}

VARIABLE pc     \* pc[t]: the place of t
=============================================================================
