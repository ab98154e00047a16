------------------------------ MODULE MCTracer ------------------------------
(* Small instances of Tracer for TLC. *)
EXTENDS Tracer, TLC

CONSTANTS t1, t2, t3, k1, k2

(* Threads and calls are interchangeable in every safety property. *)
ThreadSymmetry == Permutations(Threads) \cup Permutations(Calls)
=============================================================================
