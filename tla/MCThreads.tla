----------------------------- MODULE MCThreads -----------------------------
(* Threads on a small instance, with no lists besides the scheduler's own. *)
EXTENDS Threads, TLC

(* The threads other than root are interchangeable. *)
Symmetry == Permutations(Thread \ {root})
============================================================================
