--------------------------- MODULE MCSemaphores ----------------------------
(* Semaphores on a small instance. *)
EXTENDS Semaphores, TLC

CONSTANT s1

Start == s1 :> 1
============================================================================
