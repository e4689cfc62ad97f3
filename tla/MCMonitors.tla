---------------------------- MODULE MCMonitors -----------------------------
(* Locks and conditions on a small instance: one lock and one condition, a *)
(* semaphore in each thread's frame.                                       *)
EXTENDS Monitors, TLC

CONSTANTS mutex, changed, t1, t2, w0, w1, w2

LockOf == changed :> mutex
Waiter == root :> w0 @@ t1 :> w1 @@ t2 :> w2
Start == [s \in WaitList |-> IF s = mutex THEN 1 ELSE 0]
============================================================================
