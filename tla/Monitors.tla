----------------------------- MODULE Monitors ------------------------------
(***************************************************************************)
(* The locks and condition variables of thread.c, on top of its            *)
(* semaphores.  A lock is a semaphore of initial value 1 with a holder.  A *)
(* thread that waits on a condition puts a semaphore of its own, which     *)
(* lives in the stack frame of cond_wait, on the condition's list.         *)
(*                                                                         *)
(* A call is one action per primitive it calls; between two of them the    *)
(* caller keeps the processor, as in the code.                             *)
(***************************************************************************)
EXTENDS Semaphores

CONSTANTS
  Lock,      \* locks, each named as the semaphore inside it
  Cond,      \* condition variables
  lock_of,   \* the one lock each condition is used with
  waiter     \* each thread's waiter.semaphore, in its frame of cond_wait

ASSUME MonitorsAssumption ==
  /\ Lock \subseteq Sem
  /\ lock_of \in [Cond -> Lock]
  /\ waiter \in [Thread -> Sem \ Lock]
  /\ \A t, u \in Thread : waiter[t] = waiter[u] => t = u
  /\ \A s \in Sem : Initial[s] = IF s \in Lock THEN 1 ELSE 0
  /\ NULL \notin Cond

VARIABLES
  holder,        \* lock->holder
  cond_waiters,  \* cond->waiters, each element named by the thread it is of
  call_cond,     \* the condition of the cond_wait or cond_broadcast a thread
                 \* is in, or NULL
  inside         \* history: the threads that have acquired a lock and have
                 \* not released it since

monitorVars == <<holder, cond_waiters, call_cond, inside>>
allVars == <<threadVars, semVars, monitorVars>>

MonitorInit ==
  /\ SemInit
  /\ holder = [l \in Lock |-> NULL]
  /\ cond_waiters = [c \in Cond |-> <<>>]
  /\ call_cond = [t \in Thread |-> NULL]
  /\ inside = [l \in Lock |-> {}]

Holds(l) == holder[l] = current

---------------------------------------------------------------------------
(* sem_down on the lock's semaphore, then holder = current. *)
Acquire(l, here, after) ==
  /\ Down(l, here, after)
  /\ IF value[l] = 0
     THEN UNCHANGED <<holder, inside>>
     ELSE /\ holder' = [holder EXCEPT ![l] = current]
          /\ inside' = [inside EXCEPT ![l] = @ \cup {current}]

(* Slip: no thread is woken. *)
UnlockNoWake(l, after) ==
  /\ UpNoWake(l, after)
  /\ holder' = [holder EXCEPT ![l] = NULL]
  /\ inside' = [inside EXCEPT ![l] = @ \ {current}]

(* holder = NULL, then sem_up on the lock's semaphore. *)
Unlock(l, after) ==
  /\ Up(l, after)
  /\ holder' = [holder EXCEPT ![l] = NULL]
  /\ inside' = [inside EXCEPT ![l] = @ \ {current}]

lock_acquire(l) ==
  /\ At("user") /\ ~Holds(l)
  /\ Acquire(l, "lock_acquire", "user")
  /\ UNCHANGED <<cond_waiters, call_cond>>

lock_acquire_resume ==
  /\ At("lock_acquire")
  /\ Acquire(waits_on[current], "lock_acquire", "user")
  /\ UNCHANGED <<cond_waiters, call_cond>>

(* Slip: the result of sem_try_down is not looked at. *)
lock_try_acquire_always(l) ==
  /\ At("user") /\ ~Holds(l)
  /\ value' = [value EXCEPT ![l] = IF @ > 0 THEN @ - 1 ELSE 0]
  /\ holder' = [holder EXCEPT ![l] = current]
  /\ inside' = [inside EXCEPT ![l] = @ \cup {current}]
  /\ UNCHANGED <<threadVars, waits_on, cond_waiters, call_cond>>

lock_try_acquire(l) ==
  /\ At("user") /\ ~Holds(l)
  /\ IF value[l] > 0
     THEN /\ value' = [value EXCEPT ![l] = @ - 1]
          /\ holder' = [holder EXCEPT ![l] = current]
          /\ inside' = [inside EXCEPT ![l] = @ \cup {current}]
     ELSE UNCHANGED <<value, holder, inside>>
  /\ UNCHANGED <<threadVars, waits_on, cond_waiters, call_cond>>

lock_release(l) ==
  /\ At("user") /\ Holds(l)
  /\ Unlock(l, "user")
  /\ UNCHANGED <<cond_waiters, call_cond>>

(* cond_wait(c, l): sem_init and the push onto cond->waiters, ... *)
cond_wait(c) ==
  /\ At("user") /\ Holds(lock_of[c])
  /\ q' = [q EXCEPT !.list[waiter[current]] = <<>>]
  /\ value' = [value EXCEPT ![waiter[current]] = 0]
  /\ cond_waiters' = [cond_waiters EXCEPT ![c] = Append(@, current)]
  /\ call_cond' = [call_cond EXCEPT ![current] = c]
  /\ pc' = [pc EXCEPT ![current] = "cond_release"]
  /\ UNCHANGED <<current, num_thrs, heap, handle, code, status, waits_on,
                 holder, inside>>

(* ... lock_release, ... *)
cond_wait_release ==
  /\ At("cond_release")
  /\ Unlock(lock_of[call_cond[current]], "cond_down")
  /\ UNCHANGED <<cond_waiters, call_cond>>

(* ... sem_down(&waiter.semaphore), once or again after a wakeup, ... *)
cond_wait_down ==
  /\ At("cond_down")
  /\ Down(waiter[current], "cond_down", "cond_relock")
  /\ UNCHANGED monitorVars

(* ... and lock_acquire, once or again, after which the frame is gone. *)
cond_wait_relock ==
  /\ At("cond_relock")
  /\ Acquire(lock_of[call_cond[current]], "cond_relock", "user")
  /\ call_cond' = IF value[lock_of[call_cond[current]]] = 0
                  THEN call_cond ELSE [call_cond EXCEPT ![current] = NULL]
  /\ UNCHANGED cond_waiters

(* Slips: the element stays on cond->waiters; the wrong one is upped. *)
SignalNoPop(c, after) ==
  /\ cond_waiters[c] # <<>>
  /\ Up(waiter[Head(cond_waiters[c])], after)
  /\ UNCHANGED monitorVars

SignalLast(c, after) ==
  /\ cond_waiters[c] # <<>>
  /\ cond_waiters' = [cond_waiters EXCEPT ![c] = Tail(@)]
  /\ Up(waiter[cond_waiters[c][Len(cond_waiters[c])]], after)
  /\ UNCHANGED <<holder, inside, call_cond>>

(* The front element comes off cond->waiters and its semaphore goes up. *)
Signal(c, after) ==
  /\ cond_waiters[c] # <<>>
  /\ cond_waiters' = [cond_waiters EXCEPT ![c] = Tail(@)]
  /\ Up(waiter[Head(cond_waiters[c])], after)
  /\ UNCHANGED <<holder, inside, call_cond>>

cond_signal(c) ==
  /\ At("user") /\ Holds(lock_of[c])
  /\ IF cond_waiters[c] = <<>> THEN UNCHANGED allVars ELSE Signal(c, "user")

cond_broadcast(c) ==
  /\ At("user") /\ Holds(lock_of[c])
  /\ call_cond' = [call_cond EXCEPT ![current] = c]
  /\ pc' = [pc EXCEPT ![current] = "cond_broadcast"]
  /\ UNCHANGED <<q, current, num_thrs, heap, handle, code, status, semVars,
                 holder, cond_waiters, inside>>

(* The loop of cond_broadcast: a cond_signal per round until none waits. *)
cond_broadcast_round ==
  LET c == call_cond[current]
  IN /\ At("cond_broadcast")
     /\ \/ Signal(c, "cond_broadcast")
        \/ /\ cond_waiters[c] = <<>>
           /\ call_cond' = [call_cond EXCEPT ![current] = NULL]
           /\ pc' = [pc EXCEPT ![current] = "user"]
           /\ UNCHANGED <<q, current, num_thrs, heap, handle, code, status,
                          semVars, holder, cond_waiters, inside>>

(* Clients obey the rule that the thread that acquires a lock releases it: *)
(* none exits with a lock held.                                            *)
MonitorNext ==
  \/ /\ ThreadsNext /\ UNCHANGED <<semVars, monitorVars>>
     /\ num_thrs' < num_thrs => \A l \in Lock : ~Holds(l)
  \/ \E l \in Lock : lock_acquire(l) \/ lock_try_acquire(l) \/ lock_release(l)
  \/ lock_acquire_resume
  \/ \E c \in Cond : cond_wait(c) \/ cond_signal(c) \/ cond_broadcast(c)
  \/ cond_wait_release
  \/ cond_wait_down
  \/ cond_wait_relock
  \/ cond_broadcast_round

MonitorSpec == MonitorInit /\ [][MonitorNext]_allVars

---------------------------------------------------------------------------
(* Properties. *)

MonitorTypeOK ==
  /\ SemTypeOK
  /\ holder \in [Lock -> Thread \cup {NULL}]
  /\ cond_waiters \in [Cond -> Seq(Thread)]
  /\ call_cond \in [Thread -> Cond \cup {NULL}]
  /\ inside \in [Lock -> SUBSET Thread]

(* A lock is held by at most one thread at a time, lock->holder names that *)
(* thread, and the lock's semaphore is 0 exactly while it is held.         *)
MutualExclusion ==
  \A l \in Lock :
    /\ inside[l] = IF holder[l] = NULL THEN {} ELSE {holder[l]}
    /\ value[l] = IF holder[l] = NULL THEN 1 ELSE 0

(* Every element on cond->waiters lives in the frame of a cond_wait that   *)
(* has not got past its sem_down, on that condition, and is there once.    *)
WaiterFramesLive ==
  \A c \in Cond :
    /\ IsInjective(cond_waiters[c])
    /\ \A t \in Range(cond_waiters[c]) :
         /\ t \in Live
         /\ call_cond[t] = c /\ pc[t] \in {"cond_release", "cond_down"}

(* No signal is lost: a thread in cond_wait that is off cond->waiters has  *)
(* been signalled, finds its semaphore at 1 and is not left waiting on it; *)
(* one that is still on the list has not been woken.                       *)
NoLostSignal ==
  \A t \in Live :
    pc[t] \in {"cond_release", "cond_down"} =>
      IF t \in Range(cond_waiters[call_cond[t]])
      THEN value[waiter[t]] = 0 /\ q.in_list[t] \in {waiter[t], NULL}
      ELSE value[waiter[t]] = 1 /\ q.in_list[t] # waiter[t]

(* The system stops for lack of a ready thread only if each live thread    *)
(* waits for a lock another live thread holds, for a signal nobody sent,   *)
(* or for threads that have not exited.                                    *)
StuckMonitors ==
  status = "stuck" =>
    \A t \in Live :
      \/ \E l \in Lock : q.in_list[t] = l /\ holder[l] \in Live \ {t}
      \/ q.in_list[t] = waiter[t] /\ t \in Range(cond_waiters[call_cond[t]])
      \/ q.in_list[t] \in Live \ {t}
      \/ q.in_list[t] = join_list /\ Live # {t}
============================================================================
