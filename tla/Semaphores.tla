---------------------------- MODULE Semaphores -----------------------------
(***************************************************************************)
(* The counting semaphores of thread.c, on top of the scheduler.           *)
(*                                                                         *)
(* sem_up makes the first waiter ready and leaves the unit in value: the   *)
(* woken thread has to take it when it runs, and a thread that runs before *)
(* it may take it first (sem_down and sem_try_down do not look at the      *)
(* waiters).  Hence the loop in sem_down.                                  *)
(*                                                                         *)
(* A semaphore is named by the list of its waiters.                        *)
(***************************************************************************)
EXTENDS Threads

CONSTANTS
  Initial,   \* the value each semaphore is given by sem_init
  MaxValue   \* bound on value: clients call sem_up below it only

Sem == WaitList

ASSUME SemaphoresAssumption ==
  /\ MaxValue \in Nat
  /\ Initial \in [Sem -> 0 .. MaxValue]

VARIABLES
  value,     \* sem->value
  waits_on   \* the argument of the sem_down a thread is blocked in, or NULL

semVars == <<value, waits_on>>

SemInit ==
  /\ ThreadsInit
  /\ value = Initial
  /\ waits_on = [t \in Thread |-> NULL]

---------------------------------------------------------------------------
(* One round of the loop in sem_down(s): block, to come back to this point *)
(* (here), or take a unit and go on (after).                               *)
Down(s, here, after) ==
  IF value[s] = 0
  THEN /\ Block(s, here)
       /\ waits_on' = [waits_on EXCEPT ![current] = s]
       /\ UNCHANGED value
  ELSE /\ value' = [value EXCEPT ![s] = @ - 1]
       /\ pc' = [pc EXCEPT ![current] = after]
       /\ waits_on' = [waits_on EXCEPT ![current] = NULL]
       /\ UNCHANGED <<q, current, num_thrs, heap, handle, code, status>>

(* Slips: no waiter is woken; one is woken only by the first unit. *)
UpNoWake(s, after) ==
  /\ value[s] < MaxValue
  /\ value' = [value EXCEPT ![s] = @ + 1]
  /\ pc' = [pc EXCEPT ![current] = after]
  /\ UNCHANGED <<q, current, num_thrs, heap, handle, code, status, waits_on>>

UpFirstUnitOnly(s, after) ==
  /\ value[s] < MaxValue
  /\ value' = [value EXCEPT ![s] = @ + 1]
  /\ pc' = [pc EXCEPT ![current] = after]
  /\ IF q.list[s] = <<>> \/ value[s] > 0
     THEN UNCHANGED <<q, current, num_thrs, heap, handle, code, status>>
     ELSE Wake(s)
  /\ UNCHANGED waits_on

(* sem_up(s), after which the caller goes on at label after. *)
Up(s, after) ==
  /\ value[s] < MaxValue
  /\ value' = [value EXCEPT ![s] = @ + 1]
  /\ pc' = [pc EXCEPT ![current] = after]
  /\ IF q.list[s] = <<>> THEN UNCHANGED <<q, current, num_thrs, heap, handle, code, status>>
                         ELSE Wake(s)
  /\ UNCHANGED waits_on

sem_down(s) ==
  /\ At("user")
  /\ Down(s, "sem_down", "user")

(* A thread that run() has returned to inside sem_down tests value again. *)
sem_down_resume ==
  /\ At("sem_down")
  /\ Down(waits_on[current], "sem_down", "user")

sem_try_down(s) ==
  /\ At("user")
  /\ IF value[s] > 0
     THEN value' = [value EXCEPT ![s] = @ - 1]
     ELSE UNCHANGED value
  /\ UNCHANGED <<threadVars, waits_on>>

sem_up(s) ==
  /\ At("user")
  /\ Up(s, "user")

SemNext ==
  \/ ThreadsNext /\ UNCHANGED semVars
  \/ \E s \in Sem : sem_down(s)
  \/ sem_down_resume
  \/ \E s \in Sem : sem_try_down(s)
  \/ \E s \in Sem : sem_up(s)

SemSpec == SemInit /\ [][SemNext]_<<threadVars, semVars>>

(* Fairness as in Threads: a thread yields in the end, here by blocking in *)
(* sem_down too, and a resumed call goes on.                               *)
SemYield ==
  \/ Yield /\ UNCHANGED semVars
  \/ \E s \in Sem : sem_down(s) /\ current' # current

SemFairSpec ==
  /\ SemSpec
  /\ WF_<<threadVars, semVars>>(SemYield)
  /\ WF_<<threadVars, semVars>>(thread_join_return /\ UNCHANGED semVars)
  /\ WF_<<threadVars, semVars>>(thread_join_all_return /\ UNCHANGED semVars)
  /\ WF_<<threadVars, semVars>>(sem_down_resume)

---------------------------------------------------------------------------
(* Properties. *)

(* The threads an up has made ready that have not run since. *)
Woken(s) == {t \in Thread : waits_on[t] = s /\ q.in_list[t] # s}

SemTypeOK ==
  /\ ThreadsTypeOK
  /\ value \in [Sem -> 0 .. MaxValue]
  /\ waits_on \in [Thread -> Sem \cup {NULL}]

(* No wakeup is lost: while threads wait on s, for every unit of its value *)
(* a thread taken off the list is on its way to claim it.  Threads that    *)
(* take units without having waited can only make value smaller.           *)
NoLostWakeup ==
  \A s \in Sem : q.list[s] # <<>> => value[s] <= Cardinality(Woken(s))

(* A unit and a thread waiting for one do not stay side by side: the unit  *)
(* is taken, by that thread or another, or no thread waits any more.       *)
UnitsAreClaimed ==
  \A s \in Sem :
    value[s] > 0 /\ q.list[s] # <<>> ~> value[s] = 0 \/ q.list[s] = <<>>

(* When run() finds no thread ready, every live thread waits for something *)
(* that has not happened: a unit of a semaphore whose value is 0, the exit *)
(* of another live thread, or that of all the others.                      *)
StuckMeansNothingAvailable ==
  status = "stuck" =>
    \A t \in Live :
      \/ q.in_list[t] \in Sem /\ value[q.in_list[t]] = 0
      \/ q.in_list[t] \in Live \ {t}
      \/ q.in_list[t] = join_list /\ Live # {t}
============================================================================
