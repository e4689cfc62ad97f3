-------------------------- MODULE AbstractThreads --------------------------
(***************************************************************************)
(* What thread_new, thread_exit and thread_join promise, without a         *)
(* scheduler: any thread that is alive and not waiting may act at any      *)
(* time.  A join returns after the thread it names has exited, with the    *)
(* exit code of that very thread, even if its address is in use again by   *)
(* then; thread_join(NULL) returns to the last thread.                     *)
(***************************************************************************)
EXTENDS Integers

CONSTANTS Thread, root, Code, NULL

VARIABLES
  live,     \* the threads created and not exited
  joins,    \* the thread a thread waits for; a thread that waits for all the
            \* others waits for itself; NULL when it waits for none
  result    \* the exit code the last join of a thread got

vars == <<live, joins, result>>

Free(t) == t \in live /\ joins[t] = NULL

Init ==
  /\ live = {root}
  /\ joins = [t \in Thread |-> NULL]
  /\ result = [t \in Thread |-> 0]

New(t) ==
  /\ t \notin live
  /\ live' = live \cup {t}
  /\ result' = [result EXCEPT ![t] = 0]
  /\ UNCHANGED joins

Join(t, u) ==
  /\ Free(t) /\ u \in live \ {t}
  /\ joins' = [joins EXCEPT ![t] = u]
  /\ UNCHANGED <<live, result>>

JoinAll(t) ==
  /\ Free(t) /\ live # {t}
  /\ joins' = [joins EXCEPT ![t] = t]
  /\ UNCHANGED <<live, result>>

(* The exit of u is what wakes its joiners, and the last one but one to    *)
(* exit wakes the thread that waits for all.                               *)
Exit(u, c) ==
  /\ Free(u)
  /\ live' = live \ {u}
  /\ joins' = [t \in Thread |->
                 IF joins[t] = u \/ (joins[t] = t /\ live' = {t})
                 THEN NULL ELSE joins[t]]
  /\ result' = [t \in Thread |-> IF joins[t] = u THEN c ELSE result[t]]

Next ==
  \/ \E t \in Thread : New(t) \/ JoinAll(t)
  \/ \E t, u \in Thread : Join(t, u)
  \/ \E u \in Thread, c \in Code : Exit(u, c)

Spec == Init /\ [][Next]_vars
============================================================================
