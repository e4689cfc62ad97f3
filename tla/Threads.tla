------------------------------ MODULE Threads ------------------------------
(***************************************************************************)
(* The cooperative scheduler of thread.c: creation, exit, join and pause   *)
(* of threads, and the lists of threads they are built on.                 *)
(*                                                                         *)
(* One core runs one thread at a time and nothing preempts it: the program *)
(* never enables interrupts.  A thread gives the processor up in run(),    *)
(* and everything it does between two calls of run() is atomic for the     *)
(* others.  An action is one call of the API by the running thread, up to  *)
(* its return or through its call of run(); what a blocked call does once  *)
(* it runs again is an action of its own, named ..._return.                *)
(*                                                                         *)
(* A thread is named by the address of its struct thread, so a name can be *)
(* used again once the memory behind it has been freed.                    *)
(***************************************************************************)
EXTENDS Integers, Sequences, FiniteSets, Functions

CONSTANTS
  Thread,      \* addresses a struct thread may have
  root,        \* the static thread that calls thread_init
  Code,        \* exit codes
  WaitList,    \* lists other objects keep of their waiting threads
  ready_list, free_list, join_list,
  NULL,
  FREED        \* what a field of freed memory reads as: the 0xcc fill

(* Where a thread is: in its own code, or in a call of the library, of this*)
(* module or of one built on it.                                           *)
Label ==
  {"user", "join", "join_all", "sem_down", "lock_acquire",
   "cond_release", "cond_down", "cond_relock", "cond_broadcast",
   "send_down", "send_post", "send_sync", "recv_down", "recv_copy", "recv_up"}

(* A thread's own join_list is named by the thread. *)
ListId == {ready_list, free_list, join_list} \cup Thread \cup WaitList

(* The lists are distinct objects and NULL is the address of none. *)
ASSUME ThreadsAssumption ==
  /\ root \in Thread
  /\ IsFiniteSet(Thread)
  /\ Code \subseteq Int
  /\ Thread \cap WaitList = {}
  /\ {ready_list, free_list, join_list} \cap (Thread \cup WaitList) = {}
  /\ ready_list # free_list /\ ready_list # join_list /\ free_list # join_list
  /\ NULL \notin ListId
  /\ FREED \notin Thread \cup {NULL}

VARIABLES
  q,         \* the lists, each thread's in_list, and whether every ASSERT held
  current,   \* the running thread
  num_thrs,  \* threads created and not exited
  heap,      \* addresses malloc has handed out to threads
  handle,    \* thr->handle: the thread itself while it lives
  code,      \* thr->code: where the thread it joined leaves its exit code
  pc,        \* where a thread will resume: in its own code or in a call
  status     \* "running"; "halt" after the last exit; "stuck" once run() has
             \* asked an empty ready_list for a thread

threadVars == <<q, current, num_thrs, heap, handle, code, pc, status>>

Live == {t \in Thread : handle[t] = t}

---------------------------------------------------------------------------
(* List operations.  r is a value of q: list is the content of every list, *)
(* in_list the field of that name, ok the conjunction of the ASSERTs met.  *)

Asserting(r, e) == [r EXCEPT !.ok = @ /\ e]

(* Slip for the runs to catch: the thread goes to the front of the list. *)
PutFront(r, t, l) ==
  [list    |-> [r.list EXCEPT ![l] = <<t>> \o @],
   in_list |-> [r.in_list EXCEPT ![t] = l],
   ok      |-> r.ok /\ r.in_list[t] = NULL]

Put(r, t, l) ==
  [list    |-> [r.list EXCEPT ![l] = Append(@, t)],
   in_list |-> [r.in_list EXCEPT ![t] = l],
   ok      |-> r.ok /\ r.in_list[t] = NULL]

(* Slip: in_list is not reset. *)
GetKeepsInList(r, l) ==
  [r EXCEPT !.list[l] = Tail(@), !.ok = @ /\ r.in_list[Head(r.list[l])] = l]

Get(r, l) ==
  LET t == Head(r.list[l])
  IN [list    |-> [r.list EXCEPT ![l] = Tail(@)],
      in_list |-> [r.in_list EXCEPT ![t] = NULL],
      ok      |-> r.ok /\ r.in_list[t] = l]

(* One thread, from the front of a list to the back of another. *)
Move(r, from, to) == Put(Get(r, from), Head(r.list[from]), to)

(* Every thread of a list, in order, to the back of another. *)
MoveAll(r, from, to) ==
  [list    |-> [r.list EXCEPT ![to] = @ \o r.list[from], ![from] = <<>>],
   in_list |-> [t \in Thread |->
                  IF t \in Range(r.list[from]) THEN to ELSE r.in_list[t]],
   ok      |-> r.ok /\ \A t \in Range(r.list[from]) : r.in_list[t] = from]

(* The memory of the threads on free_list is freed, in_list with it. *)
Release(r) ==
  [list    |-> [r.list EXCEPT ![free_list] = <<>>],
   in_list |-> [t \in Thread |->
                  IF t \in Range(r.list[free_list]) THEN NULL ELSE r.in_list[t]],
   ok      |-> r.ok]

(* Slip: the thread that calls release() is freed with them. *)
DeadAndCurrent == Range(q.list[free_list]) \cup {current}

(* The threads whose memory release() gives back. *)
Dead == Range(q.list[free_list])

handleAfterRelease == [t \in Thread |-> IF t \in Dead THEN FREED ELSE handle[t]]

(* run(): the front of ready_list becomes the running thread. *)
run(r) ==
  IF r.list[ready_list] = <<>>
  THEN status' = "stuck" /\ q' = r /\ UNCHANGED current
  ELSE /\ current' = Head(r.list[ready_list])
       /\ q' = Get(r, ready_list)
       /\ UNCHANGED status

(* The running thread goes to the back of l, to resume at label. *)
Block(l, label) ==
  /\ run(Put(q, current, l))
  /\ pc' = [pc EXCEPT ![current] = label]
  /\ UNCHANGED <<num_thrs, heap, handle, code>>

(* The first thread of l becomes ready; the caller goes on running. *)
Wake(l) ==
  /\ q' = Move(q, l, ready_list)
  /\ UNCHANGED <<current, num_thrs, heap, handle, code, status>>

---------------------------------------------------------------------------
ThreadsStart ==
  /\ q = [list |-> [l \in ListId |-> <<>>],
          in_list |-> [t \in Thread |-> NULL], ok |-> TRUE]
  /\ current = root
  /\ heap = {}
  /\ handle = [t \in Thread |-> IF t = root THEN root ELSE NULL]
  /\ code = [t \in Thread |-> 0]
  /\ pc = [t \in Thread |-> "user"]
  /\ status = "running"

(* Slip: root is not counted. *)
ThreadsInitUncounted == ThreadsStart /\ num_thrs = 0

(* thread_init: the caller's context becomes the root thread. *)
ThreadsInit == ThreadsStart /\ num_thrs = 1

(* The running thread is at the given point of its program. *)
At(label) == status = "running" /\ q.ok /\ pc[current] = label

(* A handle thread_new or thread_self has returned, valid or not. *)
Known(t) == t \in Thread /\ (t = root \/ t \in heap \/ handle[t] = FREED)

(* thread_new(...) succeeds with the block at address t. *)
thread_new(t) ==
  /\ At("user")
  /\ t # root /\ t \notin heap \ Dead
  /\ q' = Put(Release(q), t, ready_list)
  /\ heap' = (heap \ Dead) \cup {t}
  /\ handle' = [handleAfterRelease EXCEPT ![t] = t]
  /\ code' = [code EXCEPT ![t] = 0]
  /\ pc' = [pc EXCEPT ![t] = "user"]
  /\ num_thrs' = num_thrs + 1
  /\ UNCHANGED <<current, status>>

(* thread_new(...) returns NULL: malloc failed, after release(). *)
thread_new_fails ==
  /\ At("user")
  /\ q' = Release(q)
  /\ heap' = heap \ Dead
  /\ handle' = handleAfterRelease
  /\ UNCHANGED <<current, num_thrs, code, pc, status>>

(* Slip: the exiting thread is put on no list to be freed from. *)
BuriedNowhere(r) == r

(* The lists r with the exiting thread on free_list, unless it is root. *)
Buried(r) == IF current = root THEN r ELSE Put(r, current, free_list)

(* Slip: one joiner is woken, not all. *)
DepartedWakesOne(r) ==
  IF Buried(r).list[current] = <<>> THEN Buried(r)
                                    ELSE Move(Buried(r), current, ready_list)

(* ... and the threads that have joined it ready. *)
Departed(r) == MoveAll(Buried(r), current, ready_list)

(* Slips: the thread that waits for all is woken one exit too late, or at  *)
(* any exit.                                                               *)
ExitListsLate(r) ==
  LET joined == Departed(r)
  IN IF joined.list[join_list] # <<>> /\ num_thrs = 1
     THEN Move(Asserting(joined, joined.list[ready_list] = <<>>),
               join_list, ready_list)
     ELSE joined

ExitListsEarly(r) ==
  LET joined == Departed(r)
  IN IF joined.list[join_list] # <<>>
     THEN Move(joined, join_list, ready_list)
     ELSE joined

(* The lists when thread_exit of the running thread calls run() or halt(). *)
ExitLists(r) ==
  LET joined == Departed(r)
  IN IF joined.list[join_list] # <<>> /\ num_thrs = 2
     THEN Move(Asserting(joined, joined.list[ready_list] = <<>>),
               join_list, ready_list)
     ELSE joined

thread_exit(c) ==
  /\ At("user")
  /\ heap' = heap \ Dead
  /\ handle' = [handleAfterRelease EXCEPT ![current] = NULL]
  /\ code' = [t \in Thread |->
                IF t \in Range(q.list[current]) THEN c ELSE code[t]]
  /\ num_thrs' = num_thrs - 1
  /\ IF num_thrs' = 0
     THEN status' = "halt" /\ q' = ExitLists(Release(q)) /\ UNCHANGED current
     ELSE run(ExitLists(Release(q)))
  /\ UNCHANGED pc

(* thread_join(thr), thr not NULL; it returns -1 at once for a dead thread.*)
(* A caller never joins itself (ASSERT(current && thr != current)).        *)
thread_join(thr) ==
  /\ At("user")
  /\ Known(thr) /\ thr # current
  /\ IF handle[thr] = thr THEN Block(thr, "join") ELSE UNCHANGED threadVars

(* The exit code of the joined thread is returned from current->code. *)
thread_join_return ==
  /\ At("join")
  /\ pc' = [pc EXCEPT ![current] = "user"]
  /\ UNCHANGED <<q, current, num_thrs, heap, handle, code, status>>

(* thread_join(NULL): wait until no other thread is left.  One caller at a *)
(* time (ASSERT(list_empty(&join_list))).                                  *)
thread_join_all ==
  /\ At("user")
  /\ q.list[join_list] = <<>>
  /\ IF num_thrs > 1 THEN Block(join_list, "join_all") ELSE UNCHANGED threadVars

thread_join_all_return ==
  /\ At("join_all")
  /\ pc' = [pc EXCEPT ![current] = "user"]
  /\ UNCHANGED <<q, current, num_thrs, heap, handle, code, status>>

(* Slip: run() without the put. *)
thread_pause_no_put ==
  /\ At("user")
  /\ run(q)
  /\ UNCHANGED <<num_thrs, heap, handle, code, pc>>

thread_pause ==
  /\ At("user")
  /\ Block(ready_list, "user")

ThreadsNext ==
  \/ \E t \in Thread : thread_new(t)
  \/ thread_new_fails
  \/ \E c \in Code : thread_exit(c)
  \/ \E thr \in Thread : thread_join(thr)
  \/ thread_join_return
  \/ thread_join_all
  \/ thread_join_all_return
  \/ thread_pause

ThreadsSpec == ThreadsInit /\ [][ThreadsNext]_threadVars

(* A thread that keeps the processor in its own code hands it on in the    *)
(* end: it exits, blocks or pauses.  The clients in the repository do:     *)
(* their bodies are finite loops that end in a return or in a blocking     *)
(* call.  A call that has been resumed goes on to return.                  *)
Yield ==
  \/ \E c \in Code : thread_exit(c)
  \/ \E thr \in Thread : thread_join(thr) /\ current' # current
  \/ thread_join_all /\ current' # current
  \/ thread_pause

ThreadsFairness ==
  /\ WF_threadVars(Yield)
  /\ WF_threadVars(thread_join_return)
  /\ WF_threadVars(thread_join_all_return)

ThreadsFairSpec == ThreadsSpec /\ ThreadsFairness

---------------------------------------------------------------------------
(* Properties. *)

(* The lists and the in_list fields describe the same thing: a thread is   *)
(* on at most one list, once, and in_list says which.                      *)
QueueOK(r) ==
  \A l \in ListId :
    /\ IsInjective(r.list[l])
    /\ \A t \in Thread : t \in Range(r.list[l]) <=> r.in_list[t] = l

ThreadsTypeOK ==
  /\ q \in [list : [ListId -> Seq(Thread)],
             in_list : [Thread -> ListId \cup {NULL}], ok : BOOLEAN]
  /\ current \in Thread
  /\ num_thrs \in Nat
  /\ heap \subseteq Thread \ {root}
  /\ handle \in [Thread -> Thread \cup {NULL, FREED}]
  /\ code \in [Thread -> Int]
  /\ pc \in [Thread -> Label]
  /\ status \in {"running", "halt", "stuck"}

(* No ASSERT inside put, get or thread_exit fails, whatever order the      *)
(* threads call the API in, and the lists stay consistent with in_list.    *)
AssertsHold == q.ok /\ QueueOK(q)

(* No thread that can still run, and no thread whose stack the processor   *)
(* is on, has had its memory given back: release() runs before the exiting *)
(* thread is put on free_list.                                             *)
NoUseAfterFree ==
  /\ \A t \in Thread : q.in_list[t] # NULL => t \in heap \cup {root}
  /\ status # "stuck" => current \in heap \cup {root}
  /\ status = "running" => current \in Live

(* Every block of memory handed out belongs to a live thread or waits on   *)
(* free_list, where at most one exited thread waits at any time.           *)
NoLeak ==
  /\ heap = (Live \ {root}) \cup Dead
  /\ Dead \cap Live = {}
  /\ Len(q.list[free_list]) <= 1

(* num_thrs counts the threads that have not exited; the processor halts   *)
(* only when there are none.                                               *)
NumThrsCountsLive ==
  /\ num_thrs = Cardinality(Live)
  /\ status = "halt" => Live = {}

(* Nobody waits for a thread that has already exited, where no one would   *)
(* ever wake it: a thread on a join list waits for a live thread.          *)
NoStrandedJoiner ==
  \A t, u \in Thread : q.in_list[t] = u => {t, u} \subseteq Live

(* A live thread is running, ready or waiting: none is lost.               *)
NoLostThread ==
  \A t \in Live :
    IF q.in_list[t] = NULL THEN status = "running" /\ current = t
                           ELSE q.in_list[t] # free_list

(* run() finds ready_list empty only when every live thread waits for      *)
(* another live thread to exit, or for all of them to, or on the list of   *)
(* another object: the scheduler never strands a thread that could go on.  *)
StuckOnlyInDeadlock ==
  status = "stuck" =>
    \A t \in Live :
      \/ q.in_list[t] \in (Live \ {t}) \cup WaitList
      \/ q.in_list[t] = join_list /\ Live # {t}

(* thread_join(NULL) returns only to the last thread alive.                *)
JoinAllReturnsAlone ==
  [][\A t \in Thread :
       pc[t] = "join_all" /\ pc'[t] = "user" /\ t \in Live => Live' = {t}]_threadVars

(* Every ready thread gets the processor: ready_list is served in order.   *)
ReadyRuns ==
  \A t \in Thread : q.in_list[t] = ready_list ~> (status = "running" /\ current = t)

(* A waiting thread is on the join list of the thread it joins, or on the  *)
(* list of those that wait for all.                                        *)
Joins == [t \in Thread |->
            CASE q.in_list[t] \in Thread   -> q.in_list[t]
              [] q.in_list[t] = join_list  -> t
              [] OTHER                     -> NULL]

Abstract == INSTANCE AbstractThreads WITH live <- Live, joins <- Joins, result <- code

(* The scheduler keeps the promise of AbstractThreads: a join of thread.c  *)
(* blocks, wakes and returns the exit code as that specification says.     *)
KeepsPromise == Abstract!Spec
============================================================================
