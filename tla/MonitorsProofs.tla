-------------------------- MODULE MonitorsProofs ---------------------------
(***************************************************************************)
(* Proofs about Monitors: mutual exclusion, waiters that live in frames    *)
(* that are still there, and signals that are not lost, for any number of  *)
(* threads, locks and conditions.                                          *)
(***************************************************************************)
EXTENDS Monitors, SemaphoresProofs

---------------------------------------------------------------------------
(* The inductive invariant.  Mutual exclusion needs that a thread about to *)
(* release a lock holds it, also inside cond_wait; that a signal reaches   *)
(* the thread it is meant for needs that nobody else ever waits on the     *)
(* semaphore in a frame of cond_wait.                                      *)

MonitorLabel == {"user", "join", "join_all", "lock_acquire",
                 "cond_release", "cond_down", "cond_relock", "cond_broadcast"}

(* Which call a thread is in, on what, and which semaphore it waits on.    *)
Calls ==
  \A t \in Thread :
    /\ pc[t] \in MonitorLabel
    /\ pc[t] \in {"cond_release", "cond_down", "cond_relock", "cond_broadcast"} =>
         t \in Live /\ call_cond[t] \in Cond
    /\ waits_on[t] # NULL =>
         \/ pc[t] = "lock_acquire" /\ waits_on[t] \in Lock
         \/ pc[t] = "cond_down" /\ waits_on[t] = waiter[t]
         \/ pc[t] = "cond_relock" /\ waits_on[t] = lock_of[call_cond[t]]
    /\ pc[t] = "lock_acquire" => waits_on[t] # NULL

(* Who holds a lock: a live thread, never one that waits for it.           *)
Holding ==
  /\ \A l \in Lock : holder[l] # NULL => holder[l] \in Live
  /\ \A t \in Thread :
       /\ pc[t] = "cond_release" => holder[lock_of[call_cond[t]]] = t
       /\ pc[t] \in {"cond_down", "cond_relock"} => holder[lock_of[call_cond[t]]] # t
       /\ waits_on[t] \in Lock => holder[waits_on[t]] # t

(* The invariant without the part of the semaphores. *)
MonitorCore ==
  /\ holder \in [Lock -> Thread \cup {NULL}]
  /\ cond_waiters \in [Cond -> Seq(Thread)]
  /\ call_cond \in [Thread -> Cond \cup {NULL}]
  /\ inside \in [Lock -> SUBSET Thread]
  /\ Calls
  /\ Holding
  /\ MutualExclusion
  /\ WaiterFramesLive
  /\ NoLostSignal

MonitorInv == SemInv /\ MonitorCore

(* Locks and waiters are semaphores, and no name stands for two things. *)
LEMMA MonitorNames ==
  /\ Lock \subseteq Sem /\ NULL \notin Cond /\ NULL \notin Thread
  /\ \A c \in Cond : lock_of[c] \in Lock
  /\ \A t \in Thread : waiter[t] \in Sem /\ waiter[t] \notin Lock
  /\ \A t, u \in Thread : waiter[t] = waiter[u] => t = u
  /\ \A l \in Lock : Initial[l] = 1
BY Names, MonitorsAssumption

(* What the invariant says about the thread that runs. *)
LEMMA MonitorState ==
  ASSUME MonitorInv
  PROVE  /\ ThreadsInv /\ SemInv /\ Waiting
         /\ value \in [Sem -> 0 .. MaxValue] /\ waits_on \in [Thread -> Sem \cup {NULL}]
         /\ pc \in [Thread -> Label] /\ current \in Thread /\ Live \subseteq Thread
         /\ q.in_list \in [Thread -> ListId \cup {NULL}]
         /\ status = "running" => current \in Live /\ q.in_list[current] = NULL
         /\ holder \in [Lock -> Thread \cup {NULL}]
         /\ cond_waiters \in [Cond -> Seq(Thread)]
         /\ call_cond \in [Thread -> Cond \cup {NULL}]
         /\ inside \in [Lock -> SUBSET Thread]
         /\ Calls /\ Holding /\ MutualExclusion /\ WaiterFramesLive /\ NoLostSignal
BY LiveFinite, SoundLists DEF MonitorInv, MonitorCore, SemInv, ThreadsInv, Scheduled, FieldsOK

(* The initial state satisfies the invariant. *)
LEMMA MonitorInitInv == MonitorInit => MonitorInv
<1> SUFFICES ASSUME MonitorInit PROVE MonitorInv
  OBVIOUS
<1> USE Names, SemNames, MonitorNames
<1>1. /\ SemInv /\ value = Initial /\ waits_on = [t \in Thread |-> NULL]
      /\ pc = [t \in Thread |-> "user"]
      /\ holder = [l \in Lock |-> NULL] /\ cond_waiters = [c \in Cond |-> <<>>]
      /\ call_cond = [t \in Thread |-> NULL] /\ inside = [l \in Lock |-> {}]
  BY SemInitInv DEF MonitorInit, SemInit, ThreadsInit, ThreadsStart
<1>2. cond_waiters \in [Cond -> Seq(Thread)]
  BY <1>1, EmptySeq
<1>3. Calls /\ Holding /\ MutualExclusion
  BY <1>1 DEF Calls, MonitorLabel, Holding, MutualExclusion
<1>4. NoLostSignal
  BY <1>1 DEF NoLostSignal, Live
<1>5. WaiterFramesLive
  <2>1. IsInjective(<<>>) /\ Range(<<>>) = {}
    BY DEF IsInjective, Range
  <2>2. \A c \in Cond : cond_waiters[c] = <<>>
    BY <1>1
  <2> QED BY <2>1, <2>2 DEF WaiterFramesLive
<1> QED BY <1>1, <1>2, <1>3, <1>4, <1>5 DEF MonitorInv, MonitorCore
---------------------------------------------------------------------------
(* One lemma per primitive that the calls are made of. *)

(* lock_acquire, or the end of cond_wait: wait for the lock or take it. *)
LEMMA AcquireInv ==
  ASSUME MonitorInv, status = "running", NEW l \in Lock, holder[l] # current,
         NEW here, Acquire(l, here, "user"), waits_on[current] \in {NULL, l},
         \/ /\ here = "lock_acquire" /\ pc[current] \in {"user", "lock_acquire"}
            /\ call_cond' = call_cond
         \/ /\ here = "cond_relock" /\ pc[current] = "cond_relock"
            /\ l = lock_of[call_cond[current]]
            /\ call_cond' = IF value[l] = 0 THEN call_cond
                                            ELSE [call_cond EXCEPT ![current] = NULL],
         cond_waiters' = cond_waiters
  PROVE  MonitorInv'
<1> USE Names, SemNames, MonitorNames
<1>1. /\ SemInv /\ value \in [Sem -> 0 .. MaxValue]
      /\ waits_on \in [Thread -> Sem \cup {NULL}]
      /\ pc \in [Thread -> Label] /\ current \in Thread /\ Live \subseteq Thread
      /\ q.in_list \in [Thread -> ListId \cup {NULL}]
      /\ current \in Live
      /\ holder \in [Lock -> Thread \cup {NULL}]
      /\ cond_waiters \in [Cond -> Seq(Thread)]
      /\ call_cond \in [Thread -> Cond \cup {NULL}]
      /\ inside \in [Lock -> SUBSET Thread]
      /\ Calls /\ Holding /\ MutualExclusion /\ WaiterFramesLive /\ NoLostSignal
  BY MonitorState
<1>2. /\ Down(l, here, "user")
      /\ IF value[l] = 0
         THEN UNCHANGED <<holder, inside>>
         ELSE /\ holder' = [holder EXCEPT ![l] = current]
              /\ inside' = [inside EXCEPT ![l] = @ \cup {current}]
  BY DEF Acquire
<1>3. SemInv'
  <2>1. here \in Label \ {"user", "join", "join_all"} /\ "user" \in Label
    BY DEF Label
  <2> QED BY <1>1, <1>2, <2>1, DownInv
<1>4. CASE value[l] = 0
  <2>1. /\ Live' = Live /\ value' = value
        /\ waits_on' = [waits_on EXCEPT ![current] = l]
        /\ pc' = [pc EXCEPT ![current] = here]
        /\ q'.in_list[current] = l
        /\ \A t \in Thread \ {current} :
             \/ q'.in_list[t] = q.in_list[t]
             \/ q.in_list[t] = ready_list /\ q'.in_list[t] = NULL
        /\ holder' = holder /\ inside' = inside /\ call_cond' = call_cond
    BY <1>1, <1>2, <1>4, DownFrame
  <2>2. Calls'
    BY <1>1, <2>1 DEF Calls, MonitorLabel
  <2>3. Holding'
    BY <1>1, <2>1 DEF Holding
  <2>4. MutualExclusion'
    BY <1>1, <2>1 DEF MutualExclusion
  <2>5. WaiterFramesLive'
    BY <1>1, <2>1 DEF WaiterFramesLive
  <2>6. NoLostSignal'
    BY <1>1, <2>1 DEF NoLostSignal
  <2> QED BY <1>1, <1>3, <2>1, <2>2, <2>3, <2>4, <2>5, <2>6 DEF MonitorInv, MonitorCore
<1>5. CASE value[l] # 0
  <2>1. /\ Live' = Live /\ value' = [value EXCEPT ![l] = @ - 1]
        /\ waits_on' = [waits_on EXCEPT ![current] = NULL]
        /\ pc' = [pc EXCEPT ![current] = "user"]
        /\ UNCHANGED <<q, current, status>>
        /\ holder' = [holder EXCEPT ![l] = current]
        /\ inside' = [inside EXCEPT ![l] = @ \cup {current}]
        /\ call_cond' = call_cond \/ call_cond' = [call_cond EXCEPT ![current] = NULL]
    BY <1>1, <1>2, <1>5, DownFrame
  <2>2. holder[l] = NULL /\ value[l] = 1 /\ inside[l] = {}
    BY <1>1, <1>5 DEF MutualExclusion
  <2>3. Calls'
    BY <1>1, <2>1 DEF Calls, MonitorLabel
  <2>4. Holding'
    BY <1>1, <2>1, <2>2 DEF Holding
  <2>5. MutualExclusion'
    <3> SUFFICES ASSUME NEW k \in Lock
                 PROVE  /\ inside'[k] = IF holder'[k] = NULL THEN {} ELSE {holder'[k]}
                        /\ value'[k] = IF holder'[k] = NULL THEN 1 ELSE 0
      BY DEF MutualExclusion
    <3>1. CASE k = l
      BY <1>1, <2>1, <2>2, <3>1
    <3>2. CASE k # l
      BY <1>1, <2>1, <3>2 DEF MutualExclusion
    <3> QED BY <3>1, <3>2
  <2>6. WaiterFramesLive'
    BY <1>1, <2>1 DEF WaiterFramesLive
  <2>7. NoLostSignal'
    BY <1>1, <2>1 DEF NoLostSignal
  <2> QED BY <1>1, <1>3, <2>1, <2>3, <2>4, <2>5, <2>6, <2>7 DEF MonitorInv, MonitorCore
<1> QED BY <1>4, <1>5

(* Releasing a lock the running thread holds. *)
LEMMA UnlockInv ==
  ASSUME MonitorInv, status = "running", NEW l \in Lock, holder[l] = current,
         NEW label, Unlock(l, label),
         \/ label = "user" /\ pc[current] = "user"
         \/ label = "cond_down" /\ pc[current] = "cond_release"
                                /\ l = lock_of[call_cond[current]],
         UNCHANGED <<cond_waiters, call_cond>>
  PROVE  MonitorInv'
<1> USE Names, SemNames, MonitorNames
<1>1. /\ SemInv /\ Waiting /\ value \in [Sem -> 0 .. MaxValue]
      /\ waits_on \in [Thread -> Sem \cup {NULL}]
      /\ pc \in [Thread -> Label] /\ current \in Thread /\ Live \subseteq Thread
      /\ q.in_list \in [Thread -> ListId \cup {NULL}]
      /\ current \in Live
      /\ holder \in [Lock -> Thread \cup {NULL}]
      /\ cond_waiters \in [Cond -> Seq(Thread)]
      /\ call_cond \in [Thread -> Cond \cup {NULL}]
      /\ inside \in [Lock -> SUBSET Thread]
      /\ Calls /\ Holding /\ MutualExclusion /\ WaiterFramesLive /\ NoLostSignal
  BY MonitorState
<1>2. /\ Up(l, label)
      /\ holder' = [holder EXCEPT ![l] = NULL]
      /\ inside' = [inside EXCEPT ![l] = @ \ {current}]
  BY DEF Unlock
<1>3. SemInv'
  <2>1. waits_on[current] = NULL
    BY <1>1 DEF Calls
  <2>2. label \in Label
    BY DEF Label
  <2> QED BY <1>1, <1>2, <2>1, <2>2, UpInv
<1>4. /\ Live' = Live /\ value' = [value EXCEPT ![l] = @ + 1]
      /\ pc' = [pc EXCEPT ![current] = label]
      /\ UNCHANGED <<current, status, waits_on, cond_waiters, call_cond>>
      /\ \/ q' = q
         \/ \E w \in Thread : /\ q.in_list[w] = l
                              /\ q'.in_list = [q.in_list EXCEPT ![w] = ready_list]
  BY <1>1, <1>2, UpFrame
<1>5. Calls'
  BY <1>1, <1>4 DEF Calls, MonitorLabel
<1>6. Holding'
  BY <1>1, <1>2, <1>4 DEF Holding, Calls
<1>7. MutualExclusion'
  <2> SUFFICES ASSUME NEW k \in Lock
               PROVE  /\ inside'[k] = IF holder'[k] = NULL THEN {} ELSE {holder'[k]}
                      /\ value'[k] = IF holder'[k] = NULL THEN 1 ELSE 0
    BY DEF MutualExclusion
  <2>1. inside[l] = {current} /\ value[l] = 0
    BY <1>1 DEF MutualExclusion
  <2>2. CASE k = l
    BY <1>1, <1>2, <1>4, <2>1, <2>2
  <2>3. CASE k # l
    BY <1>1, <1>2, <1>4, <2>3 DEF MutualExclusion
  <2> QED BY <2>2, <2>3
<1>8. WaiterFramesLive'
  BY <1>1, <1>4 DEF WaiterFramesLive
<1>9. NoLostSignal'
  <2> SUFFICES ASSUME NEW t \in Live, pc'[t] \in {"cond_release", "cond_down"}
               PROVE  IF t \in Range(cond_waiters[call_cond[t]])
                      THEN value'[waiter[t]] = 0 /\ q'.in_list[t] \in {waiter[t], NULL}
                      ELSE value'[waiter[t]] = 1 /\ q'.in_list[t] # waiter[t]
    BY <1>4 DEF NoLostSignal
  <2>1. t \in Thread /\ pc[t] \in {"cond_release", "cond_down"} /\ waiter[t] # l
    BY <1>1, <1>4
  <2>2. value'[waiter[t]] = value[waiter[t]]
    BY <1>1, <1>4, <2>1
  <2>3. \/ q'.in_list[t] = q.in_list[t]
        \/ q.in_list[t] = l /\ q'.in_list[t] = ready_list
    <3>1. CASE q' = q
      BY <3>1
    <3>2. CASE \E w \in Thread : /\ q.in_list[w] = l
                                 /\ q'.in_list = [q.in_list EXCEPT ![w] = ready_list]
      BY <1>1, <2>1, <3>2
    <3> QED BY <1>4, <3>1, <3>2
  <2>4. q.in_list[t] \in {waiter[t], NULL} => q'.in_list[t] = q.in_list[t]
    <3>1. q.in_list[t] \in {waiter[t], NULL} => q.in_list[t] # l
      BY <2>1
    <3> QED BY ONLY <2>3, <3>1
  <2>5. q.in_list[t] # waiter[t] => q'.in_list[t] # waiter[t]
    <3>1. waiter[t] # ready_list
      BY <2>1
    <3> QED BY ONLY <2>3, <3>1
  <2> QED BY <1>1, <2>1, <2>2, <2>4, <2>5 DEF NoLostSignal
<1> QED BY <1>1, <1>2, <1>3, <1>4, <1>5, <1>6, <1>7, <1>8, <1>9 DEF MonitorInv, MonitorCore

(* A thread that waits on the semaphore in a frame is the frame's own. *)
LEMMA OwnWaiter ==
  ASSUME MonitorInv, NEW t \in Thread, NEW u \in Thread,
         q.in_list[u] = waiter[t] \/ waits_on[u] = waiter[t]
  PROVE  u = t /\ pc[t] = "cond_down"
<1> USE MonitorNames, SemNames
<1>1. Waiting /\ Calls /\ waits_on \in [Thread -> Sem \cup {NULL}]
  BY MonitorState
<1>2. waits_on[u] = waiter[t] /\ waits_on[u] # NULL
  BY <1>1 DEF Waiting
<1>3. \/ pc[u] = "cond_relock" /\ call_cond[u] \in Cond /\ waits_on[u] = lock_of[call_cond[u]]
      \/ waits_on[u] \in Lock
      \/ pc[u] = "cond_down" /\ waits_on[u] = waiter[u]
  BY <1>1, <1>2 DEF Calls
<1> QED BY <1>2, <1>3

(* Signalling the thread at the front of a condition's list. *)
LEMMA SignalInv ==
  ASSUME MonitorInv, status = "running", NEW c \in Cond,
         NEW label \in {"user", "cond_broadcast"}, pc[current] = label, Signal(c, label)
  PROVE  MonitorInv'
<1> USE Names, SemNames, MonitorNames
<1> DEFINE h == Head(cond_waiters[c])
<1>1. /\ SemInv /\ Waiting /\ value \in [Sem -> 0 .. MaxValue]
      /\ waits_on \in [Thread -> Sem \cup {NULL}]
      /\ pc \in [Thread -> Label] /\ current \in Thread /\ Live \subseteq Thread
      /\ q.in_list \in [Thread -> ListId \cup {NULL}]
      /\ holder \in [Lock -> Thread \cup {NULL}]
      /\ cond_waiters \in [Cond -> Seq(Thread)]
      /\ call_cond \in [Thread -> Cond \cup {NULL}]
      /\ inside \in [Lock -> SUBSET Thread]
      /\ Calls /\ Holding /\ MutualExclusion /\ WaiterFramesLive /\ NoLostSignal
  BY MonitorState
<1>2. /\ cond_waiters[c] # <<>>
      /\ cond_waiters' = [cond_waiters EXCEPT ![c] = Tail(@)]
      /\ Up(waiter[h], label)
      /\ UNCHANGED <<holder, inside, call_cond>>
  BY DEF Signal
<1>3. /\ h \in Thread /\ h \in Range(cond_waiters[c])
      /\ Range(Tail(cond_waiters[c])) = Range(cond_waiters[c]) \ {h}
      /\ IsInjective(Tail(cond_waiters[c])) /\ Tail(cond_waiters[c]) \in Seq(Thread)
  BY <1>1, <1>2, TailRange, HeadTailProperties DEF WaiterFramesLive
<1> HIDE DEF h
<1>4. /\ h \in Live /\ call_cond[h] = c /\ pc[h] \in {"cond_release", "cond_down"}
      /\ value[waiter[h]] = 0 /\ q.in_list[h] \in {waiter[h], NULL}
  BY <1>1, <1>3 DEF WaiterFramesLive, NoLostSignal
<1>5. SemInv'
  <2>1. waits_on[current] = NULL
    BY <1>1 DEF Calls
  <2>2. label \in Label
    BY DEF Label
  <2>3. waiter[h] \in Sem
    BY <1>3
  <2> QED BY <1>1, <1>2, <2>1, <2>2, <2>3, UpInv
<1>6. /\ Live' = Live /\ value' = [value EXCEPT ![waiter[h]] = @ + 1]
      /\ pc' = pc
      /\ UNCHANGED <<current, status, waits_on>>
      /\ \A t \in Thread \ {h} : q'.in_list[t] = q.in_list[t]
      /\ q'.in_list[h] # waiter[h]
  <2>1. waiter[h] \in Sem
    BY <1>3
  <2>2. /\ Live' = Live /\ value' = [value EXCEPT ![waiter[h]] = @ + 1]
        /\ pc' = [pc EXCEPT ![current] = label]
        /\ UNCHANGED <<current, status, waits_on>>
        /\ \/ (\A t \in Thread : q.in_list[t] # waiter[h]) /\ q' = q
           \/ \E w \in Thread : /\ q.in_list[w] = waiter[h]
                                /\ q'.in_list = [q.in_list EXCEPT ![w] = ready_list]
    BY <1>1, <1>2, <2>1, UpFrame
  <2>3. \A w \in Thread : q.in_list[w] = waiter[h] => w = h
    BY <1>3, OwnWaiter
  <2>4. pc' = pc
    BY <1>1, <2>2
  <2>5. /\ \A t \in Thread \ {h} : q'.in_list[t] = q.in_list[t]
        /\ q'.in_list[h] # waiter[h]
    <3>1. CASE (\A t \in Thread : q.in_list[t] # waiter[h]) /\ q' = q
      BY <1>3, <3>1
    <3>2. CASE q'.in_list = [q.in_list EXCEPT ![h] = ready_list]
      BY <1>1, <1>3, <2>1, <3>2
    <3> QED BY <2>2, <2>3, <3>1, <3>2
  <2> QED BY <2>2, <2>4, <2>5
<1>7. Calls' /\ Holding'
  BY <1>1, <1>2, <1>6 DEF Calls, Holding
<1>8. MutualExclusion'
  <2>1. \A l \in Lock : value'[l] = value[l]
    BY <1>1, <1>3, <1>6
  <2> QED BY <1>1, <1>2, <2>1 DEF MutualExclusion
<1>9. /\ Range(cond_waiters'[c]) = Range(cond_waiters[c]) \ {h}
      /\ IsInjective(cond_waiters'[c])
      /\ \A d \in Cond \ {c} : cond_waiters'[d] = cond_waiters[d]
      /\ cond_waiters' \in [Cond -> Seq(Thread)]
  BY <1>1, <1>2, <1>3
<1>10. WaiterFramesLive'
  BY <1>1, <1>2, <1>6, <1>9 DEF WaiterFramesLive
<1>11. NoLostSignal'
  <2> SUFFICES ASSUME NEW t \in Live, pc[t] \in {"cond_release", "cond_down"}
               PROVE  IF t \in Range(cond_waiters'[call_cond[t]])
                      THEN value'[waiter[t]] = 0 /\ q'.in_list[t] \in {waiter[t], NULL}
                      ELSE value'[waiter[t]] = 1 /\ q'.in_list[t] # waiter[t]
    BY <1>2, <1>6 DEF NoLostSignal
  <2>1. CASE t = h
    BY <1>1, <1>3, <1>4, <1>6, <1>9, <2>1
  <2>2. CASE t # h
    <3>1. t \in Thread /\ call_cond[t] \in Cond
      BY <1>1 DEF Calls
    <3>2. t \in Range(cond_waiters'[call_cond[t]]) <=> t \in Range(cond_waiters[call_cond[t]])
      BY <1>9, <2>2, <3>1
    <3>3. value'[waiter[t]] = value[waiter[t]] /\ q'.in_list[t] = q.in_list[t]
      BY <1>1, <1>3, <1>6, <2>2, <3>1
    <3> QED BY <1>1, <3>2, <3>3 DEF NoLostSignal
  <2> QED BY <2>1, <2>2
<1> QED BY <1>1, <1>2, <1>5, <1>7, <1>8, <1>9, <1>10, <1>11 DEF MonitorInv, MonitorCore

---------------------------------------------------------------------------
(* One lemma per remaining step of a call. *)

(* lock_try_acquire: all at once or not at all. *)
LEMMA TryAcquireInv ==
  ASSUME MonitorInv, NEW l \in Lock, lock_try_acquire(l)
  PROVE  MonitorInv'
<1> USE Names, SemNames, MonitorNames
<1>1. /\ SemInv /\ value \in [Sem -> 0 .. MaxValue]
      /\ current \in Thread /\ Live \subseteq Thread
      /\ holder \in [Lock -> Thread \cup {NULL}]
      /\ inside \in [Lock -> SUBSET Thread]
      /\ status = "running" => current \in Live
      /\ Calls /\ Holding /\ MutualExclusion /\ WaiterFramesLive /\ NoLostSignal
      /\ MonitorCore
  BY MonitorState DEF MonitorInv
<1>2. /\ status = "running" /\ pc[current] = "user" /\ holder[l] # current
      /\ sem_try_down(l)
      /\ UNCHANGED <<q, current, num_thrs, heap, handle, code, pc, status>>
      /\ UNCHANGED <<waits_on, cond_waiters, call_cond>>
      /\ IF value[l] > 0
         THEN /\ value' = [value EXCEPT ![l] = @ - 1]
              /\ holder' = [holder EXCEPT ![l] = current]
              /\ inside' = [inside EXCEPT ![l] = @ \cup {current}]
         ELSE UNCHANGED <<value, holder, inside>>
  BY DEF lock_try_acquire, sem_try_down, At, Holds, threadVars
<1>3. SemInv' /\ Live' = Live
  BY <1>1, <1>2, TryDownInv DEF Live
<1>4. CASE value[l] > 0
  <2>1. holder[l] = NULL /\ value[l] = 1 /\ inside[l] = {}
    BY <1>1, <1>4 DEF MutualExclusion
  <2>2. waits_on[current] = NULL
    BY <1>1, <1>2 DEF Calls
  <2>3. /\ value' = [value EXCEPT ![l] = @ - 1]
        /\ holder' = [holder EXCEPT ![l] = current]
        /\ inside' = [inside EXCEPT ![l] = @ \cup {current}]
    BY <1>2, <1>4
  <2>4. Calls'
    BY <1>2, <1>3, <1>1 DEF Calls
  <2>5. Holding'
    BY <1>1, <1>2, <1>3, <2>1, <2>2, <2>3 DEF Holding, Calls
  <2>6. MutualExclusion'
    <3> SUFFICES ASSUME NEW k \in Lock
                 PROVE  /\ inside'[k] = IF holder'[k] = NULL THEN {} ELSE {holder'[k]}
                        /\ value'[k] = IF holder'[k] = NULL THEN 1 ELSE 0
      BY DEF MutualExclusion
    <3>1. CASE k = l
      BY <1>1, <2>1, <2>3, <3>1
    <3>2. CASE k # l
      BY <1>1, <2>3, <3>2 DEF MutualExclusion
    <3> QED BY <3>1, <3>2
  <2>7. WaiterFramesLive' /\ NoLostSignal'
    <3>1. \A t \in Thread : value'[waiter[t]] = value[waiter[t]]
      BY <1>1, <2>3
    <3> QED BY <1>1, <1>2, <1>3, <3>1 DEF WaiterFramesLive, NoLostSignal
  <2> QED BY <1>1, <1>2, <1>3, <2>3, <2>4, <2>5, <2>6, <2>7 DEF MonitorInv, MonitorCore
<1>5. CASE ~(value[l] > 0)
  <2>1. UNCHANGED <<value, holder, inside>>
    BY <1>2, <1>5
  <2> QED BY <1>1, <1>2, <1>3, <2>1
        DEF MonitorInv, MonitorCore, Calls, Holding, MutualExclusion, WaiterFramesLive, NoLostSignal
<1> QED BY <1>4, <1>5

(* cond_wait up to the release: a fresh semaphore on the condition's list. *)
LEMMA CondWaitInv ==
  ASSUME MonitorInv, NEW c \in Cond, cond_wait(c)
  PROVE  MonitorInv'
<1> USE Names, SemNames, MonitorNames
<1>1. /\ ThreadsInv /\ SemInv /\ Waiting /\ value \in [Sem -> 0 .. MaxValue]
      /\ waits_on \in [Thread -> Sem \cup {NULL}] /\ UnitsCovered
      /\ pc \in [Thread -> Label] /\ current \in Thread /\ Live \subseteq Thread
      /\ status = "running" => current \in Live /\ q.in_list[current] = NULL
      /\ cond_waiters \in [Cond -> Seq(Thread)]
      /\ call_cond \in [Thread -> Cond \cup {NULL}]
      /\ Calls /\ Holding /\ MutualExclusion /\ WaiterFramesLive /\ NoLostSignal
      /\ MonitorCore
  BY MonitorState DEF MonitorInv, SemInv
<1>2. /\ status = "running" /\ pc[current] = "user" /\ holder[lock_of[c]] = current
      /\ q' = [q EXCEPT !.list[waiter[current]] = <<>>]
      /\ value' = [value EXCEPT ![waiter[current]] = 0]
      /\ cond_waiters' = [cond_waiters EXCEPT ![c] = Append(@, current)]
      /\ call_cond' = [call_cond EXCEPT ![current] = c]
      /\ pc' = [pc EXCEPT ![current] = "cond_release"]
      /\ UNCHANGED <<current, num_thrs, heap, handle, code, status>>
      /\ UNCHANGED <<waits_on, holder, inside>>
  BY DEF cond_wait, At, Holds
<1>3. \A t \in Thread : q.in_list[t] # waiter[current] /\ waits_on[t] # waiter[current]
  BY <1>1, <1>2, OwnWaiter
<1>4. q' = q
  <2>1. Sound(q) /\ waiter[current] \in ListId
    BY <1>1 DEF ThreadsInv
  <2>2. q.list[waiter[current]] = <<>>
    BY <1>3, <2>1, EmptyList
  <2>3. /\ q = [list |-> q.list, in_list |-> q.in_list, ok |-> q.ok]
        /\ q.list \in [ListId -> Seq(Thread)]
    BY <2>1 DEF Sound, QType
  <2>4. [q.list EXCEPT ![waiter[current]] = <<>>] = q.list
    BY <2>1, <2>2, <2>3
  <2> QED BY <1>2, <2>3, <2>4
<1>5. SemInv' /\ Live' = Live
  <2>1. pc' \in [Thread -> Label]
    BY <1>1, <1>2 DEF Label
  <2>2. ThreadsInv' /\ Live' = Live
    BY <1>1, <1>2, <1>4, <2>1, StayInv DEF Live
  <2>3. Waiting'
    BY <1>1, <1>2, <1>4, <2>2 DEF Waiting
  <2>4. \A s \in Sem : Listed(s)' = Listed(s) /\ Woken(s)' = Woken(s)
    BY <1>2, <1>4 DEF Listed, Woken
  <2>5. value' \in [Sem -> 0 .. MaxValue]
    BY <1>1, <1>2
  <2>6. UnitsCovered'
    <3> SUFFICES ASSUME NEW s \in Sem, Listed(s)' # {}
                 PROVE  value'[s] <= Cardinality(Woken(s)')
      BY DEF UnitsCovered
    <3>1. s # waiter[current]
      BY <1>3, <2>4 DEF Listed
    <3> QED BY <1>1, <1>2, <2>4, <3>1 DEF UnitsCovered
  <2> QED BY <1>1, <1>2, <2>2, <2>3, <2>5, <2>6 DEF SemInv
<1>6. /\ cond_waiters' \in [Cond -> Seq(Thread)]
      /\ Range(cond_waiters'[c]) = Range(cond_waiters[c]) \cup {current}
      /\ IsInjective(cond_waiters'[c])
      /\ \A d \in Cond \ {c} : cond_waiters'[d] = cond_waiters[d]
      /\ \A d \in Cond : current \notin Range(cond_waiters[d])
  <2>1. \A d \in Cond : current \notin Range(cond_waiters[d])
    BY <1>1, <1>2 DEF WaiterFramesLive
  <2>2. /\ Range(Append(cond_waiters[c], current)) = Range(cond_waiters[c]) \cup {current}
        /\ IsInjective(Append(cond_waiters[c], current))
        /\ Append(cond_waiters[c], current) \in Seq(Thread)
    BY <1>1, <2>1, AppendRange, AppendProperties DEF WaiterFramesLive
  <2> QED BY <1>1, <1>2, <2>1, <2>2
<1>7. Calls'
  BY <1>1, <1>2, <1>5 DEF Calls, MonitorLabel
<1>8. Holding'
  BY <1>1, <1>2, <1>5 DEF Holding, Calls
<1>9. MutualExclusion'
  <2>1. \A l \in Lock : value'[l] = value[l]
    BY <1>1, <1>2
  <2> QED BY <1>1, <1>2, <2>1 DEF MutualExclusion
<1>10. WaiterFramesLive'
  BY <1>1, <1>2, <1>5, <1>6 DEF WaiterFramesLive
<1>11. NoLostSignal'
  <2> SUFFICES ASSUME NEW t \in Live, pc'[t] \in {"cond_release", "cond_down"}
               PROVE  IF t \in Range(cond_waiters'[call_cond'[t]])
                      THEN value'[waiter[t]] = 0 /\ q'.in_list[t] \in {waiter[t], NULL}
                      ELSE value'[waiter[t]] = 1 /\ q'.in_list[t] # waiter[t]
    BY <1>5 DEF NoLostSignal
  <2>1. CASE t = current
    BY <1>1, <1>2, <1>4, <1>6, <2>1
  <2>2. CASE t # current
    <3>1. /\ t \in Thread /\ pc'[t] = pc[t] /\ call_cond'[t] = call_cond[t]
          /\ value'[waiter[t]] = value[waiter[t]] /\ call_cond[t] \in Cond
      BY <1>1, <1>2, <2>2 DEF Calls
    <3>2. t \in Range(cond_waiters'[call_cond[t]]) <=> t \in Range(cond_waiters[call_cond[t]])
      BY <1>6, <2>2, <3>1
    <3> QED BY <1>1, <1>4, <3>1, <3>2 DEF NoLostSignal
  <2> QED BY <2>1, <2>2
<1> QED BY <1>1, <1>2, <1>5, <1>6, <1>7, <1>8, <1>9, <1>10, <1>11 DEF MonitorInv, MonitorCore

(* cond_wait on its own semaphore: it blocks until it has been signalled. *)
LEMMA CondDownInv ==
  ASSUME MonitorInv, cond_wait_down
  PROVE  MonitorInv'
<1> USE Names, SemNames, MonitorNames
<1>1. /\ SemInv /\ Waiting /\ value \in [Sem -> 0 .. MaxValue]
      /\ waits_on \in [Thread -> Sem \cup {NULL}]
      /\ pc \in [Thread -> Label] /\ current \in Thread /\ Live \subseteq Thread
      /\ q.in_list \in [Thread -> ListId \cup {NULL}]
      /\ status = "running" => current \in Live /\ q.in_list[current] = NULL
      /\ Calls /\ Holding /\ MutualExclusion /\ WaiterFramesLive /\ NoLostSignal
      /\ MonitorCore
  BY MonitorState DEF MonitorInv
<1>2. /\ status = "running" /\ pc[current] = "cond_down"
      /\ Down(waiter[current], "cond_down", "cond_relock")
      /\ UNCHANGED <<holder, cond_waiters, call_cond, inside>>
      /\ waiter[current] \in Sem /\ waiter[current] \notin Lock
  BY <1>1 DEF cond_wait_down, At, monitorVars
<1>3. SemInv'
  <2>1. waits_on[current] \in {NULL, waiter[current]}
    BY <1>1, <1>2 DEF Calls
  <2>2. "cond_down" \in Label \ {"user", "join", "join_all"} /\ "cond_relock" \in Label
    BY DEF Label
  <2> QED BY <1>1, <1>2, <2>1, <2>2, DownInv
<1>4. CASE value[waiter[current]] = 0
  <2>1. /\ Live' = Live /\ value' = value /\ pc' = pc
        /\ waits_on' = [waits_on EXCEPT ![current] = waiter[current]]
        /\ q'.in_list[current] = waiter[current]
        /\ \A t \in Thread \ {current} :
             \/ q'.in_list[t] = q.in_list[t]
             \/ q.in_list[t] = ready_list /\ q'.in_list[t] = NULL
    <3>1. /\ Live' = Live /\ value' = value
          /\ waits_on' = [waits_on EXCEPT ![current] = waiter[current]]
          /\ pc' = [pc EXCEPT ![current] = "cond_down"]
          /\ q'.in_list[current] = waiter[current]
          /\ \A t \in Thread \ {current} :
               \/ q'.in_list[t] = q.in_list[t]
               \/ q.in_list[t] = ready_list /\ q'.in_list[t] = NULL
      BY <1>1, <1>2, <1>4, DownFrame
    <3>2. pc' = pc
      BY <1>1, <1>2, <3>1
    <3> QED BY <3>1, <3>2
  <2>2. Calls' /\ Holding'
    BY <1>1, <1>2, <2>1 DEF Calls, Holding
  <2>3. MutualExclusion' /\ WaiterFramesLive'
    BY <1>1, <1>2, <2>1 DEF MutualExclusion, WaiterFramesLive
  <2>4. NoLostSignal'
    BY <1>1, <1>2, <1>4, <2>1 DEF NoLostSignal
  <2> QED BY <1>1, <1>2, <1>3, <2>1, <2>2, <2>3, <2>4 DEF MonitorInv, MonitorCore
<1>5. CASE value[waiter[current]] # 0
  <2>1. /\ Live' = Live /\ value' = [value EXCEPT ![waiter[current]] = @ - 1]
        /\ waits_on' = [waits_on EXCEPT ![current] = NULL]
        /\ pc' = [pc EXCEPT ![current] = "cond_relock"]
        /\ UNCHANGED <<q, current, status>>
    BY <1>1, <1>2, <1>5, DownFrame
  <2>2. \A c \in Cond : current \notin Range(cond_waiters[c])
    <3>1. current \notin Range(cond_waiters[call_cond[current]])
      BY <1>1, <1>2, <1>5 DEF NoLostSignal
    <3> QED BY <1>1, <3>1 DEF WaiterFramesLive
  <2>3. Calls'
    BY <1>1, <1>2, <2>1 DEF Calls, MonitorLabel
  <2>4. Holding'
    BY <1>1, <1>2, <2>1 DEF Holding
  <2>5. MutualExclusion'
    <3>1. \A l \in Lock : value'[l] = value[l]
      BY <1>1, <1>2, <2>1
    <3> QED BY <1>1, <1>2, <3>1 DEF MutualExclusion
  <2>6. WaiterFramesLive'
    BY <1>1, <1>2, <2>1, <2>2 DEF WaiterFramesLive
  <2>7. NoLostSignal'
    <3>1. \A t \in Thread \ {current} : value'[waiter[t]] = value[waiter[t]] /\ pc'[t] = pc[t]
      BY <1>1, <2>1
    <3> QED BY <1>1, <1>2, <2>1, <3>1 DEF NoLostSignal
  <2> QED BY <1>1, <1>2, <1>3, <2>1, <2>3, <2>4, <2>5, <2>6, <2>7 DEF MonitorInv, MonitorCore
<1> QED BY <1>4, <1>5

(* cond_broadcast begins, or ends: no lock and no list of waiters changes. *)
LEMMA BroadcastInv ==
  ASSUME MonitorInv, NEW label \in Label, NEW c \in Cond \cup {NULL},
         pc[current] \in {"user", "cond_broadcast"}, status = "running",
         label = "user" \/ (label = "cond_broadcast" /\ c \in Cond),
         call_cond' = [call_cond EXCEPT ![current] = c],
         pc' = [pc EXCEPT ![current] = label],
         UNCHANGED <<q, current, num_thrs, heap, handle, code, status, semVars,
                     holder, cond_waiters, inside>>
  PROVE  MonitorInv'
<1> USE Names, SemNames, MonitorNames
<1>1. /\ ThreadsInv /\ SemInv /\ Waiting /\ pc \in [Thread -> Label]
      /\ current \in Thread /\ Live \subseteq Thread /\ current \in Live
      /\ waits_on \in [Thread -> Sem \cup {NULL}]
      /\ call_cond \in [Thread -> Cond \cup {NULL}]
      /\ Calls /\ Holding /\ MutualExclusion /\ WaiterFramesLive /\ NoLostSignal
      /\ MonitorCore
  BY MonitorState DEF MonitorInv, SemInv
<1>2. value' = value /\ waits_on' = waits_on /\ waits_on[current] = NULL
  BY <1>1 DEF semVars, Calls
<1>3. SemInv' /\ Live' = Live
  <2>1. ThreadsInv' /\ Live' = Live
    BY <1>1, StayInv DEF Live
  <2>2. Waiting' /\ UnitsCovered'
    BY <1>1, <1>2, <2>1 DEF SemInv, Waiting, UnitsCovered, Listed, Woken
  <2> QED BY <1>1, <1>2, <2>1, <2>2 DEF SemInv
<1>4. Calls'
  BY <1>1, <1>2, <1>3 DEF Calls, MonitorLabel
<1>5. Holding' /\ MutualExclusion'
  <2>1. MutualExclusion'
    BY <1>1, <1>2 DEF MutualExclusion
  <2>2. \A t \in Thread \ {current} : pc'[t] = pc[t] /\ call_cond'[t] = call_cond[t]
    BY <1>1
  <2>3. pc'[current] \in {"user", "cond_broadcast"}
    BY <1>1
  <2>4. Holding'
    BY <1>1, <1>2, <1>3, <2>2, <2>3 DEF Holding
  <2> QED BY <2>1, <2>4
<1>6. WaiterFramesLive'
  BY <1>1, <1>3 DEF WaiterFramesLive
<1>7. NoLostSignal'
  BY <1>1, <1>2, <1>3 DEF NoLostSignal
<1> QED BY <1>1, <1>3, <1>4, <1>5, <1>6, <1>7 DEF MonitorInv, MonitorCore

(* A step of the scheduler: no thread exits with a lock held. *)
LEMMA ThreadsStepMonitor ==
  ASSUME MonitorInv, ThreadsNext, UNCHANGED <<semVars, monitorVars>>,
         num_thrs' < num_thrs => \A l \in Lock : ~Holds(l)
  PROVE  MonitorInv'
<1> USE Names, SemNames, MonitorNames
<1>1. /\ ThreadsInv /\ SemInv /\ Waiting /\ pc \in [Thread -> Label]
      /\ current \in Thread /\ Live \subseteq Thread
      /\ waits_on \in [Thread -> Sem \cup {NULL}] /\ Scheduled
      /\ holder \in [Lock -> Thread \cup {NULL}]
      /\ call_cond \in [Thread -> Cond \cup {NULL}]
      /\ q.in_list \in [Thread -> ListId \cup {NULL}]
      /\ Calls /\ Holding /\ MutualExclusion /\ WaiterFramesLive /\ NoLostSignal
      /\ MonitorCore
  BY MonitorState DEF MonitorInv, SemInv, ThreadsInv
<1>2. /\ value' = value /\ waits_on' = waits_on
      /\ UNCHANGED <<holder, cond_waiters, call_cond, inside>>
  BY DEF semVars, monitorVars
<1>3. SemInv' /\ Waiting'
  BY <1>1, ThreadsStepSem DEF SemInv
<1>4. /\ status = "running" /\ current \in Live /\ pc[current] \in {"user", "join", "join_all"}
      /\ \A t \in Live \ {current} :
           /\ t \in Live' /\ pc'[t] = pc[t]
           /\ q.in_list[t] \in WaitList => q'.in_list[t] = q.in_list[t]
           /\ q.in_list[t] = ready_list => q'.in_list[t] \in {ready_list, NULL}
      /\ \A t \in Thread :
           q'.in_list[t] \in WaitList => t \in Live \ {current} /\ q'.in_list[t] = q.in_list[t]
  BY <1>1, ThreadsFrame
<1>5. current \in Live' \/ num_thrs' < num_thrs
  BY <1>1, ThreadsLeave
<1>6. \A t \in Thread : pc'[t] = pc[t] \/ pc'[t] \in {"user", "join", "join_all"}
  <2>1. pc' = pc \/ \E t \in Thread, label \in {"user", "join", "join_all"} :
                      pc' = [pc EXCEPT ![t] = label]
    BY <1>1, ThreadsPc
  <2> QED BY <1>1, <2>1
<1>7. Calls'
  <2> SUFFICES ASSUME NEW t \in Thread
               PROVE  /\ pc'[t] \in MonitorLabel
                      /\ pc'[t] \in {"cond_release", "cond_down", "cond_relock",
                                     "cond_broadcast"} =>
                           t \in Live' /\ call_cond[t] \in Cond
                      /\ waits_on[t] # NULL =>
                           \/ pc'[t] = "lock_acquire" /\ waits_on[t] \in Lock
                           \/ pc'[t] = "cond_down" /\ waits_on[t] = waiter[t]
                           \/ pc'[t] = "cond_relock" /\ waits_on[t] = lock_of[call_cond[t]]
                      /\ pc'[t] = "lock_acquire" => waits_on[t] # NULL
    BY <1>2 DEF Calls
  <2>1. CASE pc'[t] \in {"user", "join", "join_all"}
    BY <1>2, <1>3, <2>1 DEF Waiting, MonitorLabel
  <2>2. CASE pc'[t] \notin {"user", "join", "join_all"}
    BY <1>1, <1>4, <1>6, <2>2 DEF Calls
  <2> QED BY <2>1, <2>2
<1>8. Holding'
  <2>1. \A l \in Lock : holder[l] # NULL => holder[l] \in Live'
    BY <1>1, <1>4, <1>5 DEF Holding, Holds
  <2> QED BY <1>1, <1>2, <1>6, <2>1 DEF Holding
<1>9. MutualExclusion'
  BY <1>1, <1>2 DEF MutualExclusion
<1>10. WaiterFramesLive'
  BY <1>1, <1>2, <1>4 DEF WaiterFramesLive
<1>11. NoLostSignal'
  <2> SUFFICES ASSUME NEW t \in Live', pc'[t] \in {"cond_release", "cond_down"}
               PROVE  IF t \in Range(cond_waiters[call_cond[t]])
                      THEN value[waiter[t]] = 0 /\ q'.in_list[t] \in {waiter[t], NULL}
                      ELSE value[waiter[t]] = 1 /\ q'.in_list[t] # waiter[t]
    BY <1>2 DEF NoLostSignal
  <2>1. t \in Thread
    BY DEF Live
  <2>2. pc[t] = pc'[t] /\ t \in Live /\ t # current
    BY <1>1, <1>4, <1>6, <2>1 DEF Calls
  <2>3. IF t \in Range(cond_waiters[call_cond[t]])
        THEN value[waiter[t]] = 0 /\ q.in_list[t] \in {waiter[t], NULL}
        ELSE value[waiter[t]] = 1 /\ q.in_list[t] # waiter[t]
    BY <1>1, <2>2 DEF NoLostSignal
  <2>4. q.in_list[t] # NULL /\ waiter[t] \in WaitList
    BY <1>1, <2>1, <2>2 DEF Scheduled
  <2>5. q.in_list[t] = waiter[t] => q'.in_list[t] = waiter[t]
    BY <1>4, <2>2, <2>4
  <2>6. q'.in_list[t] = waiter[t] => q.in_list[t] = waiter[t]
    BY <1>4, <2>1, <2>4
  <2> QED BY <2>3, <2>4, <2>5, <2>6
<1> QED BY <1>1, <1>2, <1>3, <1>7, <1>8, <1>9, <1>10, <1>11 DEF MonitorInv, MonitorCore

(* Every step keeps the invariant. *)
LEMMA MonitorNextInv ==
  ASSUME MonitorInv, [MonitorNext]_allVars
  PROVE  MonitorInv'
<1> USE Names, SemNames, MonitorNames
<1>1. /\ Calls /\ Holding /\ current \in Thread /\ Live \subseteq Thread
      /\ SemInv /\ MonitorCore /\ ThreadsInv /\ pc \in [Thread -> Label]
  BY MonitorState DEF MonitorInv
<1>2. ASSUME NEW l \in Lock, lock_acquire(l) PROVE MonitorInv'
  <2>1. /\ status = "running" /\ pc[current] = "user" /\ holder[l] # current
        /\ Acquire(l, "lock_acquire", "user") /\ UNCHANGED <<cond_waiters, call_cond>>
    BY <1>2 DEF lock_acquire, At, Holds
  <2>2. waits_on[current] = NULL
    BY <1>1, <2>1 DEF Calls
  <2> QED BY <2>1, <2>2, AcquireInv
<1>3. ASSUME lock_acquire_resume PROVE MonitorInv'
  <2>1. /\ status = "running" /\ pc[current] = "lock_acquire"
        /\ Acquire(waits_on[current], "lock_acquire", "user")
        /\ UNCHANGED <<cond_waiters, call_cond>>
    BY <1>3 DEF lock_acquire_resume, At
  <2>2. waits_on[current] \in Lock /\ holder[waits_on[current]] # current
    BY <1>1, <2>1 DEF Calls, Holding
  <2> QED BY <2>1, <2>2, AcquireInv
<1>4. ASSUME NEW l \in Lock, lock_release(l) PROVE MonitorInv'
  BY <1>4, UnlockInv DEF lock_release, At, Holds
<1>5. ASSUME NEW c \in Cond, cond_signal(c) PROVE MonitorInv'
  <2>1. CASE cond_waiters[c] = <<>>
    <3>1. UNCHANGED allVars
      BY <1>5, <2>1 DEF cond_signal
    <3>2. /\ UNCHANGED <<q, current, num_thrs, heap, handle, code, pc, status>>
          /\ UNCHANGED <<value, waits_on, holder, cond_waiters, call_cond, inside>>
      BY <3>1 DEF allVars, threadVars, semVars, monitorVars
    <3>3. SemInv' /\ Live' = Live
      BY <1>1, <3>1, SemStutterInv DEF Live, allVars, threadVars, semVars
    <3> QED BY <1>1, <3>2, <3>3 DEF MonitorInv, MonitorCore, Calls, Holding,
              MutualExclusion, WaiterFramesLive, NoLostSignal
  <2>2. CASE cond_waiters[c] # <<>>
    BY <1>5, <2>2, SignalInv DEF cond_signal, At
  <2> QED BY <2>1, <2>2
<1>6. ASSUME NEW c \in Cond, cond_broadcast(c) PROVE MonitorInv'
  <2>1. "cond_broadcast" \in Label
    BY DEF Label
  <2> QED BY <1>6, <2>1, BroadcastInv DEF cond_broadcast, At
<1>7. ASSUME cond_wait_release PROVE MonitorInv'
  <2>1. /\ status = "running" /\ pc[current] = "cond_release"
        /\ Unlock(lock_of[call_cond[current]], "cond_down")
        /\ UNCHANGED <<cond_waiters, call_cond>>
    BY <1>7 DEF cond_wait_release, At
  <2>2. /\ lock_of[call_cond[current]] \in Lock
        /\ holder[lock_of[call_cond[current]]] = current
    BY <1>1, <2>1 DEF Calls, Holding
  <2> QED BY <2>1, <2>2, UnlockInv
<1>8. ASSUME cond_wait_relock PROVE MonitorInv'
  <2>1. /\ status = "running" /\ pc[current] = "cond_relock"
        /\ Acquire(lock_of[call_cond[current]], "cond_relock", "user")
        /\ call_cond' = IF value[lock_of[call_cond[current]]] = 0
                        THEN call_cond ELSE [call_cond EXCEPT ![current] = NULL]
        /\ UNCHANGED cond_waiters
    BY <1>8 DEF cond_wait_relock, At
  <2>2. /\ lock_of[call_cond[current]] \in Lock
        /\ holder[lock_of[call_cond[current]]] # current
        /\ waits_on[current] \in {NULL, lock_of[call_cond[current]]}
    BY <1>1, <2>1 DEF Calls, Holding
  <2> QED BY <2>1, <2>2, AcquireInv
<1>9. ASSUME cond_broadcast_round PROVE MonitorInv'
  <2>1. /\ status = "running" /\ pc[current] = "cond_broadcast"
        /\ call_cond[current] \in Cond
    BY <1>1, <1>9 DEF cond_broadcast_round, At, Calls
  <2>2. CASE Signal(call_cond[current], "cond_broadcast")
    BY <2>1, <2>2, SignalInv
  <2>3. CASE ~Signal(call_cond[current], "cond_broadcast")
    <3>1. "user" \in Label
      BY DEF Label
    <3> QED BY <1>9, <2>1, <2>3, <3>1, BroadcastInv DEF cond_broadcast_round
  <2> QED BY <2>2, <2>3
<1>10. ASSUME UNCHANGED allVars PROVE MonitorInv'
  <2>1. /\ UNCHANGED <<q, current, num_thrs, heap, handle, code, pc, status>>
        /\ UNCHANGED <<value, waits_on, holder, cond_waiters, call_cond, inside>>
    BY <1>10 DEF allVars, threadVars, semVars, monitorVars
  <2>2. SemInv' /\ Live' = Live
    BY <1>1, <1>10, SemStutterInv DEF Live, allVars, threadVars, semVars
  <2> QED BY <1>1, <2>1, <2>2 DEF MonitorInv, MonitorCore, Calls, Holding,
            MutualExclusion, WaiterFramesLive, NoLostSignal
<1> QED BY <1>2, <1>3, <1>4, <1>5, <1>6, <1>7, <1>8, <1>9, <1>10,
          TryAcquireInv, CondWaitInv, CondDownInv, ThreadsStepMonitor DEF MonitorNext

(* The invariant holds throughout. *)
THEOREM MonitorInvariantHolds == MonitorSpec => []MonitorInv
<1>1. MonitorInv /\ [MonitorNext]_allVars => MonitorInv'
  BY MonitorNextInv
<1> QED BY MonitorInitInv, <1>1, PTL DEF MonitorSpec

---------------------------------------------------------------------------
(* What the invariant says about locks and conditions. *)

(* When the system stops, every thread waits for what a live thread has or *)
(* for what nobody has done.                                               *)
LEMMA InvStuckMonitors ==
  ASSUME MonitorInv
  PROVE  StuckMonitors
<1> USE Names, SemNames, MonitorNames
<1> SUFFICES ASSUME status = "stuck", NEW t \in Live
             PROVE  \/ \E l \in Lock : q.in_list[t] = l /\ holder[l] \in Live \ {t}
                    \/ /\ q.in_list[t] = waiter[t]
                       /\ t \in Range(cond_waiters[call_cond[t]])
                    \/ q.in_list[t] \in Live \ {t}
                    \/ q.in_list[t] = join_list /\ Live # {t}
  BY DEF StuckMonitors
<1>1. /\ Waiting /\ Live \subseteq Thread /\ t \in Thread
      /\ waits_on \in [Thread -> Sem \cup {NULL}]
      /\ Calls /\ Holding /\ MutualExclusion /\ NoLostSignal
      /\ StuckMeansNothingAvailable
  BY MonitorState, SemConsequences DEF MonitorInv
<1>2. \/ q.in_list[t] \in Sem /\ value[q.in_list[t]] = 0
      \/ q.in_list[t] \in Live \ {t}
      \/ q.in_list[t] = join_list /\ Live # {t}
  BY <1>1 DEF StuckMeansNothingAvailable
<1>3. CASE q.in_list[t] \in Sem /\ value[q.in_list[t]] = 0
  <2>1. waits_on[t] = q.in_list[t] /\ waits_on[t] # NULL
    BY <1>1, <1>3 DEF Waiting
  <2>2. CASE waits_on[t] \in Lock
    <3>1. holder[waits_on[t]] # t
      BY <1>1, <2>2 DEF Holding
    <3>2. holder[waits_on[t]] # NULL
      <4>1. value[waits_on[t]] = IF holder[waits_on[t]] = NULL THEN 1 ELSE 0
        BY <1>1, <2>2, Zenon DEF MutualExclusion
      <4> QED BY <1>3, <2>1, <4>1
    <3>3. holder[waits_on[t]] \in Live
      BY <1>1, <2>2, <3>2 DEF Holding
    <3> QED BY <2>1, <2>2, <3>1, <3>3
  <2>3. CASE waits_on[t] \notin Lock
    <3>1. pc[t] = "cond_down" /\ waits_on[t] = waiter[t]
      BY <1>1, <2>1, <2>3 DEF Calls
    <3>2. t \in Range(cond_waiters[call_cond[t]])
      BY <1>1, <1>3, <2>1, <3>1 DEF NoLostSignal
    <3> QED BY <2>1, <3>1, <3>2
  <2> QED BY <2>2, <2>3
<1> QED BY <1>2, <1>3

(* A lock is held by one thread at most, and the lock knows by whom. *)
THEOREM MonitorMutualExclusion == MonitorSpec => []MutualExclusion
<1>1. MonitorInv => MutualExclusion
  BY DEF MonitorInv, MonitorCore
<1> QED BY <1>1, MonitorInvariantHolds, PTL

(* No element of a condition's list outlives the cond_wait it is of. *)
THEOREM MonitorFramesLive == MonitorSpec => []WaiterFramesLive
<1>1. MonitorInv => WaiterFramesLive
  BY DEF MonitorInv, MonitorCore
<1> QED BY <1>1, MonitorInvariantHolds, PTL

(* A signalled thread does not stay on its semaphore; one that has not     *)
(* been signalled does not get past it.                                    *)
THEOREM MonitorNoLostSignal == MonitorSpec => []NoLostSignal
<1>1. MonitorInv => NoLostSignal
  BY DEF MonitorInv, MonitorCore
<1> QED BY <1>1, MonitorInvariantHolds, PTL

(* The system stops only for the lack of a lock another live thread holds, *)
(* of a signal, or of an exit.                                             *)
THEOREM MonitorStuck == MonitorSpec => []StuckMonitors
BY InvStuckMonitors, MonitorInvariantHolds, PTL

(* Every variable keeps its type. *)
THEOREM MonitorTypes == MonitorSpec => []MonitorTypeOK
<1>1. MonitorInv => MonitorTypeOK
  BY SemConsequences DEF MonitorInv, MonitorCore, MonitorTypeOK
<1> QED BY <1>1, MonitorInvariantHolds, PTL

(* Locks and conditions never make put or get fail an ASSERT. *)
THEOREM MonitorAssertsHold == MonitorSpec => []AssertsHold
<1>1. MonitorInv => AssertsHold
  BY InvConsequences DEF MonitorInv, SemInv
<1> QED BY <1>1, MonitorInvariantHolds, PTL
============================================================================
