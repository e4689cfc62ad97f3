------------------------- MODULE SemaphoresProofs --------------------------
(***************************************************************************)
(* Proofs about Semaphores: no wakeup is lost, and the program stops only  *)
(* when every live thread waits for something that has not happened, for   *)
(* any number of threads and semaphores and any initial values.            *)
(***************************************************************************)
EXTENDS Semaphores, ThreadsProofs

---------------------------------------------------------------------------
(* What a step of the scheduler leaves alone. *)

(* The running thread blocks; a ready thread may start to run. *)
LEMMA BlockFrame ==
  ASSUME ThreadsInv, status = "running", NEW l \in ListId, NEW label, Block(l, label)
  PROVE  /\ Live' = Live
         /\ pc' = [pc EXCEPT ![current] = label]
         /\ \A t \in Thread \ {current} :
              \/ q'.in_list[t] = q.in_list[t]
              \/ q.in_list[t] = ready_list /\ q'.in_list[t] = NULL
         /\ q'.in_list[current] = l \/ (l = ready_list /\ q'.in_list[current] = NULL)
<1> USE Names
<1> DEFINE r == Put(q, current, l)
<1>1. /\ current \in Thread /\ q.in_list[current] = NULL /\ Sound(q)
      /\ q.in_list \in [Thread -> ListId \cup {NULL}]
  BY SoundLists DEF ThreadsInv, Scheduled, FieldsOK
<1>2. Sound(r) /\ r.in_list = [q.in_list EXCEPT ![current] = l]
  BY <1>1, PutSound
<1>3. run(r) /\ pc' = [pc EXCEPT ![current] = label] /\ handle' = handle
  BY DEF Block
<1> HIDE DEF r
<1>4. \/ q' = r
      \/ r.in_list[current'] = ready_list /\ q'.in_list = [r.in_list EXCEPT ![current'] = NULL]
  BY <1>2, <1>3, RunSound
<1>5. \A t \in Thread : q'.in_list[t] = r.in_list[t]
                        \/ (r.in_list[t] = ready_list /\ q'.in_list[t] = NULL)
  BY <1>1, <1>2, <1>4
<1>6. Live' = Live
  BY <1>3 DEF Live
<1> QED BY <1>1, <1>2, <1>3, <1>5, <1>6

(* A live thread other than the running one keeps its place on the list of *)
(* another object, stays alive and stays where it is in its program; no    *)
(* thread is put on the list of another object.                            *)
LEMMA ThreadsFrame ==
  ASSUME ThreadsInv, ThreadsNext
  PROVE  /\ status = "running" /\ current \in Live
         /\ pc[current] \in {"user", "join", "join_all"}
         /\ \A t \in Live \ {current} :
              /\ t \in Live' /\ pc'[t] = pc[t]
              /\ q.in_list[t] \in WaitList => q'.in_list[t] = q.in_list[t]
              /\ q.in_list[t] = ready_list => q'.in_list[t] \in {ready_list, NULL}
         /\ \A t \in Thread :
              q'.in_list[t] \in WaitList => t \in Live \ {current} /\ q'.in_list[t] = q.in_list[t]
<1> USE Names
<1> DEFINE Kept ==
             /\ \A t \in Live \ {current} :
                  /\ t \in Live' /\ pc'[t] = pc[t]
                  /\ q.in_list[t] \in WaitList => q'.in_list[t] = q.in_list[t]
                  /\ q.in_list[t] = ready_list => q'.in_list[t] \in {ready_list, NULL}
             /\ \A t \in Thread :
                  q'.in_list[t] \in WaitList => t \in Live \ {current} /\ q'.in_list[t] = q.in_list[t]
<1>1. status = "running" /\ pc[current] \in {"user", "join", "join_all"}
  BY DEF ThreadsNext, thread_new, thread_new_fails, thread_exit, thread_join,
         thread_join_return, thread_join_all, thread_join_all_return, thread_pause, At
<1>2. /\ current \in Live /\ current \in Thread /\ q.in_list[current] = NULL
      /\ q.in_list \in [Thread -> ListId \cup {NULL}]
      /\ pc \in [Thread -> Label] /\ Live \subseteq Thread
      /\ Placed /\ Owned
  BY <1>1, SoundLists, LiveFinite DEF ThreadsInv, Scheduled, FieldsOK
<1>3. ASSUME NEW l \in ListId \ WaitList, NEW label, Block(l, label)
      PROVE  Kept
  <2>1. /\ Live' = Live
        /\ pc' = [pc EXCEPT ![current] = label]
        /\ \A t \in Thread \ {current} :
             \/ q'.in_list[t] = q.in_list[t]
             \/ q.in_list[t] = ready_list /\ q'.in_list[t] = NULL
        /\ q'.in_list[current] = l \/ (l = ready_list /\ q'.in_list[current] = NULL)
    BY <1>1, <1>3, BlockFrame
  <2> QED BY <1>2, <1>3, <2>1 DEF Placed
<1>4. ASSUME q' = q, Live' = Live, \A t \in Live \ {current} : pc'[t] = pc[t]
      PROVE  Kept
  BY <1>2, <1>4 DEF Placed
<1>5. ASSUME NEW u \in Thread, thread_new(u) PROVE Kept
  <2> DEFINE r == Release(q)
  <2>1. /\ u # root /\ u \notin heap \ Dead
        /\ q' = Put(r, u, ready_list) /\ pc' = [pc EXCEPT ![u] = "user"]
        /\ handle' = [handleAfterRelease EXCEPT ![u] = u]
    BY <1>5 DEF thread_new
  <2>2. /\ r.in_list = [t \in Thread |-> IF q.in_list[t] = free_list THEN NULL ELSE q.in_list[t]]
        /\ handleAfterRelease \in [Thread -> Thread \cup {NULL, FREED}]
        /\ \A t \in Thread : handleAfterRelease[t] = t <=> t \in Live
        /\ heap \ Dead = Live \ {root}
    BY <1>1, AfterRelease
  <2> HIDE DEF r
  <2>3. q'.in_list = [r.in_list EXCEPT ![u] = ready_list]
    BY <2>1 DEF Put
  <2>4. u \notin Live
    BY <2>1, <2>2
  <2>5. \A t \in Live : t \in Live'
    BY <1>2, <2>1, <2>2, <2>4 DEF Live
  <2>6. \A t \in Thread :
          q'.in_list[t] = IF t = u THEN ready_list
                          ELSE IF q.in_list[t] = free_list THEN NULL ELSE q.in_list[t]
    BY <2>2, <2>3
  <2> QED BY <1>2, <2>1, <2>4, <2>5, <2>6 DEF Placed
<1>6. ASSUME thread_new_fails PROVE Kept
  <2>1. q' = Release(q) /\ pc' = pc /\ handle' = handleAfterRelease
    BY <1>6 DEF thread_new_fails
  <2>2. /\ q'.in_list = [t \in Thread |-> IF q.in_list[t] = free_list THEN NULL ELSE q.in_list[t]]
        /\ Live' = Live
    BY <1>1, <2>1, AfterRelease DEF Live
  <2> QED BY <1>2, <2>1, <2>2 DEF Placed
<1>7. ASSUME NEW c \in Code, thread_exit(c) PROVE Kept
  <2> DEFINE r == ExitLists(Release(q))
  <2>1. /\ pc' = pc
        /\ handle' = [handleAfterRelease EXCEPT ![current] = NULL]
        /\ IF num_thrs' = 0 THEN q' = r ELSE run(r)
    BY <1>7 DEF thread_exit
  <2>2. /\ Sound(r)
        /\ \A t \in Thread :
             r.in_list[t] =
               IF t = current THEN IF current = root THEN NULL ELSE free_list
               ELSE IF q.in_list[t] = free_list THEN NULL
               ELSE IF q.in_list[t] = current THEN ready_list
               ELSE IF q.in_list[t] = join_list /\ num_thrs = 2 THEN ready_list
               ELSE q.in_list[t]
    BY <1>1, ExitListsSound
  <2>3. /\ handleAfterRelease \in [Thread -> Thread \cup {NULL, FREED}]
        /\ \A t \in Thread : handleAfterRelease[t] = t <=> t \in Live
    BY <1>1, AfterRelease
  <2> HIDE DEF r
  <2>4. \A t \in Live \ {current} : t \in Live'
    BY <1>2, <2>1, <2>3 DEF Live
  <2>5. \A t \in Thread : q'.in_list[t] = r.in_list[t]
                          \/ (r.in_list[t] = ready_list /\ q'.in_list[t] = NULL)
    <3>1. r.in_list \in [Thread -> ListId \cup {NULL}]
      BY <2>2 DEF Sound, QType
    <3>2. CASE num_thrs' = 0
      BY <2>1, <3>2
    <3>3. CASE num_thrs' # 0
      <4>1. run(r)
        BY <2>1, <3>3
      <4>2. \/ q' = r
            \/ r.in_list[current'] = ready_list /\ q'.in_list = [r.in_list EXCEPT ![current'] = NULL]
        BY <2>2, <4>1, RunSound
      <4> QED BY <3>1, <4>2
    <3> QED BY <3>2, <3>3
  <2> QED BY <1>2, <2>1, <2>2, <2>4, <2>5 DEF Placed
<1>8. ASSUME NEW thr \in Thread, thread_join(thr) PROVE Kept
  <2>1. CASE handle[thr] = thr
    BY <1>3, <1>8, <2>1 DEF thread_join
  <2>2. CASE handle[thr] # thr
    BY <1>4, <1>8, <2>2 DEF thread_join, threadVars, Live
  <2> QED BY <2>1, <2>2
<1>9. ASSUME thread_join_return \/ thread_join_all_return PROVE Kept
  <2>1. pc' = [pc EXCEPT ![current] = "user"] /\ q' = q /\ Live' = Live
    BY <1>9 DEF thread_join_return, thread_join_all_return, Live
  <2> QED BY <1>2, <1>4, <2>1
<1>10. ASSUME thread_join_all PROVE Kept
  <2>1. CASE num_thrs > 1
    BY <1>3, <1>10, <2>1 DEF thread_join_all
  <2>2. CASE ~(num_thrs > 1)
    BY <1>4, <1>10, <2>2 DEF thread_join_all, threadVars, Live
  <2> QED BY <2>1, <2>2
<1>11. ASSUME thread_pause PROVE Kept
  BY <1>3, <1>11 DEF thread_pause
<1>12. Kept
  BY <1>5, <1>6, <1>7, <1>8, <1>9, <1>10, <1>11 DEF ThreadsNext
<1> QED BY <1>1, <1>2, <1>12

(* A step of the scheduler moves one thread within its program at most. *)
LEMMA ThreadsPc ==
  ASSUME ThreadsNext, current \in Thread
  PROVE  pc' = pc \/ \E t \in Thread, label \in {"user", "join", "join_all"} :
                        pc' = [pc EXCEPT ![t] = label]
BY DEF ThreadsNext, thread_new, thread_new_fails, thread_exit, thread_join,
       thread_join_return, thread_join_all, thread_join_all_return, thread_pause, Block,
       threadVars

(* The running thread stays alive, or it exits and is counted out. *)
LEMMA ThreadsLeave ==
  ASSUME ThreadsInv, ThreadsNext
  PROVE  current \in Live' \/ num_thrs' < num_thrs
<1>1. status = "running" /\ current \in Live /\ Live \subseteq Thread /\ num_thrs \in Nat
  BY ThreadsFrame, LiveFinite DEF ThreadsInv, FieldsOK
<1>2. /\ handleAfterRelease \in [Thread -> Thread \cup {NULL, FREED}]
      /\ handleAfterRelease[current] = current
  BY <1>1, AfterRelease
<1>3. ASSUME handle' = handle PROVE current \in Live'
  BY <1>1, <1>3 DEF Live
<1>4. ASSUME NEW c \in Code, thread_exit(c) PROVE num_thrs' < num_thrs
  BY <1>1, <1>4 DEF thread_exit
<1>5. ASSUME NEW t \in Thread, thread_new(t) PROVE current \in Live'
  <2>1. handle' = [handleAfterRelease EXCEPT ![t] = t]
    BY <1>5 DEF thread_new
  <2> QED BY <1>1, <1>2, <2>1 DEF Live
<1>6. ASSUME thread_new_fails PROVE current \in Live'
  BY <1>1, <1>2, <1>6 DEF thread_new_fails, Live
<1> QED BY <1>3, <1>4, <1>5, <1>6 DEF ThreadsNext, thread_join, thread_join_return,
         thread_join_all, thread_join_all_return, thread_pause, Block, threadVars
---------------------------------------------------------------------------
(* The inductive invariant: which threads are in sem_down of what, and how *)
(* many of them an up has made ready.  A unit may be taken by a thread     *)
(* that never waited, so the count is a bound and not an equation.         *)

Waiting ==
  \A t \in Thread :
    /\ q.in_list[t] \in Sem => waits_on[t] = q.in_list[t]
    /\ waits_on[t] # NULL =>
         /\ t \in Live /\ pc[t] \notin {"user", "join", "join_all"}
         /\ q.in_list[t] \in {waits_on[t], ready_list, NULL}

UnitsCovered ==
  \A s \in Sem : Listed(s) # {} => value[s] <= Cardinality(Woken(s))

(* The inductive invariant. *)
SemInv ==
  /\ ThreadsInv
  /\ value \in [Sem -> 0 .. MaxValue]
  /\ waits_on \in [Thread -> Sem \cup {NULL}]
  /\ Waiting
  /\ UnitsCovered

(* The semaphores are lists of other objects than the scheduler. *)
LEMMA SemNames == Sem \subseteq ListId /\ NULL \notin Sem /\ MaxValue \in Nat
                  /\ ready_list \notin Sem /\ free_list \notin Sem /\ join_list \notin Sem
                  /\ Sem \cap Thread = {} /\ Sem = WaitList
BY Names, SemaphoresAssumption DEF Sem

(* The woken threads can be counted. *)
LEMMA WokenFinite ==
  ASSUME NEW s
  PROVE  IsFiniteSet(Woken(s)) /\ Cardinality(Woken(s)) \in Nat
<1>1. Woken(s) \subseteq Thread
  BY DEF Woken
<1> QED BY <1>1, ThreadsAssumption, FS_Subset, FS_CardinalityType

(* What one round of sem_down does, to the caller and to the others. *)
LEMMA DownFrame ==
  ASSUME SemInv, status = "running", NEW s \in Sem, NEW here, NEW after,
         Down(s, here, after)
  PROVE  /\ Live' = Live
         /\ value[s] = 0 =>
              /\ value' = value /\ waits_on' = [waits_on EXCEPT ![current] = s]
              /\ pc' = [pc EXCEPT ![current] = here]
              /\ q'.in_list[current] = s
              /\ \A t \in Thread \ {current} :
                   \/ q'.in_list[t] = q.in_list[t]
                   \/ q.in_list[t] = ready_list /\ q'.in_list[t] = NULL
         /\ value[s] # 0 =>
              /\ value' = [value EXCEPT ![s] = @ - 1]
              /\ waits_on' = [waits_on EXCEPT ![current] = NULL]
              /\ pc' = [pc EXCEPT ![current] = after]
              /\ UNCHANGED <<q, current, status>>
<1> USE Names, SemNames
<1>1. CASE value[s] = 0
  <2>1. Block(s, here) /\ waits_on' = [waits_on EXCEPT ![current] = s] /\ value' = value
    BY <1>1 DEF Down
  <2>2. ThreadsInv
    BY DEF SemInv
  <2>3. /\ Live' = Live
        /\ pc' = [pc EXCEPT ![current] = here]
        /\ \A t \in Thread \ {current} :
             \/ q'.in_list[t] = q.in_list[t]
             \/ q.in_list[t] = ready_list /\ q'.in_list[t] = NULL
        /\ q'.in_list[current] = s
    BY <2>1, <2>2, BlockFrame
  <2> QED BY <1>1, <2>1, <2>3
<1>2. CASE value[s] # 0
  BY <1>2 DEF Down, Live
<1> QED BY <1>1, <1>2

(* What sem_up does: it takes at most one thread off the list of s. *)
LEMMA UpFrame ==
  ASSUME SemInv, NEW s \in Sem, NEW after, Up(s, after)
  PROVE  /\ Live' = Live /\ value[s] < MaxValue
         /\ value' = [value EXCEPT ![s] = @ + 1]
         /\ pc' = [pc EXCEPT ![current] = after]
         /\ UNCHANGED <<current, status, waits_on>>
         /\ \/ (\A t \in Thread : q.in_list[t] # s) /\ q' = q
            \/ \E w \in Thread : /\ q.in_list[w] = s
                                 /\ q'.in_list = [q.in_list EXCEPT ![w] = ready_list]
<1> USE Names, SemNames
<1>1. /\ Live' = Live /\ value[s] < MaxValue
      /\ value' = [value EXCEPT ![s] = @ + 1]
      /\ pc' = [pc EXCEPT ![current] = after]
      /\ UNCHANGED <<current, status, waits_on>>
      /\ q' = IF q.list[s] = <<>> THEN q ELSE Move(q, s, ready_list)
  BY DEF Up, Wake, Live
<1>2. Sound(q)
  BY SoundLists DEF SemInv, ThreadsInv
<1>3. CASE q.list[s] = <<>>
  BY <1>1, <1>2, <1>3, EmptyList
<1>4. CASE q.list[s] # <<>>
  <2> DEFINE w == Head(q.list[s])
  <2>1. /\ w \in Thread /\ q.in_list[w] = s
        /\ q'.in_list = [q.in_list EXCEPT ![w] = ready_list]
    BY <1>1, <1>2, <1>4, MoveSound
  <2> HIDE DEF w
  <2> QED BY <1>1, <2>1
<1> QED BY <1>3, <1>4

(* The initial state satisfies the invariant. *)
LEMMA SemInitInv == SemInit => SemInv
<1> SUFFICES ASSUME SemInit PROVE SemInv
  OBVIOUS
<1> USE Names, SemNames
<1>1. ThreadsInv /\ ThreadsInit /\ value = Initial /\ waits_on = [t \in Thread |-> NULL]
  BY ThreadsInitInv DEF SemInit
<1>2. \A t \in Thread : q.in_list[t] = NULL
  BY <1>1 DEF ThreadsInit, ThreadsStart
<1>3. Waiting
  BY <1>1, <1>2 DEF Waiting
<1>4. UnitsCovered
  BY <1>2 DEF UnitsCovered, Listed
<1>5. value \in [Sem -> 0 .. MaxValue]
  BY <1>1, SemaphoresAssumption
<1> QED BY <1>1, <1>3, <1>4, <1>5 DEF SemInv

(* A step of the scheduler: neither waiters nor woken threads change. *)
LEMMA ThreadsStepSem ==
  ASSUME SemInv, ThreadsNext, UNCHANGED semVars
  PROVE  SemInv'
<1> USE Names, SemNames
<1>1. ThreadsInv' /\ value' = value /\ waits_on' = waits_on
  BY ThreadsNextInv DEF SemInv, semVars
<1>2. /\ value \in [Sem -> 0 .. MaxValue] /\ waits_on \in [Thread -> Sem \cup {NULL}]
      /\ Waiting /\ UnitsCovered /\ Live \subseteq Thread
  BY LiveFinite DEF SemInv
<1>3. /\ current \in Live /\ pc[current] \in {"user", "join", "join_all"}
      /\ \A t \in Live \ {current} :
           /\ t \in Live' /\ pc'[t] = pc[t]
           /\ q.in_list[t] \in WaitList => q'.in_list[t] = q.in_list[t]
           /\ q.in_list[t] = ready_list => q'.in_list[t] \in {ready_list, NULL}
      /\ \A t \in Thread :
           q'.in_list[t] \in WaitList => t \in Live \ {current} /\ q'.in_list[t] = q.in_list[t]
  BY ThreadsFrame DEF SemInv
<1>4. ASSUME NEW t \in Thread, waits_on[t] # NULL
      PROVE  t \in Live \ {current} /\ pc'[t] = pc[t] /\ t \in Live'
  BY <1>2, <1>3, <1>4 DEF Waiting
<1>5. q.in_list \in [Thread -> ListId \cup {NULL}] /\ Scheduled
  BY SoundLists DEF SemInv, ThreadsInv
<1>6. ASSUME NEW t \in Thread, waits_on[t] # NULL
      PROVE  /\ q'.in_list[t] \in {waits_on[t], ready_list, NULL}
             /\ q'.in_list[t] = waits_on[t] <=> q.in_list[t] = waits_on[t]
  <2>1. /\ t \in Live \ {current}
        /\ q.in_list[t] = waits_on[t] \/ q.in_list[t] = ready_list
        /\ waits_on[t] \in WaitList
    BY <1>2, <1>4, <1>5, <1>6 DEF Waiting, Scheduled
  <2> QED BY <1>3, <2>1
<1>7. Waiting'
  BY <1>1, <1>2, <1>3, <1>4, <1>6 DEF Waiting
<1>8. \A s \in Sem : Woken(s)' = Woken(s)
  BY <1>1, <1>6 DEF Woken
<1>9. \A s \in Sem : Listed(s)' \subseteq Listed(s)
  BY <1>3 DEF Listed
<1>10. UnitsCovered'
  BY <1>1, <1>2, <1>8, <1>9 DEF UnitsCovered
<1> QED BY <1>1, <1>2, <1>7, <1>10 DEF SemInv

(* One round of sem_down: the thread blocks, or it takes a unit. *)
LEMMA DownInv ==
  ASSUME SemInv, status = "running", NEW s \in Sem, waits_on[current] \in {NULL, s},
         NEW here \in Label \ {"user", "join", "join_all"}, NEW after \in Label,
         Down(s, here, after)
  PROVE  SemInv'
<1> USE Names, SemNames
<1>1. /\ ThreadsInv /\ value \in [Sem -> 0 .. MaxValue]
      /\ waits_on \in [Thread -> Sem \cup {NULL}]
      /\ Waiting /\ UnitsCovered /\ Live \subseteq Thread
      /\ current \in Live /\ current \in Thread /\ q.in_list[current] = NULL
      /\ pc \in [Thread -> Label] /\ q.in_list \in [Thread -> ListId \cup {NULL}]
  BY LiveFinite, SoundLists DEF SemInv, ThreadsInv, Scheduled, FieldsOK
<1>2. CASE value[s] = 0
  <2>1. Block(s, here) /\ waits_on' = [waits_on EXCEPT ![current] = s] /\ value' = value
    BY <1>2 DEF Down
  <2>2. ThreadsInv'
    BY <1>1, <2>1, BlockInv
  <2>3. /\ Live' = Live
        /\ pc' = [pc EXCEPT ![current] = here]
        /\ \A t \in Thread \ {current} :
             \/ q'.in_list[t] = q.in_list[t]
             \/ q.in_list[t] = ready_list /\ q'.in_list[t] = NULL
        /\ q'.in_list[current] = s
    BY <1>1, <2>1, BlockFrame
  <2>4. Waiting'
    <3> SUFFICES ASSUME NEW t \in Thread
                 PROVE  /\ q'.in_list[t] \in Sem => waits_on'[t] = q'.in_list[t]
                        /\ waits_on'[t] # NULL =>
                             /\ t \in Live' /\ pc'[t] \notin {"user", "join", "join_all"}
                             /\ q'.in_list[t] \in {waits_on'[t], ready_list, NULL}
      BY DEF Waiting
    <3>1. CASE t = current
      BY <1>1, <2>1, <2>3, <3>1
    <3>2. CASE t # current
      BY <1>1, <2>1, <2>3, <3>2 DEF Waiting
    <3> QED BY <3>1, <3>2
  <2>5. \A k \in Sem \ {s} : Woken(k)' = Woken(k) /\ Listed(k)' = Listed(k)
    <3> SUFFICES ASSUME NEW k \in Sem \ {s}, NEW t \in Thread
                 PROVE  /\ (waits_on'[t] = k /\ q'.in_list[t] # k)
                              <=> (waits_on[t] = k /\ q.in_list[t] # k)
                        /\ q'.in_list[t] = k <=> q.in_list[t] = k
      BY DEF Woken, Listed
    <3>1. CASE t = current
      BY <1>1, <2>1, <2>3, <3>1
    <3>2. CASE t # current
      BY <1>1, <2>1, <2>3, <3>2
    <3> QED BY <3>1, <3>2
  <2>6. UnitsCovered'
    <3> SUFFICES ASSUME NEW k \in Sem, Listed(k)' # {}
                 PROVE  value'[k] <= Cardinality(Woken(k)')
      BY DEF UnitsCovered
    <3>1. CASE k = s
      <4>1. Cardinality(Woken(k)') \in Nat
        <5>1. Woken(k)' \subseteq Thread
          BY DEF Woken
        <5> QED BY <5>1, ThreadsAssumption, FS_Subset, FS_CardinalityType
      <4>2. value'[k] = 0
        BY <1>2, <2>1, <3>1
      <4> QED BY <4>1, <4>2
    <3>2. CASE k # s
      BY <1>1, <2>1, <2>5, <3>2 DEF UnitsCovered
    <3> QED BY <3>1, <3>2
  <2> QED BY <1>1, <2>1, <2>2, <2>4, <2>6 DEF SemInv
<1>3. CASE value[s] # 0
  <2>1. /\ value' = [value EXCEPT ![s] = @ - 1]
        /\ pc' = [pc EXCEPT ![current] = after]
        /\ waits_on' = [waits_on EXCEPT ![current] = NULL]
        /\ UNCHANGED <<q, current, num_thrs, heap, handle, code, status>>
    BY <1>3 DEF Down
  <2>2. ThreadsInv' /\ Live' = Live
    BY <1>1, <2>1, StayInv DEF Live
  <2>3. value' \in [Sem -> 0 .. MaxValue] /\ value'[s] = value[s] - 1
    BY <1>1, <1>3, <2>1
  <2>4. Waiting'
    <3> SUFFICES ASSUME NEW t \in Thread
                 PROVE  /\ q'.in_list[t] \in Sem => waits_on'[t] = q'.in_list[t]
                        /\ waits_on'[t] # NULL =>
                             /\ t \in Live' /\ pc'[t] \notin {"user", "join", "join_all"}
                             /\ q'.in_list[t] \in {waits_on'[t], ready_list, NULL}
      BY DEF Waiting
    <3>1. CASE t = current
      BY <1>1, <2>1, <3>1
    <3>2. CASE t # current
      BY <1>1, <2>1, <2>2, <3>2 DEF Waiting
    <3> QED BY <3>1, <3>2
  <2>5. /\ \A k \in Sem : Listed(k)' = Listed(k)
        /\ \A k \in Sem \ {s} : Woken(k)' = Woken(k)
        /\ Woken(s)' = Woken(s) \ {current}
    BY <1>1, <2>1 DEF Listed, Woken
  <2>6. Cardinality(Woken(s)') >= Cardinality(Woken(s)) - 1
    <3>1. IsFiniteSet(Woken(s)) /\ Cardinality(Woken(s)) \in Nat
      BY WokenFinite
    <3>2. Cardinality(Woken(s) \ {current}) =
            IF current \in Woken(s) THEN Cardinality(Woken(s)) - 1 ELSE Cardinality(Woken(s))
      BY <3>1, FS_RemoveElement
    <3> QED BY <2>5, <3>1, <3>2
  <2>7. UnitsCovered'
    <3> SUFFICES ASSUME NEW k \in Sem, Listed(k)' # {}
                 PROVE  value'[k] <= Cardinality(Woken(k)')
      BY DEF UnitsCovered
    <3>1. Listed(k) # {} /\ value[k] <= Cardinality(Woken(k))
      BY <1>1, <2>5 DEF UnitsCovered
    <3>2. CASE k = s
      <4>1. Cardinality(Woken(s)) \in Nat
        BY WokenFinite
      <4>2. Cardinality(Woken(s)') \in Nat
        <5>1. Woken(s)' \subseteq Thread
          BY DEF Woken
        <5> QED BY <5>1, ThreadsAssumption, FS_Subset, FS_CardinalityType
      <4>3. value[s] \in Nat /\ value'[s] = value[s] - 1
        BY <1>1, <2>3
      <4> QED BY <2>6, <3>1, <3>2, <4>1, <4>2, <4>3
    <3>3. CASE k # s
      BY <1>1, <2>1, <2>5, <3>1, <3>3
    <3> QED BY <3>2, <3>3
  <2>8. waits_on' \in [Thread -> Sem \cup {NULL}]
    BY <1>1, <2>1
  <2> QED BY <2>2, <2>3, <2>4, <2>7, <2>8 DEF SemInv
<1> QED BY <1>2, <1>3

(* sem_up: one unit more, and one thread more on its way to a unit. *)
LEMMA UpInv ==
  ASSUME SemInv, status = "running", NEW s \in Sem, waits_on[current] = NULL,
         NEW after \in Label, Up(s, after)
  PROVE  SemInv'
<1> USE Names, SemNames
<1>1. /\ ThreadsInv /\ value \in [Sem -> 0 .. MaxValue]
      /\ waits_on \in [Thread -> Sem \cup {NULL}]
      /\ Waiting /\ UnitsCovered /\ Live \subseteq Thread /\ Sound(q)
      /\ current \in Live /\ current \in Thread /\ q.in_list[current] = NULL
      /\ pc \in [Thread -> Label] /\ q.in_list \in [Thread -> ListId \cup {NULL}]
  BY LiveFinite, SoundLists DEF SemInv, ThreadsInv, Scheduled, FieldsOK
<1>2. /\ value[s] < MaxValue /\ value' = [value EXCEPT ![s] = @ + 1]
      /\ pc' = [pc EXCEPT ![current] = after] /\ waits_on' = waits_on
      /\ UNCHANGED <<current, num_thrs, heap, handle, code, status>>
      /\ q' = IF q.list[s] = <<>> THEN q ELSE Move(q, s, ready_list)
      /\ q.list[s] # <<>> => Wake(s)
  BY DEF Up, Wake
<1>3. /\ value' \in [Sem -> 0 .. MaxValue] /\ pc' \in [Thread -> Label]
      /\ value'[s] = value[s] + 1
  <2>1. value[s] \in Nat /\ value[s] + 1 \in 0 .. MaxValue
    BY <1>1, <1>2
  <2> QED BY <1>1, <1>2, <2>1
<1>4. Live' = Live
  BY <1>2 DEF Live
<1>5. CASE q.list[s] = <<>>
  <2>1. q' = q
    BY <1>2, <1>5
  <2>2. ThreadsInv'
    BY <1>1, <1>2, <1>3, <2>1, StayInv
  <2>3. Waiting'
    <3>1. \A t \in Thread : waits_on[t] # NULL => pc'[t] = pc[t]
      BY <1>1, <1>2
    <3> QED BY <1>1, <1>2, <1>4, <2>1, <3>1 DEF Waiting
  <2>4. /\ \A k \in Sem : Listed(k)' = Listed(k) /\ Woken(k)' = Woken(k)
        /\ Listed(s) = {}
    BY <1>1, <1>2, <1>5, <2>1, EmptyList DEF Listed, Woken
  <2>5. UnitsCovered'
    <3> SUFFICES ASSUME NEW k \in Sem, Listed(k)' # {}
                 PROVE  value'[k] <= Cardinality(Woken(k)')
      BY DEF UnitsCovered
    <3>1. k # s /\ value'[k] = value[k]
      BY <1>1, <1>2, <2>4
    <3> QED BY <1>1, <2>4, <3>1 DEF UnitsCovered
  <2> QED BY <1>1, <1>2, <1>3, <2>2, <2>3, <2>5 DEF SemInv
<1>6. CASE q.list[s] # <<>>
  <2> DEFINE w == Head(q.list[s])
  <2>1. /\ w \in Thread /\ q.in_list[w] = s
        /\ q'.in_list = [q.in_list EXCEPT ![w] = ready_list]
    BY <1>1, <1>2, <1>6, MoveSound
  <2>2. ThreadsInv'
    BY <1>1, <1>2, <1>3, <1>6, WakeInv
  <2> HIDE DEF w
  <2>3. waits_on[w] = s /\ w # current
    BY <1>1, <2>1 DEF Waiting
  <2>4. Waiting'
    <3>1. \A t \in Thread : waits_on[t] # NULL => pc'[t] = pc[t]
      BY <1>1, <1>2
    <3>2. \A t \in Thread : q'.in_list[t] = IF t = w THEN ready_list ELSE q.in_list[t]
      BY <1>1, <2>1
    <3> QED BY <1>1, <1>2, <1>4, <3>1, <3>2 DEF Waiting
  <2>5. /\ \A k \in Sem : Listed(k)' \subseteq Listed(k)
        /\ \A k \in Sem \ {s} : Woken(k)' = Woken(k)
        /\ Woken(s)' = Woken(s) \cup {w} /\ w \notin Woken(s)
    BY <1>1, <1>2, <2>1, <2>3 DEF Listed, Woken
  <2>6. Cardinality(Woken(s)') = Cardinality(Woken(s)) + 1
    <3>1. IsFiniteSet(Woken(s)) /\ Cardinality(Woken(s)) \in Nat
      BY WokenFinite
    <3> QED BY <2>5, <3>1, FS_AddElement
  <2>7. UnitsCovered'
    <3> SUFFICES ASSUME NEW k \in Sem, Listed(k)' # {}
                 PROVE  value'[k] <= Cardinality(Woken(k)')
      BY DEF UnitsCovered
    <3>1. value[k] <= Cardinality(Woken(k))
      BY <1>1, <2>5 DEF UnitsCovered
    <3>2. CASE k = s
      <4>1. Cardinality(Woken(s)) \in Nat /\ value[s] \in Nat
        BY <1>1, WokenFinite
      <4> QED BY <1>3, <2>6, <3>1, <3>2, <4>1
    <3>3. CASE k # s
      BY <1>1, <1>2, <2>5, <3>1, <3>3
    <3> QED BY <3>2, <3>3
  <2> QED BY <1>1, <1>2, <1>3, <2>2, <2>4, <2>7 DEF SemInv
<1> QED BY <1>5, <1>6

(* sem_try_down: a unit fewer and nothing else, or nothing at all. *)
LEMMA TryDownInv ==
  ASSUME SemInv, NEW s \in Sem, sem_try_down(s)
  PROVE  SemInv'
<1> USE Names, SemNames
<1>1. /\ value \in [Sem -> 0 .. MaxValue] /\ UnitsCovered
      /\ waits_on \in [Thread -> Sem \cup {NULL}] /\ Waiting
      /\ pc \in [Thread -> Label] /\ ThreadsInv
  BY DEF SemInv, ThreadsInv, FieldsOK
<1>2. /\ value' = value \/ (value[s] > 0 /\ value' = [value EXCEPT ![s] = @ - 1])
      /\ UNCHANGED <<q, current, num_thrs, heap, handle, code, pc, status>>
      /\ waits_on' = waits_on
  BY DEF sem_try_down, threadVars
<1>3. ThreadsInv' /\ Live' = Live
  BY <1>1, <1>2, StayInv DEF Live
<1>4. value' \in [Sem -> 0 .. MaxValue] /\ \A k \in Sem : value'[k] <= value[k]
  BY <1>1, <1>2
<1>5. Waiting'
  BY <1>1, <1>2, <1>3 DEF Waiting
<1>6. \A k \in Sem : Listed(k)' = Listed(k) /\ Woken(k)' = Woken(k)
  BY <1>2 DEF Listed, Woken
<1>7. UnitsCovered'
  <2> SUFFICES ASSUME NEW k \in Sem, Listed(k)' # {}
               PROVE  value'[k] <= Cardinality(Woken(k)')
    BY DEF UnitsCovered
  <2>1. value[k] <= Cardinality(Woken(k)) /\ Cardinality(Woken(k)) \in Nat
    BY <1>1, <1>6, WokenFinite DEF UnitsCovered
  <2>2. value[k] \in Nat /\ value'[k] \in Nat
    BY <1>1, <1>4
  <2> QED BY <1>4, <1>6, <2>1, <2>2
<1> QED BY <1>1, <1>2, <1>3, <1>4, <1>5, <1>7 DEF SemInv

(* A thread in sem_down is in sem_down of some semaphore. *)
InSemDown == \A t \in Thread : pc[t] = "sem_down" => waits_on[t] # NULL

(* Every step keeps it. *)
LEMMA InSemDownStep ==
  ASSUME SemInv, InSemDown, [SemNext]_<<threadVars, semVars>>
  PROVE  InSemDown'
<1>1. /\ waits_on \in [Thread -> Sem \cup {NULL}] /\ current \in Thread
      /\ pc \in [Thread -> Label] /\ NULL \notin Sem
  BY SemNames DEF SemInv, ThreadsInv, FieldsOK
<1>2. ASSUME NEW t \in Thread, NEW label, label # "sem_down",
             waits_on' = waits_on, pc' = [pc EXCEPT ![t] = label]
      PROVE  InSemDown'
  BY <1>1, <1>2 DEF InSemDown
<1>3. ASSUME waits_on' = waits_on, pc' = pc PROVE InSemDown'
  BY <1>3 DEF InSemDown
<1>4. CASE ThreadsNext /\ UNCHANGED semVars
  <2>1. pc' = pc \/ \E t \in Thread, label \in {"user", "join", "join_all"} :
                      pc' = [pc EXCEPT ![t] = label]
    BY <1>1, <1>4, ThreadsPc
  <2> QED BY <1>2, <1>3, <1>4, <2>1 DEF semVars
<1>5. ASSUME NEW s \in Sem, Down(s, "sem_down", "user") PROVE InSemDown'
  <2>1. \/ waits_on' = [waits_on EXCEPT ![current] = s] /\ pc' = [pc EXCEPT ![current] = "sem_down"]
        \/ waits_on' = [waits_on EXCEPT ![current] = NULL] /\ pc' = [pc EXCEPT ![current] = "user"]
    BY <1>5 DEF Down, Block
  <2> QED BY <1>1, <2>1 DEF InSemDown
<1>6. CASE sem_down_resume
  <2>1. waits_on[current] \in Sem
    BY <1>1, <1>6 DEF sem_down_resume, At, InSemDown
  <2> QED BY <1>5, <1>6, <2>1 DEF sem_down_resume
<1>7. CASE (\E s \in Sem : sem_down(s)) \/ (\E s \in Sem : sem_try_down(s))
           \/ (\E s \in Sem : sem_up(s))
  BY <1>1, <1>2, <1>3, <1>5, <1>7 DEF sem_down, sem_try_down, sem_up, Up, threadVars
<1>8. CASE UNCHANGED <<threadVars, semVars>>
  BY <1>3, <1>8 DEF threadVars, semVars
<1> QED BY <1>4, <1>6, <1>7, <1>8 DEF SemNext

(* A step that leaves the variables alone. *)
LEMMA SemStutterInv ==
  ASSUME SemInv, UNCHANGED <<threadVars, semVars>>
  PROVE  SemInv'
<1>1. /\ UNCHANGED <<q, current, num_thrs, heap, handle, code, pc, status>>
      /\ value' = value /\ waits_on' = waits_on
  BY DEF threadVars, semVars
<1>2. ThreadsInv' /\ Live' = Live
  BY <1>1, StayInv DEF SemInv, ThreadsInv, FieldsOK, Live
<1>3. Waiting' /\ UnitsCovered'
  BY <1>1, <1>2 DEF SemInv, Waiting, UnitsCovered, Listed, Woken
<1> QED BY <1>1, <1>2, <1>3 DEF SemInv

(* Every step of the semaphores keeps the invariant. *)
LEMMA SemNextInv ==
  ASSUME SemInv, InSemDown, [SemNext]_<<threadVars, semVars>>
  PROVE  SemInv'
<1> USE SemNames
<1>1. /\ waits_on \in [Thread -> Sem \cup {NULL}] /\ Waiting /\ current \in Thread
      /\ pc \in [Thread -> Label] /\ ThreadsInv
  BY DEF SemInv, ThreadsInv, FieldsOK
<1>2. {"user", "sem_down"} \subseteq Label
  BY DEF Label
<1>3. CASE ThreadsNext /\ UNCHANGED semVars
  BY <1>3, ThreadsStepSem
<1>4. ASSUME NEW s \in Sem, sem_down(s) PROVE SemInv'
  <2>1. status = "running" /\ pc[current] = "user" /\ Down(s, "sem_down", "user")
    BY <1>4 DEF sem_down, At
  <2>2. waits_on[current] = NULL
    BY <1>1, <2>1 DEF Waiting
  <2>3. "sem_down" \in Label \ {"user", "join", "join_all"}
    BY <1>2
  <2> QED BY <1>2, <2>1, <2>2, <2>3, DownInv
<1>5. CASE sem_down_resume
  <2>1. status = "running" /\ pc[current] = "sem_down"
        /\ Down(waits_on[current], "sem_down", "user")
    BY <1>5 DEF sem_down_resume, At
  <2>2. "sem_down" \in Label \ {"user", "join", "join_all"}
    BY <1>2
  <2>3. waits_on[current] \in Sem
    BY <1>1, <2>1 DEF InSemDown
  <2> QED BY <1>2, <2>1, <2>2, <2>3, DownInv
<1>6. ASSUME NEW s \in Sem, sem_try_down(s) PROVE SemInv'
  BY <1>6, TryDownInv
<1>7. ASSUME NEW s \in Sem, sem_up(s) PROVE SemInv'
  <2>1. status = "running" /\ pc[current] = "user" /\ Up(s, "user")
    BY <1>7 DEF sem_up, At
  <2>2. waits_on[current] = NULL
    BY <1>1, <2>1 DEF Waiting
  <2> QED BY <1>2, <2>1, <2>2, UpInv
<1>8. CASE UNCHANGED <<threadVars, semVars>>
  BY <1>8, SemStutterInv
<1> QED BY <1>3, <1>4, <1>5, <1>6, <1>7, <1>8 DEF SemNext

(* The invariant holds throughout. *)
THEOREM SemInvariantHolds == SemSpec => [](SemInv /\ InSemDown)
<1>1. SemInit => InSemDown
  BY DEF SemInit, ThreadsInit, ThreadsStart, InSemDown
<1>2. SemInv /\ InSemDown /\ [SemNext]_<<threadVars, semVars>> => SemInv' /\ InSemDown'
  BY SemNextInv, InSemDownStep
<1> QED BY SemInitInv, <1>1, <1>2, PTL DEF SemSpec

---------------------------------------------------------------------------
(* What the invariant says about semaphores. *)

(* What the invariant implies: the properties the runs check. *)
LEMMA SemConsequences ==
  ASSUME SemInv
  PROVE  SemTypeOK /\ NoLostWakeup /\ StuckMeansNothingAvailable
<1> USE Names, SemNames
<1>1. /\ ThreadsInv /\ Sound(q) /\ value \in [Sem -> 0 .. MaxValue]
      /\ waits_on \in [Thread -> Sem \cup {NULL}]
      /\ Waiting /\ UnitsCovered /\ Scheduled /\ Placed
      /\ q.in_list \in [Thread -> ListId \cup {NULL}] /\ Live \subseteq Thread
  BY SoundLists, LiveFinite DEF SemInv, ThreadsInv
<1>2. SemTypeOK
  BY <1>1, InvConsequences DEF SemTypeOK
<1>3. NoLostWakeup
  BY <1>1, EmptyList DEF NoLostWakeup, UnitsCovered, Listed
<1>4. StuckMeansNothingAvailable
  <2> SUFFICES ASSUME status = "stuck", NEW t \in Live
               PROVE  \/ q.in_list[t] \in Sem /\ value[q.in_list[t]] = 0
                      \/ q.in_list[t] \in Live \ {t}
                      \/ q.in_list[t] = join_list /\ Live # {t}
    BY DEF StuckMeansNothingAvailable
  <2>1. q.in_list[t] \in (Live \ {t}) \cup WaitList \/ (q.in_list[t] = join_list /\ Live # {t})
    BY <1>1, InvConsequences DEF StuckOnlyInDeadlock
  <2>2. ASSUME NEW s \in Sem, q.in_list[t] = s PROVE value[s] = 0
    <3>1. Woken(s) = {}
      <4> SUFFICES ASSUME NEW u \in Thread, waits_on[u] = s, q.in_list[u] # s PROVE FALSE
        BY DEF Woken
      <4>1. u \in Live /\ q.in_list[u] \in {ready_list, NULL}
        BY <1>1 DEF Waiting
      <4> QED BY <1>1, <4>1 DEF Scheduled, Listed
    <3>2. value[s] <= Cardinality(Woken(s))
      BY <1>1, <2>2 DEF UnitsCovered, Listed
    <3>3. Cardinality({}) = 0 /\ value[s] \in Nat
      BY <1>1, FS_EmptySet
    <3> QED BY <3>1, <3>2, <3>3
  <2> QED BY <2>1, <2>2
<1> QED BY <1>2, <1>3, <1>4

(* Every variable keeps its type; in particular value never goes below 0,  *)
(* whoever takes the units in whatever order.                              *)
THEOREM SemTypes == SemSpec => []SemTypeOK
BY SemInvariantHolds, SemConsequences, PTL

(* put and get never fail an ASSERT when semaphores move threads, too. *)
THEOREM SemAssertsHold == SemSpec => []AssertsHold
<1>1. SemInv => AssertsHold
  BY InvConsequences DEF SemInv
<1> QED BY <1>1, SemInvariantHolds, PTL

(* For every unit a waiting thread could have, one has been made ready. *)
THEOREM SemNoLostWakeup == SemSpec => []NoLostWakeup
BY SemInvariantHolds, SemConsequences, PTL

(* The program stops only when nothing anyone waits for is to be had. *)
THEOREM SemStuckMeansNothingAvailable == SemSpec => []StuckMeansNothingAvailable
BY SemInvariantHolds, SemConsequences, PTL
============================================================================
