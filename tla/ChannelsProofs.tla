-------------------------- MODULE ChannelsProofs ---------------------------
(***************************************************************************)
(* Proofs about Channels: a channel carries one message at a time for any  *)
(* number of senders and receivers; and with one sender at a time on each  *)
(* channel the frames stay alive and the channel implements Rendezvous.    *)
(***************************************************************************)
EXTENDS Channels, SemaphoresProofs

---------------------------------------------------------------------------
(* The inductive invariant for any number of senders. *)

ChanLabel == {"user", "join", "join_all", "send_down", "send_post", "send_sync",
              "recv_down", "recv_copy", "recv_up"}

(* Which call a thread is in, on what, and which semaphore it waits on. *)
Calls ==
  \A t \in Thread :
    /\ pc[t] \in ChanLabel
    /\ pc[t] \notin {"user", "join", "join_all"} => t \in Live /\ chan[t] \in Chan
    /\ waits_on[t] # NULL =>
         \/ pc[t] = "send_down" /\ waits_on[t] = send[chan[t]]
         \/ pc[t] = "send_sync" /\ waits_on[t] = sync[chan[t]]
         \/ pc[t] = "recv_down" /\ waits_on[t] = recv[chan[t]]
    /\ pc[t] \in {"send_down", "recv_down"} => waits_on[t] # NULL

(* The threads that have the right to use c in their hands. *)
Users(c) == Reached(c, {"send_post", "recv_copy", "recv_up"})

(* The invariant without the part of the semaphores. *)
ChanCore ==
  /\ ptr \in [Chan -> Thread \cup {NULL}]
  /\ chan \in [Thread -> Chan \cup {NULL}]
  /\ size \in [Thread -> Size]
  /\ received \in [Thread -> Size \cup {NULL}]
  /\ Calls
  /\ OneMessage

ChanInv == SemInv /\ ChanCore

(* The semaphores of the channels are distinct. *)
LEMMA ChanNames ==
  /\ NULL \notin Chan
  /\ \A c \in Chan : send[c] \in Sem /\ recv[c] \in Sem /\ sync[c] \in Sem
  /\ \A c, d \in Chan : send[c] # recv[d] /\ send[c] # sync[d] /\ recv[c] # sync[d]
  /\ \A c, d \in Chan :
       c # d => send[c] # send[d] /\ recv[c] # recv[d] /\ sync[c] # sync[d]
  /\ \A c \in Chan : Initial[send[c]] = 1 /\ Initial[recv[c]] = 0 /\ Initial[sync[c]] = 0
<1>1. /\ NULL \notin Chan
      /\ send \in [Chan -> Sem] /\ recv \in [Chan -> Sem] /\ sync \in [Chan -> Sem]
      /\ \A c, d \in Chan :
           /\ {send[c]} \cap {recv[d], sync[d]} = {} /\ recv[c] # sync[d]
           /\ c # d => send[c] # send[d] /\ recv[c] # recv[d] /\ sync[c] # sync[d]
      /\ \A c \in Chan : Initial[send[c]] = 1 /\ Initial[recv[c]] = 0
                                              /\ Initial[sync[c]] = 0
  BY ChannelsAssumption
<1> QED BY <1>1

(* Sizes are numbers and no size is NULL. *)
LEMMA SizeNames == Size \subseteq Nat /\ NULL \notin Size /\ 0 \in Size
BY ChannelsAssumption DEF Size

(* What the invariant says about the thread that runs. *)
LEMMA ChanState ==
  ASSUME ChanInv
  PROVE  /\ ThreadsInv /\ SemInv /\ Waiting
         /\ value \in [Sem -> 0 .. MaxValue] /\ waits_on \in [Thread -> Sem \cup {NULL}]
         /\ pc \in [Thread -> Label] /\ current \in Thread /\ Live \subseteq Thread
         /\ status = "running" => current \in Live
         /\ ptr \in [Chan -> Thread \cup {NULL}]
         /\ chan \in [Thread -> Chan \cup {NULL}]
         /\ size \in [Thread -> Size]
         /\ received \in [Thread -> Size \cup {NULL}]
         /\ Calls /\ OneMessage
BY LiveFinite DEF ChanInv, ChanCore, SemInv, ThreadsInv, Scheduled, FieldsOK

(* The users of a channel can be counted. *)
LEMMA UsersFinite ==
  ASSUME NEW c
  PROVE  IsFiniteSet(Users(c)) /\ Cardinality(Users(c)) \in Nat
<1>1. Users(c) \subseteq Thread
  BY DEF Users, Reached
<1> QED BY <1>1, ThreadsAssumption, FS_Subset, FS_CardinalityType

(* How a step of the thread t changes the number of users. *)
LEMMA UsersStep ==
  ASSUME pc \in [Thread -> Label], chan \in [Thread -> Chan \cup {NULL}],
         NEW t \in Thread, NEW label, NEW d, NEW c,
         pc' = [pc EXCEPT ![t] = label], chan' = [chan EXCEPT ![t] = d]
  PROVE  Cardinality(Users(c)') =
           Cardinality(Users(c))
             - (IF t \in Users(c) THEN 1 ELSE 0)
             + (IF d = c /\ label \in {"send_post", "recv_copy", "recv_up"} THEN 1 ELSE 0)
<1> DEFINE rest == Users(c) \ {t}
<1>1. IsFiniteSet(Users(c)) /\ Cardinality(Users(c)) \in Nat
  BY UsersFinite
<1>2. /\ IsFiniteSet(rest)
      /\ Cardinality(rest) = Cardinality(Users(c)) - (IF t \in Users(c) THEN 1 ELSE 0)
  BY <1>1, FS_RemoveElement
<1>3. Cardinality(rest) \in Nat
  BY <1>2, FS_CardinalityType
<1>4. Users(c)' = IF d = c /\ label \in {"send_post", "recv_copy", "recv_up"}
                  THEN rest \cup {t} ELSE rest
  BY DEF Users, Reached
<1>5. Cardinality(rest \cup {t}) = Cardinality(rest) + 1
  BY <1>2, FS_AddElement
<1> HIDE DEF rest
<1> QED BY <1>1, <1>2, <1>3, <1>4, <1>5

(* The initial state satisfies the invariant. *)
LEMMA ChanInitInv == ChanInit => ChanInv
<1> SUFFICES ASSUME ChanInit PROVE ChanInv
  OBVIOUS
<1> USE Names, SemNames, ChanNames, SizeNames
<1>1. /\ SemInv /\ value = Initial /\ waits_on = [t \in Thread |-> NULL]
      /\ pc = [t \in Thread |-> "user"]
      /\ ptr = [c \in Chan |-> NULL] /\ chan = [t \in Thread |-> NULL]
      /\ size = [t \in Thread |-> 0] /\ received = [t \in Thread |-> NULL]
  BY SemInitInv DEF ChanInit, SemInit, ThreadsInit, ThreadsStart
<1>2. Calls
  BY <1>1 DEF Calls, ChanLabel
<1>3. OneMessage
  <2> SUFFICES ASSUME NEW c \in Chan
               PROVE  value[send[c]] + value[recv[c]] + Cardinality(Users(c)) = 1
    BY DEF OneMessage, Users
  <2>1. Users(c) = {}
    BY <1>1 DEF Users, Reached
  <2>2. value[send[c]] = 1 /\ value[recv[c]] = 0
    BY <1>1
  <2>3. Cardinality({}) = 0
    BY FS_EmptySet
  <2> QED BY <2>1, <2>2, <2>3
<1> QED BY <1>1, <1>2, <1>3 DEF ChanInv, ChanCore

---------------------------------------------------------------------------
(* One lemma per kind of step. *)

(* sem_down on send or recv: the thread blocks, or takes the right to use  *)
(* the channel.                                                            *)
LEMMA ClaimInv ==
  ASSUME ChanInv, status = "running", NEW c \in Chan, NEW s, NEW here, NEW label,
         \/ s = send[c] /\ here = "send_down" /\ label = "send_post"
         \/ s = recv[c] /\ here = "recv_down" /\ label = "recv_copy",
         pc[current] \in {"user", here}, waits_on[current] \in {NULL, s},
         Down(s, here, label),
         chan' = [chan EXCEPT ![current] = c],
         size' \in [Thread -> Size], received' \in [Thread -> Size \cup {NULL}],
         UNCHANGED ptr
  PROVE  ChanInv'
<1> USE Names, SemNames, ChanNames
<1>1. /\ SemInv /\ value \in [Sem -> 0 .. MaxValue]
      /\ waits_on \in [Thread -> Sem \cup {NULL}]
      /\ pc \in [Thread -> Label] /\ current \in Thread /\ Live \subseteq Thread
      /\ current \in Live /\ s \in Sem
      /\ ptr \in [Chan -> Thread \cup {NULL}]
      /\ chan \in [Thread -> Chan \cup {NULL}]
      /\ Calls /\ OneMessage
  BY ChanState
<1>2. SemInv'
  <2>1. here \in Label \ {"user", "join", "join_all"} /\ label \in Label
    BY DEF Label
  <2> QED BY <1>1, <2>1, DownInv
<1>3. \A d : current \notin Users(d)
  BY DEF Users, Reached
<1>4. CASE value[s] = 0
  <2>1. /\ Live' = Live /\ value' = value
        /\ waits_on' = [waits_on EXCEPT ![current] = s]
        /\ pc' = [pc EXCEPT ![current] = here]
    BY <1>1, <1>4, DownFrame
  <2>2. Calls'
    BY <1>1, <2>1 DEF Calls, ChanLabel
  <2>3. OneMessage'
    <3> SUFFICES ASSUME NEW d \in Chan
                 PROVE  value'[send[d]] + value'[recv[d]] + Cardinality(Users(d)') = 1
      BY DEF OneMessage, Users
    <3>1. Cardinality(Users(d)') = Cardinality(Users(d))
      <4>1. Cardinality(Users(d)') = Cardinality(Users(d))
              - (IF current \in Users(d) THEN 1 ELSE 0)
              + (IF c = d /\ here \in {"send_post", "recv_copy", "recv_up"} THEN 1 ELSE 0)
        <5>1. /\ pc \in [Thread -> Label] /\ chan \in [Thread -> Chan \cup {NULL}]
              /\ current \in Thread
              /\ pc' = [pc EXCEPT ![current] = here]
              /\ chan' = [chan EXCEPT ![current] = c]
          BY <1>1, <2>1
        <5> QED BY ONLY <5>1, UsersStep
      <4> QED BY <1>3, <4>1, UsersFinite
    <3> QED BY <1>1, <2>1, <3>1 DEF OneMessage, Users
  <2> QED BY <1>1, <1>2, <2>2, <2>3 DEF ChanInv, ChanCore
<1>5. CASE value[s] # 0
  <2>1. /\ Live' = Live /\ value' = [value EXCEPT ![s] = @ - 1]
        /\ waits_on' = [waits_on EXCEPT ![current] = NULL]
        /\ pc' = [pc EXCEPT ![current] = label]
    BY <1>1, <1>5, DownFrame
  <2>2. Calls'
    BY <1>1, <2>1 DEF Calls, ChanLabel
  <2>3. OneMessage'
    <3> SUFFICES ASSUME NEW d \in Chan
                 PROVE  value'[send[d]] + value'[recv[d]] + Cardinality(Users(d)') = 1
      BY DEF OneMessage, Users
    <3>1. Cardinality(Users(d)') = Cardinality(Users(d)) + (IF c = d THEN 1 ELSE 0)
      <4>1. Cardinality(Users(d)') = Cardinality(Users(d))
              - (IF current \in Users(d) THEN 1 ELSE 0)
              + (IF c = d /\ label \in {"send_post", "recv_copy", "recv_up"} THEN 1 ELSE 0)
        <5>1. /\ pc \in [Thread -> Label] /\ chan \in [Thread -> Chan \cup {NULL}]
              /\ current \in Thread
              /\ pc' = [pc EXCEPT ![current] = label]
              /\ chan' = [chan EXCEPT ![current] = c]
          BY <1>1, <2>1
        <5> QED BY ONLY <5>1, UsersStep
      <4> QED BY <1>3, <4>1, UsersFinite
    <3>2. value[send[d]] + value[recv[d]] + Cardinality(Users(d)) = 1
      BY <1>1 DEF OneMessage, Users
    <3>3. value'[send[d]] + value'[recv[d]] =
            value[send[d]] + value[recv[d]] - (IF c = d THEN 1 ELSE 0)
      BY <1>1, <2>1
    <3>4. /\ Cardinality(Users(d)) \in Nat
          /\ value[send[d]] \in Nat /\ value[recv[d]] \in Nat
      BY <1>1, UsersFinite
    <3> QED BY <1>1, <3>1, <3>2, <3>3, <3>4
  <2> QED BY <1>1, <1>2, <2>2, <2>3 DEF ChanInv, ChanCore
<1> QED BY <1>4, <1>5

(* sem_up by a thread that uses the channel: the sender hands the right to *)
(* use it on to recv, the receiver keeps it over sync and gives it back to *)
(* send.                                                                   *)
LEMMA HandOnInv ==
  ASSUME ChanInv, status = "running", NEW c \in Chan, chan[current] = c,
         NEW s, NEW label, NEW d \in Chan \cup {NULL},
         \/ /\ s = recv[c] /\ pc[current] = "send_post" /\ label = "send_sync" /\ d = c
         \/ /\ s = sync[c] /\ pc[current] = "recv_copy" /\ label = "recv_up" /\ d = c
         \/ /\ s = send[c] /\ pc[current] = "recv_up" /\ label = "user" /\ d = NULL,
         Up(s, label),
         chan' = [chan EXCEPT ![current] = d],
         ptr' \in [Chan -> Thread \cup {NULL}],
         size' \in [Thread -> Size], received' \in [Thread -> Size \cup {NULL}]
  PROVE  ChanInv'
<1> USE Names, SemNames, ChanNames
<1>1. /\ SemInv /\ value \in [Sem -> 0 .. MaxValue]
      /\ waits_on \in [Thread -> Sem \cup {NULL}]
      /\ pc \in [Thread -> Label] /\ current \in Thread /\ Live \subseteq Thread
      /\ current \in Live /\ s \in Sem
      /\ chan \in [Thread -> Chan \cup {NULL}]
      /\ Calls /\ OneMessage
  BY ChanState
<1>2. SemInv'
  <2>1. waits_on[current] = NULL
    BY <1>1 DEF Calls
  <2>2. label \in Label
    BY DEF Label
  <2> QED BY <1>1, <2>1, <2>2, UpInv
<1>3. /\ Live' = Live /\ value' = [value EXCEPT ![s] = @ + 1]
      /\ pc' = [pc EXCEPT ![current] = label] /\ waits_on' = waits_on
  BY <1>1, UpFrame
<1>4. Calls'
  BY <1>1, <1>3 DEF Calls, ChanLabel
<1>5. OneMessage'
  <2> SUFFICES ASSUME NEW e \in Chan
               PROVE  value'[send[e]] + value'[recv[e]] + Cardinality(Users(e)') = 1
    BY DEF OneMessage, Users
  <2>1. Cardinality(Users(e)') = Cardinality(Users(e))
          - (IF current \in Users(e) THEN 1 ELSE 0)
          + (IF d = e /\ label \in {"send_post", "recv_copy", "recv_up"} THEN 1 ELSE 0)
    <3>1. /\ pc \in [Thread -> Label] /\ chan \in [Thread -> Chan \cup {NULL}]
          /\ current \in Thread
          /\ pc' = [pc EXCEPT ![current] = label] /\ chan' = [chan EXCEPT ![current] = d]
      BY <1>1, <1>3
    <3> QED BY ONLY <3>1, UsersStep
  <2>2. current \in Users(e) <=> e = c
    BY <1>1 DEF Users, Reached
  <2>3. value[send[e]] + value[recv[e]] + Cardinality(Users(e)) = 1
    BY <1>1 DEF OneMessage, Users
  <2>4. value'[send[e]] + value'[recv[e]] =
          value[send[e]] + value[recv[e]] + (IF e = c /\ s # sync[c] THEN 1 ELSE 0)
    BY <1>1, <1>3
  <2>5. /\ Cardinality(Users(e)) \in Nat
        /\ value[send[e]] \in Nat /\ value[recv[e]] \in Nat
    BY <1>1, UsersFinite
  <2>6. Cardinality(Users(e)') =
          Cardinality(Users(e)) - (IF e = c /\ s # sync[c] THEN 1 ELSE 0)
    BY <2>1, <2>2, <2>5
  <2> QED BY <1>1, <2>3, <2>4, <2>5, <2>6
<1> QED BY <1>1, <1>2, <1>4, <1>5 DEF ChanInv, ChanCore

(* The sender waits on sync, or returns. *)
LEMMA SyncInv ==
  ASSUME ChanInv, chan_send_sync
  PROVE  ChanInv'
<1> USE Names, SemNames, ChanNames
<1> DEFINE s == sync[chan[current]]
<1>1. /\ SemInv /\ value \in [Sem -> 0 .. MaxValue]
      /\ waits_on \in [Thread -> Sem \cup {NULL}]
      /\ pc \in [Thread -> Label] /\ current \in Thread /\ Live \subseteq Thread
      /\ status = "running" => current \in Live
      /\ chan \in [Thread -> Chan \cup {NULL}]
      /\ Calls /\ OneMessage /\ ChanCore
  BY ChanState DEF ChanInv
<1>2. /\ status = "running" /\ pc[current] = "send_sync" /\ Down(s, "send_sync", "user")
      /\ chan' = IF value[s] = 0 THEN chan ELSE [chan EXCEPT ![current] = NULL]
      /\ UNCHANGED <<ptr, size, received>>
      /\ chan[current] \in Chan /\ s \in Sem
  BY <1>1 DEF chan_send_sync, Returns, At, Calls
<1>3. \A c \in Chan : s # send[c] /\ s # recv[c]
  BY <1>2
<1> HIDE DEF s
<1>4. SemInv'
  <2>1. waits_on[current] \in {NULL, s}
    BY <1>1, <1>2 DEF Calls, s
  <2>2. "send_sync" \in Label \ {"user", "join", "join_all"} /\ "user" \in Label
    BY DEF Label
  <2> QED BY <1>1, <1>2, <2>1, <2>2, DownInv
<1>5. /\ Live' = Live
      /\ \A c \in Chan : value'[send[c]] = value[send[c]] /\ value'[recv[c]] = value[recv[c]]
      /\ \/ /\ waits_on' = [waits_on EXCEPT ![current] = s]
            /\ pc' = [pc EXCEPT ![current] = "send_sync"]
            /\ chan' = [chan EXCEPT ![current] = chan[current]]
         \/ /\ waits_on' = [waits_on EXCEPT ![current] = NULL]
            /\ pc' = [pc EXCEPT ![current] = "user"]
            /\ chan' = [chan EXCEPT ![current] = NULL]
  <2>1. CASE value[s] = 0
    <3>1. /\ Live' = Live /\ value' = value
          /\ waits_on' = [waits_on EXCEPT ![current] = s]
          /\ pc' = [pc EXCEPT ![current] = "send_sync"]
      BY <1>1, <1>2, <2>1, DownFrame
    <3>2. chan' = [chan EXCEPT ![current] = chan[current]]
      BY <1>1, <1>2, <2>1
    <3> QED BY <3>1, <3>2
  <2>2. CASE value[s] # 0
    <3>1. /\ Live' = Live /\ value' = [value EXCEPT ![s] = @ - 1]
          /\ waits_on' = [waits_on EXCEPT ![current] = NULL]
          /\ pc' = [pc EXCEPT ![current] = "user"]
      BY <1>1, <1>2, <2>2, DownFrame
    <3>2. \A c \in Chan : value'[send[c]] = value[send[c]] /\ value'[recv[c]] = value[recv[c]]
      BY <1>1, <1>3, <3>1
    <3> QED BY <1>2, <2>2, <3>1, <3>2
  <2> QED BY <2>1, <2>2
<1>6. Calls'
  BY <1>1, <1>2, <1>5 DEF Calls, ChanLabel, s
<1>7. OneMessage'
  <2> SUFFICES ASSUME NEW d \in Chan
               PROVE  value'[send[d]] + value'[recv[d]] + Cardinality(Users(d)') = 1
    BY DEF OneMessage, Users
  <2>1. current \notin Users(d)
    BY <1>2 DEF Users, Reached
  <2>2. Cardinality(Users(d)') = Cardinality(Users(d))
    BY <1>1, <1>5, <2>1, UsersStep, UsersFinite
  <2> QED BY <1>1, <1>5, <2>2 DEF OneMessage, Users
<1> QED BY <1>1, <1>2, <1>4, <1>5, <1>6, <1>7 DEF ChanInv, ChanCore

(* A step of the scheduler. *)
LEMMA ThreadsStepChan ==
  ASSUME ChanInv, ThreadsNext, UNCHANGED <<semVars, chanVars>>
  PROVE  /\ ChanInv'
         /\ \A t \in Thread : \/ pc'[t] = pc[t]
                              \/ /\ pc'[t] \in {"user", "join", "join_all"}
                                 /\ pc[t] \in {"user", "join", "join_all"}
<1> USE Names, SemNames, ChanNames
<1>1. /\ ThreadsInv /\ SemInv /\ Waiting /\ pc \in [Thread -> Label]
      /\ current \in Thread /\ Live \subseteq Thread
      /\ waits_on \in [Thread -> Sem \cup {NULL}]
      /\ Calls /\ OneMessage /\ ChanCore
  BY ChanState DEF ChanInv
<1>2. /\ value' = value /\ waits_on' = waits_on
      /\ UNCHANGED <<ptr, chan, size, received>>
  BY DEF semVars, chanVars
<1>3. SemInv' /\ Waiting'
  BY <1>1, ThreadsStepSem DEF SemInv
<1>4. /\ current \in Live /\ pc[current] \in {"user", "join", "join_all"}
      /\ \A t \in Live \ {current} : t \in Live' /\ pc'[t] = pc[t]
  BY <1>1, ThreadsFrame
<1>5. ASSUME NEW t \in Thread
      PROVE  \/ pc'[t] = pc[t]
             \/ /\ pc'[t] \in {"user", "join", "join_all"}
                /\ pc[t] \in {"user", "join", "join_all"}
  <2>1. pc' = pc \/ \E u \in Thread, label \in {"user", "join", "join_all"} :
                      pc' = [pc EXCEPT ![u] = label]
    BY <1>1, ThreadsPc
  <2>2. pc'[t] = pc[t] \/ pc'[t] \in {"user", "join", "join_all"}
    BY <1>1, <2>1
  <2>3. pc[t] \notin {"user", "join", "join_all"} => t \in Live \ {current}
    BY <1>1, <1>4 DEF Calls
  <2> QED BY <1>4, <2>2, <2>3
<1>6. Calls'
  BY <1>1, <1>2, <1>4, <1>5 DEF Calls, ChanLabel
<1>7. OneMessage'
  <2>1. \A c : Users(c)' = Users(c)
    BY <1>2, <1>5 DEF Users, Reached
  <2> QED BY <1>1, <1>2, <2>1 DEF OneMessage, Users
<1> QED BY <1>1, <1>2, <1>3, <1>5, <1>6, <1>7 DEF ChanInv, ChanCore

(* A step that leaves the variables alone. *)
LEMMA ChanStutterInv ==
  ASSUME ChanInv, UNCHANGED allVars
  PROVE  ChanInv'
<1>1. /\ UNCHANGED <<q, current, num_thrs, heap, handle, code, pc, status>>
      /\ UNCHANGED <<value, waits_on, ptr, chan, size, received>>
      /\ UNCHANGED <<threadVars, semVars>>
  BY DEF allVars, threadVars, semVars, chanVars
<1>2. SemInv' /\ Live' = Live
  BY <1>1, SemStutterInv DEF ChanInv, Live
<1>3. Calls' /\ OneMessage'
  BY <1>1, <1>2 DEF ChanInv, ChanCore, Calls, OneMessage, Reached
<1> QED BY <1>1, <1>2, <1>3 DEF ChanInv, ChanCore

(* The smaller of two sizes is a size. *)
LEMMA MinSize ==
  ASSUME NEW m \in Size, NEW n \in Size
  PROVE  Min({m, n}) = (IF m < n THEN m ELSE n) /\ Min({m, n}) \in Size
<1>1. m \in Nat /\ n \in Nat
  BY SizeNames
<1>2. \A x \in {m, n} : (\A y \in {m, n} : x <= y) <=> x = IF m < n THEN m ELSE n
  BY <1>1
<1> QED BY <1>2 DEF Min

(* The copy writes sizes where sizes are, whatever it reads through a      *)
(* pointer into a frame that is gone.                                      *)
LEMMA CopyTypes ==
  ASSUME ChanInv, NEW n \in Size, chan_recv_copy(n)
  PROVE  size' \in [Thread -> Size] /\ received' \in [Thread -> Size \cup {NULL}]
<1> DEFINE s == ptr[chan[current]]
<1>1. /\ size \in [Thread -> Size] /\ received \in [Thread -> Size \cup {NULL}]
      /\ current \in Thread
  BY ChanState
<1>2. \/ /\ size' = [size EXCEPT ![s] = n, ![current] = n]
         /\ received' = [received EXCEPT ![s] = n]
      \/ \E m \in {size[s], n} :
           /\ size' = [size EXCEPT ![s] = m, ![current] = n]
           /\ received' = received
  BY DEF chan_recv_copy
<1> HIDE DEF s
<1>3. CASE s \in Thread
  BY <1>1, <1>2, <1>3
<1>4. CASE s \notin Thread
  <2>1. /\ \A f : f \in [Thread -> Size] => \A x : [f EXCEPT ![s] = x] = f
        /\ [received EXCEPT ![s] = n] = received
    BY <1>1, <1>4
  <2>2. size' = [size EXCEPT ![current] = n]
    BY <1>1, <1>2, <2>1
  <2> QED BY <1>1, <1>2, <2>1, <2>2
<1> QED BY <1>3, <1>4

(* Every step keeps the invariant. *)
LEMMA ChanNextInv ==
  ASSUME ChanInv, [ChanNext]_allVars
  PROVE  ChanInv'
<1> USE Names, SemNames, ChanNames
<1>1. /\ Calls /\ current \in Thread /\ Waiting
      /\ ptr \in [Chan -> Thread \cup {NULL}]
      /\ chan \in [Thread -> Chan \cup {NULL}]
      /\ size \in [Thread -> Size]
      /\ received \in [Thread -> Size \cup {NULL}]
  BY ChanState
<1>2. ASSUME NEW c \in Chan, NEW n \in Size, chan_send(c, n) PROVE ChanInv'
  <2>1. /\ status = "running" /\ pc[current] = "user"
        /\ Down(send[c], "send_down", "send_post")
        /\ chan' = [chan EXCEPT ![current] = c]
        /\ size' = [size EXCEPT ![current] = n]
        /\ received' = [received EXCEPT ![current] = NULL]
        /\ UNCHANGED ptr
    BY <1>2 DEF chan_send, At
  <2>2. waits_on[current] = NULL
    BY <1>1, <2>1 DEF Waiting
  <2>3. size' \in [Thread -> Size] /\ received' \in [Thread -> Size \cup {NULL}]
    BY <1>1, <2>1
  <2> QED BY <2>1, <2>2, <2>3, ClaimInv
<1>3. ASSUME NEW c \in Chan, NEW n \in Size, chan_recv(c, n) PROVE ChanInv'
  <2>1. /\ status = "running" /\ pc[current] = "user"
        /\ Down(recv[c], "recv_down", "recv_copy")
        /\ chan' = [chan EXCEPT ![current] = c]
        /\ size' = [size EXCEPT ![current] = n]
        /\ received' = received /\ UNCHANGED ptr
    BY <1>3 DEF chan_recv, At
  <2>2. waits_on[current] = NULL
    BY <1>1, <2>1 DEF Waiting
  <2>3. size' \in [Thread -> Size] /\ received' \in [Thread -> Size \cup {NULL}]
    BY <1>1, <2>1
  <2> QED BY <2>1, <2>2, <2>3, ClaimInv
<1>4. ASSUME chan_send_resume \/ chan_recv_resume PROVE ChanInv'
  <2>1. /\ status = "running"
        /\ \/ /\ pc[current] = "send_down"
              /\ Down(send[chan[current]], "send_down", "send_post")
           \/ /\ pc[current] = "recv_down"
              /\ Down(recv[chan[current]], "recv_down", "recv_copy")
        /\ UNCHANGED <<ptr, chan, size, received>>
    BY <1>4 DEF chan_send_resume, chan_recv_resume, At, chanVars
  <2>2. /\ chan[current] \in Chan
        /\ pc[current] = "send_down" => waits_on[current] = send[chan[current]]
        /\ pc[current] = "recv_down" => waits_on[current] = recv[chan[current]]
    BY <1>1, <2>1 DEF Calls
  <2>3. /\ chan' = [chan EXCEPT ![current] = chan[current]]
        /\ size' \in [Thread -> Size] /\ received' \in [Thread -> Size \cup {NULL}]
    BY <1>1, <2>1
  <2> QED BY <2>1, <2>2, <2>3, ClaimInv
<1>5. ASSUME chan_send_post PROVE ChanInv'
  <2>1. /\ status = "running" /\ pc[current] = "send_post"
        /\ ptr' = [ptr EXCEPT ![chan[current]] = current]
        /\ Up(recv[chan[current]], "send_sync")
        /\ UNCHANGED <<chan, size, received>>
    BY <1>5 DEF chan_send_post, At
  <2>2. PICK c \in Chan : c = chan[current]
    BY <1>1, <2>1 DEF Calls
  <2>3. /\ ChanInv /\ chan[current] = c /\ c \in Chan \cup {NULL}
        /\ Up(recv[c], "send_sync")
        /\ chan' = [chan EXCEPT ![current] = c]
        /\ ptr' \in [Chan -> Thread \cup {NULL}]
        /\ size' \in [Thread -> Size] /\ received' \in [Thread -> Size \cup {NULL}]
    BY <1>1, <2>1, <2>2
  <2> QED BY ONLY <2>1, <2>2, <2>3, HandOnInv
<1>6. ASSUME NEW n \in Size, chan_recv_copy(n) PROVE ChanInv'
  <2>1. /\ status = "running" /\ pc[current] = "recv_copy"
        /\ Up(sync[chan[current]], "recv_up")
        /\ UNCHANGED <<ptr, chan>>
    BY <1>6 DEF chan_recv_copy, At
  <2>2. PICK c \in Chan : c = chan[current]
    BY <1>1, <2>1 DEF Calls
  <2>3. /\ ChanInv /\ chan[current] = c /\ c \in Chan \cup {NULL}
        /\ Up(sync[c], "recv_up")
        /\ chan' = [chan EXCEPT ![current] = c]
        /\ ptr' \in [Chan -> Thread \cup {NULL}]
        /\ size' \in [Thread -> Size] /\ received' \in [Thread -> Size \cup {NULL}]
    BY <1>1, <1>6, <2>1, <2>2, CopyTypes
  <2> QED BY ONLY <2>1, <2>2, <2>3, HandOnInv
<1>7. ASSUME chan_recv_return PROVE ChanInv'
  <2>1. /\ status = "running" /\ pc[current] = "recv_up"
        /\ Up(send[chan[current]], "user")
        /\ chan' = [chan EXCEPT ![current] = NULL]
        /\ UNCHANGED <<ptr, size, received>>
    BY <1>7 DEF chan_recv_return, Returns, At
  <2>2. chan[current] \in Chan
    BY <1>1, <2>1 DEF Calls
  <2> QED BY <1>1, <2>1, <2>2, HandOnInv
<1> QED BY <1>2, <1>3, <1>4, <1>5, <1>6, <1>7,
          SyncInv, ThreadsStepChan, ChanStutterInv DEF ChanNext

(* The invariant holds throughout, for any number of senders. *)
THEOREM ChanInvariantHolds == ChanSpec => []ChanInv
<1>1. ChanInv /\ [ChanNext]_allVars => ChanInv'
  BY ChanNextInv
<1> QED BY ChanInitInv, <1>1, PTL DEF ChanSpec

(* A channel carries one message at a time, whoever sends and receives.    *)
THEOREM ChanOneMessage == ChanSpec => []OneMessage
<1>1. ChanInv => OneMessage
  BY DEF ChanInv, ChanCore
<1> QED BY <1>1, ChanInvariantHolds, PTL

(* Every variable keeps its type. *)
THEOREM ChanTypes == ChanSpec => []ChanTypeOK
<1>1. ChanInv => ChanTypeOK
  BY SemConsequences DEF ChanInv, ChanCore, ChanTypeOK
<1> QED BY <1>1, ChanInvariantHolds, PTL

(* Channels never make put or get fail an ASSERT. *)
THEOREM ChanAssertsHold == ChanSpec => []AssertsHold
<1>1. ChanInv => AssertsHold
  BY InvConsequences DEF ChanInv, SemInv
<1> QED BY <1>1, ChanInvariantHolds, PTL

---------------------------------------------------------------------------
(* What each step does to the calls, as equations: the right side of a     *)
(* step of ChanNext without the scheduler's lists.                         *)

(* What chan_send() leaves alone, up to its first possible wait. *)
LEMMA SendFrame ==
  ASSUME ChanInv, NEW c \in Chan, NEW n \in Size, chan_send(c, n)
  PROVE  /\ pc[current] = "user" /\ current \in Thread
         /\ \E label \in {"send_down", "send_post"} : pc' = [pc EXCEPT ![current] = label]
         /\ chan' = [chan EXCEPT ![current] = c]
         /\ size' = [size EXCEPT ![current] = n]
         /\ received' = [received EXCEPT ![current] = NULL]
         /\ ptr' = ptr
         /\ \A d \in Chan : value'[recv[d]] = value[recv[d]] /\ value'[sync[d]] = value[sync[d]]
<1> USE ChanNames
<1>1. /\ SemInv /\ value \in [Sem -> 0 .. MaxValue] /\ current \in Thread
  BY ChanState
<1>2. /\ status = "running" /\ pc[current] = "user"
      /\ Down(send[c], "send_down", "send_post")
      /\ chan' = [chan EXCEPT ![current] = c]
      /\ size' = [size EXCEPT ![current] = n]
      /\ received' = [received EXCEPT ![current] = NULL]
      /\ ptr' = ptr
  BY DEF chan_send, At
<1>3. send[c] \in Sem
  OBVIOUS
<1>4. /\ value[send[c]] = 0 => /\ value' = value
                               /\ pc' = [pc EXCEPT ![current] = "send_down"]
      /\ value[send[c]] # 0 => /\ value' = [value EXCEPT ![send[c]] = @ - 1]
                               /\ pc' = [pc EXCEPT ![current] = "send_post"]
  BY <1>1, <1>2, <1>3, DownFrame
<1> QED BY <1>1, <1>2, <1>4

(* The same when the wait for send is over. *)
LEMMA SendResumeFrame ==
  ASSUME ChanInv, chan_send_resume
  PROVE  /\ pc[current] = "send_down" /\ current \in Thread
         /\ \E label \in {"send_down", "send_post"} : pc' = [pc EXCEPT ![current] = label]
         /\ UNCHANGED <<ptr, chan, size, received>>
         /\ \A d \in Chan : value'[recv[d]] = value[recv[d]] /\ value'[sync[d]] = value[sync[d]]
<1> USE ChanNames
<1>1. /\ SemInv /\ value \in [Sem -> 0 .. MaxValue] /\ current \in Thread /\ Calls
  BY ChanState
<1>2. /\ status = "running" /\ pc[current] = "send_down"
      /\ Down(send[chan[current]], "send_down", "send_post")
      /\ UNCHANGED <<ptr, chan, size, received>>
  BY DEF chan_send_resume, At, chanVars
<1>3. PICK c \in Chan : c = chan[current]
  BY <1>1, <1>2 DEF Calls
<1>4. send[c] \in Sem /\ Down(send[c], "send_down", "send_post")
  BY <1>2, <1>3
<1>5. /\ value[send[c]] = 0 => /\ value' = value
                               /\ pc' = [pc EXCEPT ![current] = "send_down"]
      /\ value[send[c]] # 0 => /\ value' = [value EXCEPT ![send[c]] = @ - 1]
                               /\ pc' = [pc EXCEPT ![current] = "send_post"]
  BY <1>1, <1>2, <1>4, DownFrame
<1> QED BY <1>1, <1>2, <1>5

(* The message is posted: ptr and recv of that channel only. *)
LEMMA PostFrame ==
  ASSUME ChanInv, chan_send_post
  PROVE  /\ pc[current] = "send_post" /\ current \in Thread /\ chan[current] \in Chan
         /\ pc' = [pc EXCEPT ![current] = "send_sync"]
         /\ ptr' = [ptr EXCEPT ![chan[current]] = current]
         /\ UNCHANGED <<chan, size, received>>
         /\ \A d \in Chan : /\ value'[sync[d]] = value[sync[d]]
                            /\ d # chan[current] => value'[recv[d]] = value[recv[d]]
<1> USE ChanNames
<1>1. /\ SemInv /\ value \in [Sem -> 0 .. MaxValue] /\ current \in Thread /\ Calls
  BY ChanState
<1>2. /\ pc[current] = "send_post"
      /\ ptr' = [ptr EXCEPT ![chan[current]] = current]
      /\ Up(recv[chan[current]], "send_sync")
      /\ UNCHANGED <<chan, size, received>>
  BY DEF chan_send_post, At
<1>3. PICK c \in Chan : c = chan[current]
  BY <1>1, <1>2 DEF Calls
<1>4. recv[c] \in Sem /\ Up(recv[c], "send_sync")
  BY <1>2, <1>3
<1>5. /\ value' = [value EXCEPT ![recv[c]] = @ + 1]
      /\ pc' = [pc EXCEPT ![current] = "send_sync"]
  BY ONLY <1>1, <1>4, UpFrame
<1> QED BY <1>1, <1>2, <1>3, <1>5

(* The wait for sync ends the send, or goes on. *)
LEMMA SyncFrame ==
  ASSUME ChanInv, chan_send_sync
  PROVE  /\ pc[current] = "send_sync" /\ current \in Thread /\ chan[current] \in Chan
         /\ UNCHANGED <<ptr, size, received>>
         /\ \A d \in Chan : /\ value'[recv[d]] = value[recv[d]]
                            /\ d # chan[current] => value'[sync[d]] = value[sync[d]]
         /\ \/ value' = value /\ pc' = pc /\ chan' = chan
            \/ /\ value[sync[chan[current]]] # 0
               /\ value'[sync[chan[current]]] = value[sync[chan[current]]] - 1
               /\ pc' = [pc EXCEPT ![current] = "user"]
               /\ chan' = [chan EXCEPT ![current] = NULL]
<1> USE ChanNames
<1>1. /\ SemInv /\ value \in [Sem -> 0 .. MaxValue] /\ current \in Thread /\ Calls
      /\ pc \in [Thread -> Label]
  BY ChanState
<1>2. /\ status = "running" /\ pc[current] = "send_sync"
      /\ Down(sync[chan[current]], "send_sync", "user")
      /\ chan' = IF value[sync[chan[current]]] = 0
                 THEN chan ELSE [chan EXCEPT ![current] = NULL]
      /\ UNCHANGED <<ptr, size, received>>
  BY DEF chan_send_sync, Returns, At
<1>3. PICK c \in Chan : c = chan[current]
  BY <1>1, <1>2 DEF Calls
<1>4. sync[c] \in Sem /\ Down(sync[c], "send_sync", "user")
  BY <1>2, <1>3
<1>5. /\ value[sync[c]] = 0 => /\ value' = value
                               /\ pc' = [pc EXCEPT ![current] = "send_sync"]
      /\ value[sync[c]] # 0 => /\ value' = [value EXCEPT ![sync[c]] = @ - 1]
                               /\ pc' = [pc EXCEPT ![current] = "user"]
  BY <1>1, <1>2, <1>4, DownFrame
<1>6. pc' = [pc EXCEPT ![current] = "send_sync"] => pc' = pc
  BY <1>1, <1>2
<1> QED BY <1>1, <1>2, <1>3, <1>5, <1>6

(* chan_recv() up to the copy, or up to its wait for recv. *)
LEMMA RecvFrame ==
  ASSUME ChanInv,
         \/ \E d \in Chan, n \in Size : chan_recv(d, n)
         \/ chan_recv_resume
  PROVE  \E c \in Chan :
           /\ pc[current] \in {"user", "recv_down"} /\ current \in Thread
           /\ chan' = [chan EXCEPT ![current] = c]
           /\ UNCHANGED <<ptr, received>>
           /\ \A t \in Thread \ {current} : size'[t] = size[t]
           /\ \A d \in Chan : /\ value'[sync[d]] = value[sync[d]]
                              /\ d # c => value'[recv[d]] = value[recv[d]]
           /\ \/ /\ pc' = [pc EXCEPT ![current] = "recv_down"]
                 /\ value'[recv[c]] = value[recv[c]]
              \/ /\ pc' = [pc EXCEPT ![current] = "recv_copy"]
                 /\ value[recv[c]] # 0
<1> USE ChanNames
<1>1. /\ SemInv /\ value \in [Sem -> 0 .. MaxValue] /\ current \in Thread /\ Calls
      /\ chan \in [Thread -> Chan \cup {NULL}] /\ size \in [Thread -> Size]
  BY ChanState
<1>2. PICK c \in Chan :
        /\ status = "running" /\ pc[current] \in {"user", "recv_down"}
        /\ Down(recv[c], "recv_down", "recv_copy")
        /\ chan' = [chan EXCEPT ![current] = c]
        /\ \A t \in Thread \ {current} : size'[t] = size[t]
        /\ UNCHANGED <<ptr, received>>
  <2>1. CASE chan_recv_resume
    <3>1. /\ status = "running" /\ pc[current] = "recv_down"
          /\ Down(recv[chan[current]], "recv_down", "recv_copy")
          /\ UNCHANGED <<ptr, chan, size, received>>
      BY <2>1 DEF chan_recv_resume, At, chanVars
    <3>2. chan[current] \in Chan /\ chan' = [chan EXCEPT ![current] = chan[current]]
      BY <1>1, <3>1 DEF Calls
    <3> QED BY <1>1, <3>1, <3>2
  <2>2. CASE \E d \in Chan, n \in Size : chan_recv(d, n)
    BY <1>1, <2>2 DEF chan_recv, At
  <2> QED BY <2>1, <2>2
<1>3. recv[c] \in Sem
  OBVIOUS
<1>4. /\ value[recv[c]] = 0 => /\ value' = value
                               /\ pc' = [pc EXCEPT ![current] = "recv_down"]
      /\ value[recv[c]] # 0 => /\ value' = [value EXCEPT ![recv[c]] = @ - 1]
                               /\ pc' = [pc EXCEPT ![current] = "recv_copy"]
  BY <1>1, <1>2, <1>3, DownFrame
<1>5. \A d \in Chan : /\ value'[sync[d]] = value[sync[d]]
                      /\ d # c => value'[recv[d]] = value[recv[d]]
  BY <1>1, <1>4
<1>6. \/ /\ pc' = [pc EXCEPT ![current] = "recv_down"]
         /\ value'[recv[c]] = value[recv[c]]
      \/ /\ pc' = [pc EXCEPT ![current] = "recv_copy"]
         /\ value[recv[c]] # 0
  BY <1>4
<1> QED BY <1>1, <1>2, <1>5, <1>6

(* The copy: sync of that channel is raised. *)
LEMMA CopyFrame ==
  ASSUME ChanInv, NEW n \in Size, chan_recv_copy(n)
  PROVE  /\ pc[current] = "recv_copy" /\ current \in Thread /\ chan[current] \in Chan
         /\ pc' = [pc EXCEPT ![current] = "recv_up"]
         /\ UNCHANGED <<ptr, chan>>
         /\ \A d \in Chan : value'[recv[d]] = value[recv[d]]
         /\ \A d \in Chan : value'[sync[d]] =
              value[sync[d]] + (IF d = chan[current] THEN 1 ELSE 0)
<1> USE ChanNames
<1>1. /\ SemInv /\ value \in [Sem -> 0 .. MaxValue] /\ current \in Thread /\ Calls
  BY ChanState
<1>2. /\ pc[current] = "recv_copy"
      /\ Up(sync[chan[current]], "recv_up")
      /\ UNCHANGED <<ptr, chan>>
  BY DEF chan_recv_copy, At
<1>3. PICK c \in Chan : c = chan[current]
  BY <1>1, <1>2 DEF Calls
<1>4. sync[c] \in Sem /\ Up(sync[c], "recv_up")
  BY <1>2, <1>3
<1>5. /\ value' = [value EXCEPT ![sync[c]] = @ + 1]
      /\ pc' = [pc EXCEPT ![current] = "recv_up"]
  BY ONLY <1>1, <1>4, UpFrame
<1> QED BY <1>1, <1>2, <1>3, <1>5

(* The return of chan_recv(). *)
LEMMA ReturnFrame ==
  ASSUME ChanInv, chan_recv_return
  PROVE  /\ pc[current] = "recv_up" /\ current \in Thread
         /\ pc' = [pc EXCEPT ![current] = "user"]
         /\ chan' = [chan EXCEPT ![current] = NULL]
         /\ UNCHANGED <<ptr, size, received>>
         /\ \A d \in Chan : value'[recv[d]] = value[recv[d]] /\ value'[sync[d]] = value[sync[d]]
<1> USE ChanNames
<1>1. /\ SemInv /\ value \in [Sem -> 0 .. MaxValue] /\ current \in Thread /\ Calls
  BY ChanState
<1>2. /\ pc[current] = "recv_up"
      /\ Up(send[chan[current]], "user")
      /\ chan' = [chan EXCEPT ![current] = NULL]
      /\ UNCHANGED <<ptr, size, received>>
  BY DEF chan_recv_return, Returns, At
<1>3. PICK c \in Chan : c = chan[current]
  BY <1>1, <1>2 DEF Calls
<1>4. send[c] \in Sem /\ Up(send[c], "user")
  BY <1>2, <1>3
<1>5. /\ value' = [value EXCEPT ![send[c]] = @ + 1]
      /\ pc' = [pc EXCEPT ![current] = "user"]
  BY ONLY <1>1, <1>4, UpFrame
<1> QED BY <1>1, <1>2, <1>5

(* A thread that uses the channel is alone with it, and no message is      *)
(* posted meanwhile.                                                       *)
LEMMA OneUser ==
  ASSUME ChanInv, NEW c \in Chan, NEW t \in Users(c)
  PROVE  /\ value[recv[c]] = 0 /\ value[send[c]] = 0
         /\ \A u \in Users(c) : u = t
<1> USE ChanNames
<1>1. /\ value[send[c]] \in Nat /\ value[recv[c]] \in Nat
      /\ value[send[c]] + value[recv[c]] + Cardinality(Users(c)) = 1
  BY ChanState DEF OneMessage, Users
<1>2. IsFiniteSet(Users(c)) /\ Cardinality(Users(c)) \in Nat
  BY UsersFinite
<1>3. /\ IsFiniteSet(Users(c) \ {t})
      /\ Cardinality(Users(c) \ {t}) = Cardinality(Users(c)) - 1
  BY <1>2, FS_RemoveElement
<1>4. Cardinality(Users(c) \ {t}) \in Nat
  BY <1>3, FS_CardinalityType
<1>5. Cardinality(Users(c) \ {t}) = 0 /\ value[send[c]] = 0 /\ value[recv[c]] = 0
  BY <1>1, <1>2, <1>3, <1>4
<1>6. Users(c) \ {t} = {}
  BY <1>3, <1>5, FS_EmptySet
<1> QED BY <1>5, <1>6

---------------------------------------------------------------------------
(* One sender at a time on each channel.                                   *)
(* OneMessage is not enough here: sync does not say for whom a unit is, so *)
(* the invariant has to tie its value to the sender whose message has been *)
(* copied.                                                                 *)

(* The premise of FramesAlive: a receiver follows the pointers of c now,   *)
(* or may when it runs.                                                    *)
Posted(c) == value[recv[c]] = 1 \/ Reached(c, {"recv_copy"}) # {}

OneSender ==
  \A t, u \in Thread : InSend(t) /\ InSend(u) /\ chan[t] = chan[u] => t = u

(* Nobody takes a message that has not been posted yet. *)
Fresh == \A t \in Thread : pc[t] \in {"send_down", "send_post"} => received[t] = NULL

(* A unit of sync is for a sender whose message has been copied, and each  *)
(* such sender that has not returned yet has one.                          *)
SyncAfterCopy ==
  \A c \in Chan :
    /\ value[sync[c]] \in {0, 1}
    /\ value[sync[c]] = 1 <=>
         \E t \in Thread : pc[t] = "send_sync" /\ chan[t] = c /\ received[t] # NULL

SoleCore == OneSender /\ Fresh /\ SyncAfterCopy /\ FramesAlive

SoleInv == ChanInv /\ SoleCore

(* The rule the clients keep: no send begins on a channel while another    *)
(* thread is in chan_send on it.  With SoleSender it is a guard of         *)
(* chan_send; a client can also be proved to keep it.                      *)
SendsAlone ==
  \A c \in Chan, n \in Size :
    chan_send(c, n) => \A t \in Thread : ~(InSend(t) /\ chan[t] = c)

(* SoleSender makes the clients keep the rule. *)
LEMMA SoleSenderRule == SoleSender => SendsAlone
BY DEF SendsAlone, chan_send

(* FramesAlive, one channel at a time. *)
LEMMA AliveUnfold ==
  FramesAlive <=>
    \A c \in Chan :
      Posted(c) => /\ ptr[c] \in Thread /\ pc[ptr[c]] = "send_sync" /\ chan[ptr[c]] = c
                   /\ received[ptr[c]] = NULL
BY DEF FramesAlive, Posted, Reached

(* What the invariant says about the calls. *)
LEMMA SoleState ==
  ASSUME SoleInv
  PROVE  /\ ChanInv
         /\ value \in [Sem -> 0 .. MaxValue]
         /\ pc \in [Thread -> Label] /\ current \in Thread
         /\ ptr \in [Chan -> Thread \cup {NULL}]
         /\ chan \in [Thread -> Chan \cup {NULL}]
         /\ size \in [Thread -> Size]
         /\ received \in [Thread -> Size \cup {NULL}]
         /\ Calls /\ OneSender /\ Fresh /\ SyncAfterCopy
         /\ \A c \in Chan :
              Posted(c) => /\ ptr[c] \in Thread /\ pc[ptr[c]] = "send_sync"
                           /\ chan[ptr[c]] = c /\ received[ptr[c]] = NULL
         /\ \A c \in Chan : value[recv[c]] # 0 => value[recv[c]] = 1
<1>1. ChanInv /\ OneSender /\ Fresh /\ SyncAfterCopy /\ FramesAlive
  BY DEF SoleInv, SoleCore
<1>2. ASSUME NEW c \in Chan, value[recv[c]] # 0 PROVE value[recv[c]] = 1
  <2>1. /\ value[send[c]] \in Nat /\ value[recv[c]] \in Nat
        /\ value[send[c]] + value[recv[c]] + Cardinality(Users(c)) = 1
    BY <1>1, ChanNames, ChanState DEF OneMessage, Users
  <2>2. Cardinality(Users(c)) \in Nat
    BY UsersFinite
  <2> QED BY <1>2, <2>1, <2>2
<1> QED BY <1>1, <1>2, AliveUnfold, ChanState

(* Initially no thread is in a call. *)
LEMMA SoleInitInv == ChanInit => SoleInv
<1> SUFFICES ASSUME ChanInit PROVE SoleInv
  OBVIOUS
<1> USE ChanNames
<1>1. /\ ChanInv /\ value = Initial /\ pc = [t \in Thread |-> "user"]
  BY ChanInitInv DEF ChanInit, SemInit, ThreadsInit, ThreadsStart
<1>2. OneSender /\ Fresh /\ SyncAfterCopy
  BY <1>1 DEF OneSender, Fresh, SyncAfterCopy, InSend
<1>3. \A c \in Chan : ~Posted(c)
  BY <1>1 DEF Posted, Reached
<1>4. FramesAlive
  BY <1>3, AliveUnfold
<1> QED BY <1>1, <1>2, <1>4 DEF SoleInv, SoleCore

(* A step outside chan_send that posts nothing: no thread enters a send,   *)
(* and the sends there are stay as they are.                               *)
LEMMA SendsUntouched ==
  ASSUME SoleInv, ChanInv', UNCHANGED <<ptr, received>>,
         \A t \in Thread : InSend(t)' <=> InSend(t),
         \A t \in Thread : InSend(t) => pc'[t] = pc[t] /\ chan'[t] = chan[t],
         \A c \in Chan : value'[sync[c]] = value[sync[c]] /\ (Posted(c)' => Posted(c))
  PROVE  SoleInv'
<1>1. /\ OneSender /\ Fresh /\ SyncAfterCopy
      /\ \A c \in Chan :
           Posted(c) => /\ ptr[c] \in Thread /\ pc[ptr[c]] = "send_sync"
                        /\ chan[ptr[c]] = c /\ received[ptr[c]] = NULL
  BY SoleState
<1>2. OneSender'
  <2> SUFFICES ASSUME NEW t \in Thread, NEW u \in Thread,
                      InSend(t)', InSend(u)', chan'[t] = chan'[u]
               PROVE  t = u
    BY DEF OneSender
  <2>1. InSend(t) /\ InSend(u) /\ chan[t] = chan[u]
    OBVIOUS
  <2> QED BY <1>1, <2>1 DEF OneSender
<1>3. \A t \in Thread : \A label \in {"send_down", "send_post", "send_sync"} :
        pc'[t] = label <=> pc[t] = label
  BY DEF InSend
<1>4. Fresh'
  BY <1>1, <1>3 DEF Fresh
<1>5. SyncAfterCopy'
  <2> SUFFICES ASSUME NEW c \in Chan
               PROVE  /\ value'[sync[c]] \in {0, 1}
                      /\ value'[sync[c]] = 1 <=>
                           \E t \in Thread : /\ pc'[t] = "send_sync" /\ chan'[t] = c
                                             /\ received'[t] # NULL
    BY DEF SyncAfterCopy
  <2>1. \A t \in Thread : pc'[t] = "send_sync" /\ chan'[t] = c
                            <=> pc[t] = "send_sync" /\ chan[t] = c
    BY <1>3 DEF InSend
  <2> QED BY <1>1, <2>1 DEF SyncAfterCopy
<1>6. FramesAlive'
  <2>1. ASSUME NEW c \in Chan, Posted(c)'
        PROVE  /\ ptr'[c] \in Thread /\ pc'[ptr'[c]] = "send_sync"
               /\ chan'[ptr'[c]] = c /\ received'[ptr'[c]] = NULL
    <3>1. /\ ptr[c] \in Thread /\ pc[ptr[c]] = "send_sync"
          /\ chan[ptr[c]] = c /\ received[ptr[c]] = NULL
      BY <1>1, <2>1
    <3> QED BY <3>1 DEF InSend
  <2> QED BY <2>1 DEF FramesAlive, Posted, Reached
<1> QED BY <1>2, <1>4, <1>5, <1>6 DEF SoleInv, SoleCore

(* A send starts: no other thread sends on the channel, so nothing is      *)
(* posted on it.                                                           *)
LEMMA SoleSend ==
  ASSUME SendsAlone, SoleInv, ChanInv', NEW c \in Chan, NEW n \in Size, chan_send(c, n)
  PROVE  SoleInv'
<1>1. /\ pc \in [Thread -> Label] /\ chan \in [Thread -> Chan \cup {NULL}]
      /\ received \in [Thread -> Size \cup {NULL}]
      /\ OneSender /\ Fresh /\ SyncAfterCopy
      /\ \A d \in Chan :
           Posted(d) => /\ ptr[d] \in Thread /\ pc[ptr[d]] = "send_sync"
                        /\ chan[ptr[d]] = d /\ received[ptr[d]] = NULL
  BY SoleState
<1>2. /\ pc[current] = "user" /\ current \in Thread
      /\ chan' = [chan EXCEPT ![current] = c]
      /\ received' = [received EXCEPT ![current] = NULL]
      /\ ptr' = ptr
      /\ \A d \in Chan : value'[recv[d]] = value[recv[d]] /\ value'[sync[d]] = value[sync[d]]
  BY SoleState, SendFrame
<1>3. PICK label \in {"send_down", "send_post"} : pc' = [pc EXCEPT ![current] = label]
  BY SoleState, SendFrame
<1>4. \A t \in Thread : ~(InSend(t) /\ chan[t] = c)
  BY DEF SendsAlone
<1>5. /\ pc'[current] = label /\ chan'[current] = c /\ received'[current] = NULL
      /\ \A t \in Thread \ {current} : /\ pc'[t] = pc[t] /\ chan'[t] = chan[t]
                                       /\ received'[t] = received[t]
  BY <1>1, <1>2, <1>3
<1>6. OneSender'
  BY <1>1, <1>2, <1>4, <1>5 DEF OneSender, InSend
<1>7. Fresh'
  BY <1>1, <1>5 DEF Fresh
<1>8. SyncAfterCopy'
  <2>1. \A t \in Thread : \A d :
          pc'[t] = "send_sync" /\ chan'[t] = d /\ received'[t] # NULL
            <=> pc[t] = "send_sync" /\ chan[t] = d /\ received[t] # NULL
    BY <1>2, <1>5
  <2> QED BY <1>1, <1>2, <2>1 DEF SyncAfterCopy
<1>9. FramesAlive'
  <2>1. ASSUME NEW d \in Chan, Posted(d)'
        PROVE  /\ ptr'[d] \in Thread /\ pc'[ptr'[d]] = "send_sync"
               /\ chan'[ptr'[d]] = d /\ received'[ptr'[d]] = NULL
    <3>1. Posted(d)
      BY <1>2, <1>5, <2>1 DEF Posted, Reached
    <3>2. /\ ptr[d] \in Thread /\ pc[ptr[d]] = "send_sync"
          /\ chan[ptr[d]] = d /\ received[ptr[d]] = NULL
      BY <1>1, <3>1
    <3> QED BY <1>2, <1>5, <3>2
  <2> QED BY <2>1 DEF FramesAlive, Posted, Reached
<1> QED BY <1>6, <1>7, <1>8, <1>9 DEF SoleInv, SoleCore

(* A message is posted.  The sender has just had the channel for itself,   *)
(* so nothing else is.                                                     *)
LEMMA SolePost ==
  ASSUME SoleInv, ChanInv', chan_send_post
  PROVE  SoleInv'
<1> DEFINE c == chan[current]
<1>1. /\ ChanInv /\ pc \in [Thread -> Label] /\ ptr \in [Chan -> Thread \cup {NULL}]
      /\ OneSender /\ Fresh /\ SyncAfterCopy
      /\ \A d \in Chan :
           Posted(d) => /\ ptr[d] \in Thread /\ pc[ptr[d]] = "send_sync"
                        /\ chan[ptr[d]] = d /\ received[ptr[d]] = NULL
  BY SoleState
<1>2. /\ pc[current] = "send_post" /\ current \in Thread /\ c \in Chan
      /\ pc' = [pc EXCEPT ![current] = "send_sync"]
      /\ ptr' = [ptr EXCEPT ![c] = current]
      /\ UNCHANGED <<chan, received>>
      /\ \A d \in Chan : /\ value'[sync[d]] = value[sync[d]]
                         /\ d # c => value'[recv[d]] = value[recv[d]]
  BY <1>1, PostFrame
<1>3. /\ pc'[current] = "send_sync" /\ ptr'[c] = current
      /\ \A t \in Thread \ {current} : pc'[t] = pc[t]
      /\ \A d \in Chan \ {c} : ptr'[d] = ptr[d]
      /\ received[current] = NULL
  BY <1>1, <1>2 DEF Fresh
<1>4. OneSender'
  <2>1. \A t \in Thread : InSend(t)' <=> InSend(t)
    BY <1>2, <1>3 DEF InSend
  <2> QED BY <1>1, <1>2, <2>1 DEF OneSender
<1>5. Fresh'
  BY <1>1, <1>2, <1>3 DEF Fresh
<1>6. SyncAfterCopy'
  <2>1. \A t \in Thread : pc'[t] = "send_sync" /\ received'[t] # NULL
                            <=> pc[t] = "send_sync" /\ received[t] # NULL
    BY <1>2, <1>3
  <2> QED BY <1>1, <1>2, <2>1 DEF SyncAfterCopy
<1>7. FramesAlive'
  <2>1. ASSUME NEW d \in Chan, Posted(d)'
        PROVE  /\ ptr'[d] \in Thread /\ pc'[ptr'[d]] = "send_sync"
               /\ chan'[ptr'[d]] = d /\ received'[ptr'[d]] = NULL
    <3>1. CASE d = c
      BY <1>2, <1>3, <3>1
    <3>2. CASE d # c
      <4>1. Posted(d)
        BY <1>2, <1>3, <2>1, <3>2 DEF Posted, Reached
      <4>2. /\ ptr[d] \in Thread /\ pc[ptr[d]] = "send_sync"
            /\ chan[ptr[d]] = d /\ received[ptr[d]] = NULL
        BY <1>1, <4>1
      <4> QED BY <1>2, <1>3, <3>2, <4>2
    <3> QED BY <3>1, <3>2
  <2> QED BY <2>1 DEF FramesAlive, Posted, Reached
<1> QED BY <1>4, <1>5, <1>6, <1>7 DEF SoleInv, SoleCore

(* A unit of sync is for the sender that finds it. *)
LEMMA SyncTaken ==
  ASSUME SoleInv, chan_send_sync, value[sync[chan[current]]] # 0
  PROVE  /\ value[sync[chan[current]]] = 1 /\ received[current] # NULL
         /\ \A t \in Thread : InSend(t) /\ chan[t] = chan[current] => t = current
<1>1. /\ ChanInv /\ OneSender /\ SyncAfterCopy
      /\ pc[current] = "send_sync" /\ current \in Thread /\ chan[current] \in Chan
  BY SoleState, SyncFrame
<1>2. \A t \in Thread : InSend(t) /\ chan[t] = chan[current] => t = current
  BY <1>1 DEF OneSender, InSend
<1>3. value[sync[chan[current]]] = 1
  BY <1>1 DEF SyncAfterCopy
<1> QED BY <1>1, <1>2, <1>3 DEF SyncAfterCopy, InSend

(* A unit of sync is taken: it was for this sender, whose message has been *)
(* copied, so nothing is posted on the channel when the frame goes.        *)
LEMMA SoleSync ==
  ASSUME SoleInv, ChanInv', chan_send_sync
  PROVE  SoleInv'
<1> DEFINE c == chan[current]
<1> USE ChanNames
<1>1. /\ ChanInv /\ pc \in [Thread -> Label] /\ chan \in [Thread -> Chan \cup {NULL}]
      /\ value \in [Sem -> 0 .. MaxValue]
      /\ OneSender /\ Fresh /\ SyncAfterCopy
      /\ \A d \in Chan :
           Posted(d) => /\ ptr[d] \in Thread /\ pc[ptr[d]] = "send_sync"
                        /\ chan[ptr[d]] = d /\ received[ptr[d]] = NULL
  BY SoleState
<1>2. /\ pc[current] = "send_sync" /\ current \in Thread /\ c \in Chan
      /\ UNCHANGED <<ptr, received>>
      /\ \A d \in Chan : /\ value'[recv[d]] = value[recv[d]]
                         /\ d # c => value'[sync[d]] = value[sync[d]]
  BY <1>1, SyncFrame
<1>3. \/ value' = value /\ pc' = pc /\ chan' = chan
      \/ /\ value[sync[c]] # 0
         /\ value'[sync[c]] = value[sync[c]] - 1
         /\ pc' = [pc EXCEPT ![current] = "user"]
         /\ chan' = [chan EXCEPT ![current] = NULL]
  BY <1>1, SyncFrame
<1>4. CASE value' = value /\ pc' = pc /\ chan' = chan
  <2>1. /\ OneSender' /\ Fresh' /\ SyncAfterCopy'
    BY <1>1, <1>2, <1>4 DEF OneSender, Fresh, SyncAfterCopy, InSend
  <2>2. FramesAlive'
    BY <1>2, <1>4, SoleState DEF SoleInv, SoleCore, FramesAlive, Reached
  <2> QED BY <2>1, <2>2 DEF SoleInv, SoleCore
<1>5. CASE /\ value[sync[c]] # 0
           /\ value'[sync[c]] = value[sync[c]] - 1
           /\ pc' = [pc EXCEPT ![current] = "user"]
           /\ chan' = [chan EXCEPT ![current] = NULL]
  <2>1. value[sync[c]] = 1 /\ value'[sync[c]] = 0
    BY <1>5, SyncTaken
  <2>2. \A t \in Thread : InSend(t) /\ chan[t] = c => t = current
    BY <1>5, SyncTaken
  <2>3. received[current] # NULL
    BY <1>5, SyncTaken
  <2>4. ~Posted(c)
    BY <1>1, <1>2, <2>2, <2>3 DEF InSend
  <2>5. /\ pc'[current] = "user" /\ chan'[current] = NULL
        /\ \A t \in Thread \ {current} : pc'[t] = pc[t] /\ chan'[t] = chan[t]
    BY <1>1, <1>2, <1>5
  <2>6. OneSender'
    BY <1>1, <1>2, <2>5 DEF OneSender, InSend
  <2>7. Fresh'
    BY <1>1, <1>2, <2>5 DEF Fresh
  <2>8. SyncAfterCopy'
    <3> SUFFICES ASSUME NEW d \in Chan
                 PROVE  /\ value'[sync[d]] \in {0, 1}
                        /\ value'[sync[d]] = 1 <=>
                             \E t \in Thread : /\ pc'[t] = "send_sync" /\ chan'[t] = d
                                               /\ received'[t] # NULL
      BY DEF SyncAfterCopy
    <3>1. CASE d = c
      <4>1. \A t \in Thread : ~(pc'[t] = "send_sync" /\ chan'[t] = c)
        BY <2>2, <2>5 DEF InSend
      <4> QED BY <2>1, <3>1, <4>1
    <3>2. CASE d # c
      <4>1. \A t \in Thread : pc'[t] = "send_sync" /\ chan'[t] = d
                                <=> pc[t] = "send_sync" /\ chan[t] = d
        BY <1>2, <2>5, <3>2
      <4> QED BY <1>1, <1>2, <3>2, <4>1 DEF SyncAfterCopy
    <3> QED BY <3>1, <3>2
  <2>9. FramesAlive'
    <3>1. ASSUME NEW d \in Chan, Posted(d)'
          PROVE  /\ ptr'[d] \in Thread /\ pc'[ptr'[d]] = "send_sync"
                 /\ chan'[ptr'[d]] = d /\ received'[ptr'[d]] = NULL
      <4>1. Posted(d)
        BY <1>2, <2>5, <3>1 DEF Posted, Reached
      <4>2. d # c
        BY <2>4, <4>1
      <4>3. /\ ptr[d] \in Thread /\ pc[ptr[d]] = "send_sync"
            /\ chan[ptr[d]] = d /\ received[ptr[d]] = NULL
        BY <1>1, <4>1
      <4> QED BY <1>2, <2>5, <4>2, <4>3
    <3> QED BY <3>1 DEF FramesAlive, Posted, Reached
  <2> QED BY <2>6, <2>7, <2>8, <2>9 DEF SoleInv, SoleCore
<1> QED BY <1>3, <1>4, <1>5

(* A receiver waits for a message or takes the right to copy one: what was *)
(* posted stays posted, on this channel and on the others.                 *)
LEMMA SoleRecv ==
  ASSUME SoleInv, ChanInv',
         \/ \E d \in Chan, n \in Size : chan_recv(d, n)
         \/ chan_recv_resume
  PROVE  SoleInv'
<1> USE ChanNames
<1>1. /\ ChanInv /\ pc \in [Thread -> Label] /\ chan \in [Thread -> Chan \cup {NULL}]
      /\ \A c \in Chan : value[recv[c]] # 0 => value[recv[c]] = 1
  BY SoleState
<1>2. PICK c \in Chan :
        /\ pc[current] \in {"user", "recv_down"} /\ current \in Thread
        /\ chan' = [chan EXCEPT ![current] = c]
        /\ UNCHANGED <<ptr, received>>
        /\ \A d \in Chan : /\ value'[sync[d]] = value[sync[d]]
                           /\ d # c => value'[recv[d]] = value[recv[d]]
        /\ \/ /\ pc' = [pc EXCEPT ![current] = "recv_down"]
              /\ value'[recv[c]] = value[recv[c]]
           \/ /\ pc' = [pc EXCEPT ![current] = "recv_copy"]
              /\ value[recv[c]] # 0
  BY <1>1, RecvFrame
<1>3. /\ pc'[current] \in {"recv_down", "recv_copy"} /\ chan'[current] = c
      /\ \A t \in Thread \ {current} : pc'[t] = pc[t] /\ chan'[t] = chan[t]
  BY <1>1, <1>2
<1>4. \A t \in Thread : InSend(t)' <=> InSend(t)
  BY <1>2, <1>3 DEF InSend
<1>5. \A t \in Thread : InSend(t) => pc'[t] = pc[t] /\ chan'[t] = chan[t]
  BY <1>2, <1>3 DEF InSend
<1>6. ASSUME NEW d \in Chan, Posted(d)' PROVE Posted(d)
  <2>1. CASE d # c
    BY <1>2, <1>3, <1>6, <2>1 DEF Posted, Reached
  <2>2. CASE d = c /\ value[recv[c]] # 0
    BY <1>1, <2>2 DEF Posted
  <2>3. CASE /\ d = c /\ value[recv[c]] = 0
             /\ pc' = [pc EXCEPT ![current] = "recv_down"]
             /\ value'[recv[c]] = value[recv[c]]
    <3>1. pc'[current] = "recv_down"
      BY <1>1, <1>2, <2>3
    <3> QED BY <1>2, <1>3, <1>6, <2>3, <3>1 DEF Posted, Reached
  <2> QED BY <1>2, <2>1, <2>2, <2>3
<1> QED BY <1>2, <1>4, <1>5, <1>6, SendsUntouched

(* The message is copied: the frame it is in is that of a sender that      *)
(* waits on sync and whose message nobody has taken.                       *)
LEMMA CopyAlive ==
  ASSUME SoleInv, NEW n \in Size, chan_recv_copy(n)
  PROVE  LET s == ptr[chan[current]]
         IN /\ s \in Thread /\ s # current /\ pc[s] = "send_sync"
            /\ chan[s] = chan[current] /\ received[s] = NULL
            /\ n = Min({size[s], size[current]})
            /\ size' = [size EXCEPT ![s] = n, ![current] = n]
            /\ received' = [received EXCEPT ![s] = n]
<1> DEFINE s == ptr[chan[current]]
<1>1. /\ pc[current] = "recv_copy" /\ current \in Thread /\ chan[current] \in Chan
  BY SoleState, CopyFrame
<1>2. Posted(chan[current])
  BY <1>1 DEF Posted, Reached
<1>3. s \in Thread /\ pc[s] = "send_sync" /\ chan[s] = chan[current] /\ received[s] = NULL
  BY <1>1, <1>2, SoleState
<1>4. IF pc[s] = "send_sync" /\ chan[s] = chan[current]
      THEN /\ n = Min({size[s], size[current]})
           /\ size' = [size EXCEPT ![s] = n, ![current] = n]
           /\ received' = [received EXCEPT ![s] = n]
      ELSE /\ n <= size[current]
           /\ \E m \in {size[s], n} :
                size' = [size EXCEPT ![s] = m, ![current] = n]
           /\ UNCHANGED received
  BY DEF chan_recv_copy
<1> QED BY <1>1, <1>3, <1>4

(* The copy keeps the invariant for channels with one sender at a time. *)
LEMMA SoleCopy ==
  ASSUME SoleInv, ChanInv', NEW n \in Size, chan_recv_copy(n)
  PROVE  SoleInv'
<1> DEFINE c == chan[current]
<1> DEFINE s == ptr[c]
<1> USE ChanNames, SizeNames
<1>1. /\ ChanInv /\ pc \in [Thread -> Label]
      /\ received \in [Thread -> Size \cup {NULL}]
      /\ value \in [Sem -> 0 .. MaxValue]
      /\ OneSender /\ Fresh /\ SyncAfterCopy
      /\ \A d \in Chan :
           Posted(d) => /\ ptr[d] \in Thread /\ pc[ptr[d]] = "send_sync"
                        /\ chan[ptr[d]] = d /\ received[ptr[d]] = NULL
  BY SoleState
<1>2. /\ pc[current] = "recv_copy" /\ current \in Thread /\ c \in Chan
      /\ pc' = [pc EXCEPT ![current] = "recv_up"]
      /\ UNCHANGED <<ptr, chan>>
      /\ \A d \in Chan : value'[recv[d]] = value[recv[d]]
      /\ \A d \in Chan : value'[sync[d]] = value[sync[d]] + (IF d = c THEN 1 ELSE 0)
  BY <1>1, CopyFrame
<1>3. /\ s \in Thread /\ s # current /\ pc[s] = "send_sync" /\ chan[s] = c
      /\ received[s] = NULL /\ received' = [received EXCEPT ![s] = n]
  BY CopyAlive
<1>4. /\ pc'[current] = "recv_up"
      /\ \A t \in Thread \ {current} : pc'[t] = pc[t]
      /\ received'[s] = n /\ n # NULL
      /\ \A t \in Thread \ {s} : received'[t] = received[t]
  BY <1>1, <1>2, <1>3
<1>5. \A t \in Thread : InSend(t) /\ chan[t] = c => t = s
  BY <1>1, <1>3 DEF OneSender, InSend
<1>6. value[recv[c]] = 0 /\ \A t \in Users(c) : t = current
  <2>1. current \in Users(c)
    BY <1>2 DEF Users, Reached
  <2> QED BY ONLY <1>1, <1>2, <2>1, OneUser
<1>7. OneSender'
  <2>1. \A t \in Thread : InSend(t)' <=> InSend(t)
    BY <1>2, <1>4 DEF InSend
  <2> QED BY <1>1, <1>2, <2>1 DEF OneSender
<1>8. Fresh'
  BY <1>1, <1>2, <1>3, <1>4 DEF Fresh
<1>9. SyncAfterCopy'
  <2> SUFFICES ASSUME NEW d \in Chan
               PROVE  /\ value'[sync[d]] \in {0, 1}
                      /\ value'[sync[d]] = 1 <=>
                           \E t \in Thread : /\ pc'[t] = "send_sync" /\ chan'[t] = d
                                             /\ received'[t] # NULL
    BY DEF SyncAfterCopy
  <2>1. CASE d = c
    <3>1. value[sync[c]] # 1
      BY <1>1, <1>2, <1>3, <1>5 DEF SyncAfterCopy, InSend
    <3>2. value'[sync[c]] = 1
      BY <1>1, <1>2, <3>1 DEF SyncAfterCopy
    <3>3. pc'[s] = "send_sync" /\ chan'[s] = c /\ received'[s] # NULL
      BY <1>2, <1>3, <1>4
    <3> QED BY <1>3, <2>1, <3>2, <3>3
  <2>2. CASE d # c
    <3>1. \A t \in Thread :
            pc'[t] = "send_sync" /\ chan'[t] = d /\ received'[t] # NULL
              <=> pc[t] = "send_sync" /\ chan[t] = d /\ received[t] # NULL
      BY <1>2, <1>3, <1>4, <2>2
    <3>2. value'[sync[d]] = value[sync[d]]
      BY <1>1, <1>2, <2>2
    <3> QED BY <1>1, <3>1, <3>2 DEF SyncAfterCopy
  <2> QED BY <2>1, <2>2
<1>10. FramesAlive'
  <2>1. ASSUME NEW d \in Chan, Posted(d)'
        PROVE  /\ ptr'[d] \in Thread /\ pc'[ptr'[d]] = "send_sync"
               /\ chan'[ptr'[d]] = d /\ received'[ptr'[d]] = NULL
    <3>1. Posted(d)
      BY <1>2, <1>4, <2>1 DEF Posted, Reached
    <3>2. d # c
      <4>1. ASSUME d = c PROVE FALSE
        <5>1. PICK t \in Thread : chan'[t] = c /\ pc'[t] = "recv_copy"
          BY <1>2, <1>6, <2>1, <4>1 DEF Posted, Reached
        <5>2. t \in Users(c) /\ t # current
          BY <1>2, <1>4, <5>1 DEF Users, Reached
        <5> QED BY <1>6, <5>2
      <4> QED BY <4>1
    <3>3. /\ ptr[d] \in Thread /\ pc[ptr[d]] = "send_sync"
          /\ chan[ptr[d]] = d /\ received[ptr[d]] = NULL
      BY <1>1, <3>1
    <3> QED BY <1>2, <1>3, <1>4, <3>2, <3>3
  <2> QED BY <2>1 DEF FramesAlive, Posted, Reached
<1> QED BY <1>7, <1>8, <1>9, <1>10 DEF SoleInv, SoleCore

(* With one sender at a time every step keeps the invariant. *)
LEMMA SoleNextInv ==
  ASSUME SendsAlone, SoleInv, [ChanNext]_allVars
  PROVE  SoleInv'
<1>1. /\ ChanInv /\ pc \in [Thread -> Label] /\ chan \in [Thread -> Chan \cup {NULL}]
      /\ OneSender /\ Fresh /\ SyncAfterCopy /\ FramesAlive
  BY SoleState DEF SoleInv, SoleCore
<1>2. ChanInv'
  BY <1>1, ChanNextInv
<1>3. CASE ThreadsNext /\ UNCHANGED <<semVars, chanVars>>
  <2>1. UNCHANGED <<value, ptr, chan, received>>
    BY <1>3 DEF semVars, chanVars
  <2>2. \A t \in Thread : \/ pc'[t] = pc[t]
                          \/ /\ pc'[t] \in {"user", "join", "join_all"}
                             /\ pc[t] \in {"user", "join", "join_all"}
    BY <1>1, <1>3, ThreadsStepChan
  <2>3. /\ \A t \in Thread : InSend(t)' <=> InSend(t)
        /\ \A t \in Thread : InSend(t) => pc'[t] = pc[t] /\ chan'[t] = chan[t]
    BY <2>1, <2>2 DEF InSend
  <2>4. \A c \in Chan : value'[sync[c]] = value[sync[c]] /\ (Posted(c)' => Posted(c))
    BY <2>1, <2>2 DEF Posted, Reached
  <2> QED BY <1>2, <2>1, <2>3, <2>4, SendsUntouched
<1>4. CASE chan_send_resume
  <2>1. /\ pc[current] = "send_down" /\ current \in Thread
        /\ UNCHANGED <<ptr, chan, received>>
        /\ \A c \in Chan : value'[recv[c]] = value[recv[c]] /\ value'[sync[c]] = value[sync[c]]
    BY <1>1, <1>4, SendResumeFrame
  <2>2. PICK label \in {"send_down", "send_post"} : pc' = [pc EXCEPT ![current] = label]
    BY <1>1, <1>4, SendResumeFrame
  <2>3. /\ pc'[current] = label
        /\ \A t \in Thread \ {current} : pc'[t] = pc[t]
    BY <1>1, <2>1, <2>2
  <2>4. OneSender'
    <3>1. \A t \in Thread : InSend(t)' <=> InSend(t)
      BY <2>1, <2>3 DEF InSend
    <3> QED BY <1>1, <2>1, <3>1 DEF OneSender
  <2>5. Fresh'
    BY <1>1, <2>1, <2>3 DEF Fresh
  <2>6. \A t \in Thread, here \in {"send_sync", "recv_copy"} :
          pc'[t] = here <=> pc[t] = here
    BY <2>1, <2>3
  <2>7. SyncAfterCopy'
    BY <1>1, <2>1, <2>6 DEF SyncAfterCopy
  <2>8. FramesAlive'
    BY <1>1, <2>1, <2>6 DEF FramesAlive, Reached
  <2> QED BY <1>2, <2>4, <2>5, <2>7, <2>8 DEF SoleInv, SoleCore
<1>5. CASE chan_recv_return
  <2>1. /\ pc[current] = "recv_up" /\ current \in Thread
        /\ pc' = [pc EXCEPT ![current] = "user"]
        /\ chan' = [chan EXCEPT ![current] = NULL]
        /\ UNCHANGED <<ptr, received>>
        /\ \A c \in Chan : value'[recv[c]] = value[recv[c]] /\ value'[sync[c]] = value[sync[c]]
    BY <1>1, <1>5, ReturnFrame
  <2>2. /\ pc'[current] = "user"
        /\ \A t \in Thread \ {current} : pc'[t] = pc[t] /\ chan'[t] = chan[t]
    BY <1>1, <2>1
  <2>3. /\ \A t \in Thread : InSend(t)' <=> InSend(t)
        /\ \A t \in Thread : InSend(t) => pc'[t] = pc[t] /\ chan'[t] = chan[t]
    BY <2>1, <2>2 DEF InSend
  <2>4. \A c \in Chan : Posted(c)' => Posted(c)
    BY <2>1, <2>2 DEF Posted, Reached
  <2> QED BY <1>2, <2>1, <2>3, <2>4, SendsUntouched
<1>6. CASE UNCHANGED allVars
  <2>1. UNCHANGED <<value, pc, ptr, chan, received>>
    BY <1>6 DEF allVars, threadVars, semVars, chanVars
  <2>2. OneSender' /\ Fresh' /\ SyncAfterCopy' /\ FramesAlive'
    BY <1>1, <2>1 DEF OneSender, Fresh, SyncAfterCopy, FramesAlive, InSend, Reached
  <2> QED BY <1>2, <2>2 DEF SoleInv, SoleCore
<1> QED BY <1>2, <1>3, <1>4, <1>5, <1>6, SoleSend, SolePost, SoleSync, SoleRecv, SoleCopy
        DEF ChanNext

(* With one sender at a time on each channel, a receiver never follows a   *)
(* pointer into a frame that is gone.                                      *)
THEOREM ChanFramesAlive == SoleSender => (ChanSpec => []FramesAlive)
<1> SUFFICES ASSUME SoleSender PROVE ChanSpec => []FramesAlive
  OBVIOUS
<1>1. SoleInv /\ [ChanNext]_allVars => SoleInv'
  BY SoleNextInv, SoleSenderRule
<1>2. SoleInv => FramesAlive
  BY DEF SoleInv, SoleCore
<1> QED BY SoleInitInv, <1>1, <1>2, PTL DEF ChanSpec

---------------------------------------------------------------------------
(* The refinement: with one sender at a time a channel is a Rendezvous.    *)
(* A message is there from the first sem_down of chan_send to its return,  *)
(* and is received at the copy; every other step is a stutter.             *)

(* A step that leaves the sends as they are. *)
LEMMA PromiseStutter ==
  ASSUME \A t \in Thread : InSend(t)' <=> InSend(t),
         \A t \in Thread :
           InSend(t) => /\ chan'[t] = chan[t] /\ size'[t] = size[t]
                        /\ received'[t] = received[t]
  PROVE  UNCHANGED Promise!vars
<1>1. Message' = Message
  BY DEF Message
<1>2. Taken' = Taken
  BY DEF Taken
<1> QED BY <1>1, <1>2 DEF Promise!vars

(* At first no message is posted or taken. *)
LEMMA PromiseInit == ChanInit => Promise!Init
<1> SUFFICES ASSUME ChanInit PROVE Promise!Init
  OBVIOUS
<1>1. \A t \in Thread : ~InSend(t)
  BY DEF ChanInit, SemInit, ThreadsInit, ThreadsStart, InSend
<1> QED BY <1>1 DEF Promise!Init, Message, Taken

(* chan_send() is a Send of the promise. *)
LEMMA PromiseSend ==
  ASSUME SoleInv, NEW c \in Chan, NEW n \in Size, chan_send(c, n)
  PROVE  Promise!Send(current, c, n)
<1>1. /\ pc \in [Thread -> Label] /\ chan \in [Thread -> Chan \cup {NULL}]
      /\ size \in [Thread -> Size] /\ received \in [Thread -> Size \cup {NULL}]
  BY SoleState
<1>2. /\ pc[current] = "user" /\ current \in Thread
      /\ chan' = [chan EXCEPT ![current] = c]
      /\ size' = [size EXCEPT ![current] = n]
      /\ received' = [received EXCEPT ![current] = NULL]
  BY SoleState, SendFrame
<1>3. PICK label \in {"send_down", "send_post"} : pc' = [pc EXCEPT ![current] = label]
  BY SoleState, SendFrame
<1>4. PICK u \in Thread : u = current
  BY <1>2
<1>5. /\ ~InSend(u) /\ InSend(u)'
      /\ chan'[u] = c /\ size'[u] = n /\ received'[u] = NULL
  BY <1>1, <1>2, <1>3, <1>4 DEF InSend
<1>6. \A t \in Thread \ {u} :
        /\ InSend(t)' <=> InSend(t)
        /\ chan'[t] = chan[t] /\ size'[t] = size[t] /\ received'[t] = received[t]
  BY <1>1, <1>2, <1>3, <1>4 DEF InSend
<1>7. Message[u] = NULL /\ Message' = [Message EXCEPT ![u] = [chan |-> c, size |-> n]]
  BY <1>5, <1>6 DEF Message
<1>8. Taken' = Taken
  BY <1>5, <1>6 DEF Taken
<1> QED BY <1>4, <1>7, <1>8 DEF Promise!Send

(* The copy is a Receive of the message that is posted. *)
LEMMA PromiseReceive ==
  ASSUME SoleInv, NEW n \in Size, chan_recv_copy(n)
  PROVE  \E s \in Thread, m \in Size : Promise!Receive(s, m)
<1>1. /\ pc \in [Thread -> Label] /\ chan \in [Thread -> Chan \cup {NULL}]
      /\ size \in [Thread -> Size] /\ received \in [Thread -> Size \cup {NULL}]
  BY SoleState
<1>2. /\ pc[current] = "recv_copy" /\ current \in Thread
      /\ pc' = [pc EXCEPT ![current] = "recv_up"] /\ chan' = chan
  BY SoleState, CopyFrame
<1>3. PICK s \in Thread :
        /\ s # current /\ pc[s] = "send_sync"
        /\ chan[s] = chan[current] /\ received[s] = NULL
        /\ n = Min({size[s], size[current]})
        /\ size' = [size EXCEPT ![s] = n, ![current] = n]
        /\ received' = [received EXCEPT ![s] = n]
  BY CopyAlive
<1>4. PICK m \in Size : m = size[current]
  BY <1>1, <1>2
<1>5. chan[s] \in Chan /\ size[s] \in Size
  BY <1>1, <1>2, <1>3, SoleState DEF Calls
<1>6. n = IF m < size[s] THEN m ELSE size[s]
  BY <1>3, <1>4, <1>5, MinSize, SizeNames
<1>7. [chan |-> chan[s], size |-> size[s]] # NULL
  BY <1>5, ChannelsAssumption
<1>8. /\ InSend(s) /\ InSend(s)' /\ chan'[s] = chan[s] /\ size'[s] = n /\ received'[s] = n
  BY <1>1, <1>2, <1>3 DEF InSend
<1>9. \A t \in Thread \ {s} :
        /\ InSend(t)' <=> InSend(t)
        /\ InSend(t) => chan'[t] = chan[t] /\ size'[t] = size[t] /\ received'[t] = received[t]
  BY <1>1, <1>2, <1>3 DEF InSend
<1>10. /\ Message[s] = [chan |-> chan[s], size |-> size[s]]
       /\ Message'[s] = [chan |-> chan[s], size |-> n]
       /\ \A t \in Thread \ {s} : Message'[t] = Message[t]
  BY <1>8, <1>9 DEF Message
<1>11. Message' = [Message EXCEPT ![s].size = n]
  <2>1. [Message[s] EXCEPT !.size = n] = [chan |-> chan[s], size |-> n]
    BY <1>10
  <2>2. Message' = [Message EXCEPT ![s] = [chan |-> chan[s], size |-> n]]
    BY <1>10 DEF Message
  <2> QED BY <2>1, <2>2
<1>12. Taken[s] = NULL /\ Taken' = [Taken EXCEPT ![s] = n]
  BY <1>3, <1>8, <1>9 DEF Taken
<1>13. n = IF m < Message[s].size THEN m ELSE Message[s].size
  BY <1>6, <1>10
<1>14. Message[s] # NULL
  BY <1>7, <1>10
<1> QED BY <1>11, <1>12, <1>13, <1>14 DEF Promise!Receive

(* The end of the wait for sync is the return of the send, or goes unseen. *)
LEMMA PromiseReturns ==
  ASSUME SoleInv, chan_send_sync
  PROVE  Promise!SendReturns(current) \/ UNCHANGED Promise!vars
<1>1. /\ pc \in [Thread -> Label] /\ chan \in [Thread -> Chan \cup {NULL}]
  BY SoleState
<1>2. /\ pc[current] = "send_sync" /\ current \in Thread
      /\ UNCHANGED <<size, received>>
      /\ \/ value' = value /\ pc' = pc /\ chan' = chan
         \/ /\ value[sync[chan[current]]] # 0
            /\ pc' = [pc EXCEPT ![current] = "user"]
            /\ chan' = [chan EXCEPT ![current] = NULL]
  BY SoleState, SyncFrame
<1>3. CASE pc' = pc /\ chan' = chan
  BY <1>2, <1>3, PromiseStutter DEF InSend
<1>4. CASE /\ value[sync[chan[current]]] # 0
           /\ pc' = [pc EXCEPT ![current] = "user"]
           /\ chan' = [chan EXCEPT ![current] = NULL]
  <2>1. PICK u \in Thread : u = current
    BY <1>2
  <2>2. InSend(u) /\ ~InSend(u)' /\ received[u] # NULL
    BY <1>1, <1>2, <1>4, <2>1, SyncTaken DEF InSend
  <2>3. \A t \in Thread \ {u} :
          (InSend(t)' <=> InSend(t)) /\ chan'[t] = chan[t] /\ size'[t] = size[t]
    BY <1>1, <1>2, <1>4, <2>1 DEF InSend
  <2>4. Taken[u] # NULL /\ Taken' = [Taken EXCEPT ![u] = NULL]
    BY <1>2, <2>2, <2>3 DEF Taken
  <2>5. Message' = [Message EXCEPT ![u] = NULL]
    BY <2>2, <2>3 DEF Message
  <2> QED BY <2>1, <2>4, <2>5 DEF Promise!SendReturns
<1> QED BY <1>2, <1>3, <1>4

(* A step that neither starts nor ends a send, nor copies its message. *)
LEMMA PromiseElsewhere ==
  ASSUME SoleInv,
         \/ chan_send_resume \/ chan_send_post
         \/ \E c \in Chan, n \in Size : chan_recv(c, n)
         \/ chan_recv_resume \/ chan_recv_return
  PROVE  UNCHANGED Promise!vars
<1>1. /\ ChanInv /\ pc \in [Thread -> Label] /\ chan \in [Thread -> Chan \cup {NULL}]
  BY SoleState
<1>2. CASE chan_send_resume
  <2>1. /\ pc[current] = "send_down" /\ current \in Thread
        /\ \E label \in {"send_down", "send_post"} : pc' = [pc EXCEPT ![current] = label]
        /\ UNCHANGED <<chan, size, received>>
    BY <1>1, <1>2, SendResumeFrame
  <2>2. \A t \in Thread : InSend(t)' <=> InSend(t)
    BY <1>1, <2>1 DEF InSend
  <2> QED BY <2>1, <2>2, PromiseStutter
<1>3. CASE chan_send_post
  <2>1. /\ pc[current] = "send_post" /\ current \in Thread
        /\ pc' = [pc EXCEPT ![current] = "send_sync"]
        /\ UNCHANGED <<chan, size, received>>
    BY <1>1, <1>3, PostFrame
  <2>2. \A t \in Thread : InSend(t)' <=> InSend(t)
    BY <1>1, <2>1 DEF InSend
  <2> QED BY <2>1, <2>2, PromiseStutter
<1>4. CASE (\E c \in Chan, n \in Size : chan_recv(c, n)) \/ chan_recv_resume
  <2>1. PICK c \in Chan :
          /\ pc[current] \in {"user", "recv_down"} /\ current \in Thread
          /\ chan' = [chan EXCEPT ![current] = c]
          /\ received' = received
          /\ \A t \in Thread \ {current} : size'[t] = size[t]
          /\ \/ pc' = [pc EXCEPT ![current] = "recv_down"]
             \/ pc' = [pc EXCEPT ![current] = "recv_copy"]
    BY <1>1, <1>4, RecvFrame
  <2>2. \A t \in Thread : InSend(t)' <=> InSend(t)
    BY <1>1, <2>1 DEF InSend
  <2>3. \A t \in Thread : InSend(t) => t # current
    BY <2>1 DEF InSend
  <2> QED BY <1>1, <2>1, <2>2, <2>3, PromiseStutter
<1>5. CASE chan_recv_return
  <2>1. /\ pc[current] = "recv_up" /\ current \in Thread
        /\ pc' = [pc EXCEPT ![current] = "user"]
        /\ chan' = [chan EXCEPT ![current] = NULL]
        /\ UNCHANGED <<size, received>>
    BY <1>1, <1>5, ReturnFrame
  <2>2. \A t \in Thread : InSend(t)' <=> InSend(t)
    BY <1>1, <2>1 DEF InSend
  <2>3. \A t \in Thread : InSend(t) => t # current
    BY <2>1 DEF InSend
  <2> QED BY <1>1, <2>1, <2>2, <2>3, PromiseStutter
<1> QED BY <1>2, <1>3, <1>4, <1>5

(* Every step is a step of Rendezvous or a stutter. *)
LEMMA PromiseStep ==
  ASSUME SoleInv, [ChanNext]_allVars
  PROVE  [Promise!Next]_Promise!vars
<1>1. ChanInv /\ current \in Thread
  BY SoleState
<1>2. CASE ThreadsNext /\ UNCHANGED <<semVars, chanVars>>
  <2>1. /\ UNCHANGED <<chan, size, received>>
        /\ \A t \in Thread : \/ pc'[t] = pc[t]
                             \/ /\ pc'[t] \in {"user", "join", "join_all"}
                                /\ pc[t] \in {"user", "join", "join_all"}
    BY <1>1, <1>2, ThreadsStepChan DEF chanVars
  <2>2. \A t \in Thread : InSend(t)' <=> InSend(t)
    BY <2>1 DEF InSend
  <2> QED BY <2>1, <2>2, PromiseStutter
<1>3. ASSUME NEW c \in Chan, NEW n \in Size, chan_send(c, n) PROVE Promise!Next
  BY <1>1, <1>3, PromiseSend DEF Promise!Next
<1>4. CASE chan_send_sync
  BY <1>1, <1>4, PromiseReturns DEF Promise!Next
<1>5. ASSUME NEW n \in Size, chan_recv_copy(n) PROVE Promise!Next
  BY <1>5, PromiseReceive DEF Promise!Next
<1>6. CASE UNCHANGED allVars
  <2>1. UNCHANGED <<pc, chan, size, received>>
    BY <1>6 DEF allVars, threadVars, chanVars
  <2> QED BY <2>1, PromiseStutter DEF InSend
<1> QED BY <1>2, <1>3, <1>4, <1>5, <1>6, PromiseElsewhere DEF ChanNext

(* With one sender at a time on each channel, channels implement           *)
(* Rendezvous: a message is received once, and the send returns after      *)
(* that, with the number of bytes its receiver took.                       *)
THEOREM ChanRendezvous == SoleSender => (ChanSpec => KeepsRendezvous)
<1> SUFFICES ASSUME SoleSender PROVE ChanSpec => KeepsRendezvous
  OBVIOUS
<1>1. SoleInv /\ [ChanNext]_allVars => SoleInv'
  BY SoleNextInv, SoleSenderRule
<1>2. SoleInv /\ [ChanNext]_allVars => [Promise!Next]_Promise!vars
  BY PromiseStep
<1> QED BY SoleInitInv, PromiseInit, <1>1, <1>2, PTL DEF ChanSpec, KeepsRendezvous, Promise!Spec

---------------------------------------------------------------------------
(* What a send returns. *)

(* Once its message has been taken, the size in the frame of a sender is   *)
(* the number of bytes that were taken.                                    *)
SizeTaken ==
  \A t \in Thread : InSend(t) /\ received[t] # NULL => size[t] = received[t]

ReturnInv == SoleInv /\ SizeTaken

(* Every step keeps what a sender knows of the size taken. *)
LEMMA ReturnNextInv ==
  ASSUME SendsAlone, ReturnInv, [ChanNext]_allVars
  PROVE  ReturnInv'
<1>1. /\ SoleInv /\ SizeTaken /\ ChanInv /\ current \in Thread
      /\ pc \in [Thread -> Label]
      /\ size \in [Thread -> Size] /\ received \in [Thread -> Size \cup {NULL}]
  BY SoleState DEF ReturnInv
<1>2. SoleInv'
  BY <1>1, SoleNextInv
<1>3. SUFFICES ASSUME NEW t \in Thread, InSend(t)', received'[t] # NULL
               PROVE  size'[t] = received'[t]
  BY <1>2 DEF ReturnInv, SizeTaken
<1>4. CASE Promise!vars' = Promise!vars
  <2>1. Message' = Message /\ Taken' = Taken
    BY <1>4 DEF Promise!vars
  <2>2. /\ Message'[t] = [chan |-> chan'[t], size |-> size'[t]] /\ Taken'[t] = received'[t]
        /\ Message[t] = IF InSend(t) THEN [chan |-> chan[t], size |-> size[t]] ELSE NULL
        /\ Taken[t] = IF InSend(t) THEN received[t] ELSE NULL
    BY <1>3 DEF Message, Taken
  <2>3. InSend(t) /\ received[t] # NULL /\ received'[t] = received[t]
    BY <1>3, <2>1, <2>2
  <2>4. [chan |-> chan'[t], size |-> size'[t]] = [chan |-> chan[t], size |-> size[t]]
    BY <2>1, <2>2, <2>3
  <2>5. size'[t] = size[t]
    BY <2>4
  <2> QED BY <1>1, <2>3, <2>5 DEF SizeTaken
<1>5. ASSUME NEW c \in Chan, NEW n \in Size, chan_send(c, n)
      PROVE  size'[t] = received'[t]
  <2>1. /\ pc[current] = "user"
        /\ \E label \in {"send_down", "send_post"} : pc' = [pc EXCEPT ![current] = label]
        /\ size' = [size EXCEPT ![current] = n]
        /\ received' = [received EXCEPT ![current] = NULL]
    BY <1>1, <1>5, SendFrame
  <2> QED BY <1>1, <1>3, <2>1 DEF SizeTaken, InSend
<1>6. ASSUME NEW n \in Size, chan_recv_copy(n)
      PROVE  size'[t] = received'[t]
  <2>1. pc[current] = "recv_copy" /\ pc' = [pc EXCEPT ![current] = "recv_up"]
    BY <1>1, <1>6, CopyFrame
  <2>2. PICK s \in Thread : /\ s # current
                            /\ size' = [size EXCEPT ![s] = n, ![current] = n]
                            /\ received' = [received EXCEPT ![s] = n]
    BY <1>1, <1>6, CopyAlive
  <2> QED BY <1>1, <1>3, <2>1, <2>2 DEF SizeTaken, InSend
<1>7. CASE chan_send_sync
  <2>1. /\ pc[current] = "send_sync" /\ UNCHANGED <<size, received>>
        /\ pc' = pc \/ pc' = [pc EXCEPT ![current] = "user"]
    BY <1>1, <1>7, SyncFrame
  <2> QED BY <1>1, <1>3, <2>1 DEF SizeTaken, InSend
<1>8. CASE ThreadsNext /\ UNCHANGED <<semVars, chanVars>>
  <2>1. /\ UNCHANGED <<size, received>>
        /\ \A u \in Thread : \/ pc'[u] = pc[u]
                             \/ /\ pc'[u] \in {"user", "join", "join_all"}
                                /\ pc[u] \in {"user", "join", "join_all"}
    BY <1>1, <1>8, ThreadsStepChan DEF chanVars
  <2> QED BY <1>1, <1>3, <2>1 DEF SizeTaken, InSend
<1>9. CASE UNCHANGED allVars
  <2>1. UNCHANGED <<pc, size, received>>
    BY <1>9 DEF allVars, threadVars, chanVars
  <2> QED BY <1>1, <1>3, <2>1 DEF SizeTaken, InSend
<1> QED BY <1>1, <1>4, <1>5, <1>6, <1>7, <1>8, <1>9, PromiseElsewhere DEF ChanNext

(* A step that ends a send. *)
LEMMA ReturnStep ==
  ASSUME ReturnInv, [ChanNext]_allVars, NEW t \in Thread,
         pc[t] = "send_sync", pc'[t] = "user"
  PROVE  received[t] # NULL /\ size'[t] = received[t]
<1>1. /\ SoleInv /\ SizeTaken /\ ChanInv /\ current \in Thread
      /\ pc \in [Thread -> Label] /\ InSend(t) /\ ~InSend(t)'
  BY SoleState DEF ReturnInv, InSend
<1>2. CASE chan_send_sync
  <2>1. /\ UNCHANGED <<size, received>>
        /\ \/ pc' = pc
           \/ /\ value[sync[chan[current]]] # 0
              /\ pc' = [pc EXCEPT ![current] = "user"]
    BY <1>1, <1>2, SyncFrame
  <2>2. t = current /\ value[sync[chan[current]]] # 0
    BY <1>1, <2>1
  <2>3. received[t] # NULL
    BY <1>1, <1>2, <2>2, SyncTaken
  <2> QED BY <1>1, <2>1, <2>3 DEF SizeTaken
<1>3. ASSUME \/ chan_send_resume \/ chan_send_post
             \/ \E c \in Chan, n \in Size : chan_recv(c, n)
             \/ chan_recv_resume \/ chan_recv_return
             \/ \E n \in Size : chan_recv_copy(n)
             \/ \E c \in Chan, n \in Size : chan_send(c, n)
      PROVE  FALSE
  <2>1. /\ pc[current] # "send_sync"
        /\ \E label : pc' = [pc EXCEPT ![current] = label]
    BY <1>1, <1>3, SendResumeFrame, PostFrame, RecvFrame, ReturnFrame, CopyFrame, SendFrame
  <2> QED BY <1>1, <2>1
<1>4. ASSUME ThreadsNext /\ UNCHANGED <<semVars, chanVars>> PROVE FALSE
  BY <1>1, <1>4, ThreadsStepChan
<1>5. ASSUME UNCHANGED allVars PROVE FALSE
  BY <1>5 DEF allVars, threadVars
<1> QED BY <1>2, <1>3, <1>4, <1>5 DEF ChanNext

(* With one sender at a time on each channel, chan_send returns after a    *)
(* receiver has copied its message, the number of bytes copied.  With two  *)
(* it may not: see the run Channels_two_senders.                           *)
THEOREM ChanSendAwaits == SoleSender => (ChanSpec => SendAwaitsReceiver)
<1> SUFFICES ASSUME SoleSender PROVE ChanSpec => SendAwaitsReceiver
  OBVIOUS
<1>1. ChanInit => ReturnInv
  BY SoleInitInv DEF ReturnInv, SizeTaken, ChanInit, SemInit, ThreadsInit, ThreadsStart, InSend
<1>2. ReturnInv /\ [ChanNext]_allVars => ReturnInv'
  BY ReturnNextInv, SoleSenderRule
<1>3. ReturnInv /\ [ChanNext]_allVars =>
        [\A t \in Thread :
           pc[t] = "send_sync" /\ pc'[t] = "user" => size'[t] = received[t]]_allVars
  BY ReturnStep
<1> QED BY <1>1, <1>2, <1>3, PTL DEF ChanSpec, SendAwaitsReceiver
============================================================================
