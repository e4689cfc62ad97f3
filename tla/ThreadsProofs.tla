--------------------------- MODULE ThreadsProofs ---------------------------
(***************************************************************************)
(* Proofs about Threads: the list operations keep the lists and the        *)
(* in_list fields in agreement, the safety properties of the scheduler     *)
(* hold for any number of threads, and it implements AbstractThreads.      *)
(***************************************************************************)
EXTENDS Threads, TLAPS, SequenceTheorems, FiniteSetTheorems

---------------------------------------------------------------------------
(* Sequences: what the list operations do to the set of elements. *)

(* Adding a new element at the back of a list keeps the elements distinct. *)
LEMMA AppendRange ==
  ASSUME NEW S, NEW s \in Seq(S), NEW x \in S
  PROVE  /\ Range(Append(s, x)) = Range(s) \cup {x}
         /\ IsInjective(s) /\ x \notin Range(s) => IsInjective(Append(s, x))
<1>1. /\ DOMAIN s = 1 .. Len(s) /\ Len(s) \in Nat
      /\ DOMAIN Append(s, x) = 1 .. Len(s) + 1
      /\ \A i \in 1 .. Len(s) : Append(s, x)[i] = s[i]
      /\ Append(s, x)[Len(s) + 1] = x
  BY AppendProperties, LenProperties
<1>2. Range(Append(s, x)) = Range(s) \cup {x}
  BY <1>1 DEF Range
<1>3. IsInjective(s) /\ x \notin Range(s) => IsInjective(Append(s, x))
  BY <1>1 DEF Range, IsInjective
<1> QED BY <1>2, <1>3

(* Taking the front element off a list without duplicates. *)
LEMMA TailRange ==
  ASSUME NEW S, NEW s \in Seq(S), s # <<>>, IsInjective(s)
  PROVE  /\ Head(s) \in S
         /\ Head(s) \in Range(s)
         /\ Range(Tail(s)) = Range(s) \ {Head(s)}
         /\ IsInjective(Tail(s))
<1>1. /\ DOMAIN s = 1 .. Len(s) /\ Len(s) \in Nat \ {0}
      /\ Head(s) = s[1] /\ Head(s) \in S
      /\ DOMAIN Tail(s) = 1 .. Len(s) - 1
      /\ \A i \in 1 .. Len(s) - 1 : Tail(s)[i] = s[i + 1]
  BY HeadTailProperties, LenProperties, EmptySeq
<1>2. \A i \in 2 .. Len(s) : i - 1 \in DOMAIN Tail(s) /\ Tail(s)[i - 1] = s[i]
  BY <1>1
<1>3. \A i \in 1 .. Len(s) : i = 1 \/ i \in 2 .. Len(s)
  BY <1>1
<1>4. IsInjective(Tail(s))
  BY <1>1 DEF IsInjective
<1>5. Head(s) \in Range(s)
  BY <1>1 DEF Range
<1>6. Range(Tail(s)) \subseteq Range(s) \ {Head(s)}
  BY <1>1 DEF Range, IsInjective
<1>7. Range(s) \ {Head(s)} \subseteq Range(Tail(s))
  <2> SUFFICES ASSUME NEW i \in 1 .. Len(s), s[i] # Head(s)
               PROVE  s[i] \in Range(Tail(s))
    BY <1>1 DEF Range
  <2>1. i \in 2 .. Len(s)
    BY <1>1
  <2> QED BY <1>2, <2>1 DEF Range
<1> QED BY <1>1, <1>4, <1>5, <1>6, <1>7

(* Putting one list behind another with other elements. *)
LEMMA ConcatRange ==
  ASSUME NEW S, NEW s1 \in Seq(S), NEW s2 \in Seq(S)
  PROVE  /\ Range(s1 \o s2) = Range(s1) \cup Range(s2)
         /\ IsInjective(s1) /\ IsInjective(s2) /\ Range(s1) \cap Range(s2) = {}
              => IsInjective(s1 \o s2)
<1> DEFINE m == Len(s1)
           n == Len(s2)
           s == s1 \o s2
<1>1. /\ m \in Nat /\ n \in Nat
      /\ DOMAIN s1 = 1 .. m /\ DOMAIN s2 = 1 .. n /\ DOMAIN s = 1 .. m + n
      /\ \A i \in 1 .. m : s[i] = s1[i]
      /\ \A i \in m + 1 .. m + n : s[i] = s2[i - m]
  BY ConcatProperties, LenProperties
<1>2. /\ \A i \in 1 .. n : m + i \in 1 .. m + n /\ s[m + i] = s2[i]
      /\ \A i \in 1 .. m + n : i \in 1 .. m \/ (i \in m + 1 .. m + n /\ i - m \in 1 .. n)
  BY <1>1
<1> HIDE DEF m, n, s
<1>3. Range(s) = Range(s1) \cup Range(s2)
  <2>1. Range(s) \subseteq Range(s1) \cup Range(s2)
    BY <1>1, <1>2 DEF Range
  <2>2. \A i \in 1 .. m : s1[i] \in Range(s)
    BY <1>1 DEF Range
  <2>3. \A i \in 1 .. n : s2[i] \in Range(s)
    BY <1>1, <1>2 DEF Range
  <2> QED BY <1>1, <2>1, <2>2, <2>3 DEF Range
<1>4. ASSUME IsInjective(s1), IsInjective(s2), Range(s1) \cap Range(s2) = {}
      PROVE  IsInjective(s)
  <2> SUFFICES ASSUME NEW i \in 1 .. m + n, NEW j \in 1 .. m + n, s[i] = s[j]
               PROVE  i = j
    BY <1>1 DEF IsInjective
  <2>1. CASE i \in 1 .. m /\ j \in 1 .. m
    BY <1>1, <1>4, <2>1 DEF IsInjective
  <2>2. CASE i \in m + 1 .. m + n /\ j \in m + 1 .. m + n
    <3>1. i - m \in 1 .. n /\ j - m \in 1 .. n /\ s2[i - m] = s2[j - m]
      BY <1>1, <2>2
    <3>2. i - m = j - m
      BY <1>1, <1>4, <3>1 DEF IsInjective
    <3> QED BY <1>1, <3>2
  <2>3. ASSUME NEW a \in 1 .. m, NEW b \in m + 1 .. m + n
        PROVE  s[a] # s[b]
    <3>1. s[a] \in Range(s1)
      BY <1>1 DEF Range
    <3>2. b - m \in 1 .. n /\ s[b] = s2[b - m]
      BY <1>1
    <3>3. s[b] \in Range(s2)
      BY <1>1, <3>2 DEF Range
    <3> QED BY <1>4, <3>1, <3>3
  <2> QED BY <1>2, <2>1, <2>2, <2>3
<1> QED BY <1>3, <1>4 DEF s
---------------------------------------------------------------------------
(* The list operations. *)

QType == [list    : [ListId -> Seq(Thread)],
          in_list : [Thread -> ListId \cup {NULL}],
          ok      : BOOLEAN]

(* Lists of threads that agree with the in_list fields. *)
Sound(r) == r \in QType /\ QueueOK(r)

(* A list is empty when no in_list field names it. *)
LEMMA EmptyList ==
  ASSUME NEW r, Sound(r), NEW l \in ListId
  PROVE  r.list[l] = <<>> <=> \A t \in Thread : r.in_list[t] # l
<1>1. r.list[l] \in Seq(Thread) /\ \A t \in Thread : t \in Range(r.list[l]) <=> r.in_list[t] = l
  BY DEF Sound, QueueOK, QType
<1>2. r.list[l] = <<>> => Range(r.list[l]) = {}
  BY DEF Range
<1>3. r.list[l] # <<>> => Head(r.list[l]) \in Thread /\ Head(r.list[l]) \in Range(r.list[l])
  <2>1. r.list[l] # <<>> => Len(r.list[l]) \in Nat \ {0}
    BY <1>1, EmptySeq
  <2> QED BY <1>1, <2>1, HeadTailProperties, LenProperties DEF Range
<1> QED BY <1>1, <1>2, <1>3

(* put() of a thread that is on no list. *)
LEMMA PutSound ==
  ASSUME NEW r, Sound(r), NEW t \in Thread, NEW l \in ListId, r.in_list[t] = NULL
  PROVE  /\ Sound(Put(r, t, l))
         /\ Put(r, t, l).in_list = [r.in_list EXCEPT ![t] = l]
         /\ Put(r, t, l).ok = r.ok
<1> DEFINE p == Put(r, t, l)
<1>1. /\ r.list \in [ListId -> Seq(Thread)] /\ r.in_list \in [Thread -> ListId \cup {NULL}]
      /\ r.ok \in BOOLEAN
  BY DEF Sound, QType
<1>2. /\ p.list = [r.list EXCEPT ![l] = Append(@, t)]
      /\ p.in_list = [r.in_list EXCEPT ![t] = l]
      /\ p.ok = (r.ok /\ r.in_list[t] = NULL)
      /\ p = [list |-> p.list, in_list |-> p.in_list, ok |-> p.ok]
  BY DEF Put
<1> HIDE DEF p
<1>3. p.ok = r.ok
  BY <1>1, <1>2
<1>4. p \in QType
  <2>1. Append(r.list[l], t) \in Seq(Thread)
    BY <1>1, AppendProperties
  <2> QED BY <1>1, <1>2, <2>1, <1>3 DEF QType
<1>5. QueueOK(p)
  <2> SUFFICES ASSUME NEW k \in ListId
               PROVE  /\ IsInjective(p.list[k])
                      /\ \A u \in Thread : u \in Range(p.list[k]) <=> p.in_list[u] = k
    BY DEF QueueOK
  <2>1. /\ IsInjective(r.list[k])
        /\ \A u \in Thread : u \in Range(r.list[k]) <=> r.in_list[u] = k
    BY DEF Sound, QueueOK
  <2>2. CASE k = l
    <3>1. NULL # l
      BY ThreadsAssumption
    <3>2. t \notin Range(r.list[l])
      BY <2>1, <2>2, <3>1
    <3>3. Range(p.list[l]) = Range(r.list[l]) \cup {t} /\ IsInjective(p.list[l])
      BY <1>1, <1>2, <2>1, <2>2, <3>2, AppendRange
    <3> QED BY <1>1, <1>2, <2>1, <2>2, <3>3
  <2>3. CASE k # l
    <3>1. NULL # k /\ p.list[k] = r.list[k]
      BY <1>1, <1>2, <2>3, ThreadsAssumption
    <3> QED BY <1>1, <1>2, <2>1, <2>3, <3>1
  <2> QED BY <2>2, <2>3
<1> QED BY <1>2, <1>3, <1>4, <1>5 DEF Sound, p

(* get() from a list that is not empty. *)
LEMMA GetSound ==
  ASSUME NEW r, Sound(r), NEW l \in ListId, r.list[l] # <<>>
  PROVE  /\ Head(r.list[l]) \in Thread
         /\ r.in_list[Head(r.list[l])] = l
         /\ Sound(Get(r, l))
         /\ Get(r, l).in_list = [r.in_list EXCEPT ![Head(r.list[l])] = NULL]
         /\ Get(r, l).ok = r.ok
<1> DEFINE t == Head(r.list[l])
           p == Get(r, l)
<1>1. /\ r.list \in [ListId -> Seq(Thread)] /\ r.in_list \in [Thread -> ListId \cup {NULL}]
      /\ r.ok \in BOOLEAN
      /\ IsInjective(r.list[l])
      /\ \A u \in Thread : u \in Range(r.list[l]) <=> r.in_list[u] = l
  BY DEF Sound, QType, QueueOK
<1>2. /\ t \in Thread /\ t \in Range(r.list[l])
      /\ Range(Tail(r.list[l])) = Range(r.list[l]) \ {t}
      /\ IsInjective(Tail(r.list[l])) /\ Tail(r.list[l]) \in Seq(Thread)
  BY <1>1, TailRange, HeadTailProperties
<1>3. /\ p.list = [r.list EXCEPT ![l] = Tail(@)]
      /\ p.in_list = [r.in_list EXCEPT ![t] = NULL]
      /\ p.ok = (r.ok /\ r.in_list[t] = l)
      /\ p = [list |-> p.list, in_list |-> p.in_list, ok |-> p.ok]
  BY DEF Get
<1> HIDE DEF p, t
<1>4. r.in_list[t] = l /\ p.ok = r.ok
  BY <1>1, <1>2, <1>3
<1>5. p \in QType
  BY <1>1, <1>2, <1>3, <1>4 DEF QType
<1>6. QueueOK(p)
  <2> SUFFICES ASSUME NEW k \in ListId
               PROVE  /\ IsInjective(p.list[k])
                      /\ \A u \in Thread : u \in Range(p.list[k]) <=> p.in_list[u] = k
    BY DEF QueueOK
  <2>1. /\ IsInjective(r.list[k]) /\ NULL # k
        /\ \A u \in Thread : u \in Range(r.list[k]) <=> r.in_list[u] = k
    BY ThreadsAssumption DEF Sound, QueueOK
  <2>2. CASE k = l
    BY <1>1, <1>2, <1>3, <2>1, <2>2
  <2>3. CASE k # l
    BY <1>1, <1>2, <1>3, <1>4, <2>1, <2>3
  <2> QED BY <2>2, <2>3
<1> QED BY <1>2, <1>3, <1>4, <1>5, <1>6 DEF Sound, p, t

(* A thread goes from the front of one list to the back of another. *)
LEMMA MoveSound ==
  ASSUME NEW r, Sound(r), NEW from \in ListId, NEW to \in ListId, r.list[from] # <<>>
  PROVE  /\ Head(r.list[from]) \in Thread
         /\ r.in_list[Head(r.list[from])] = from
         /\ Sound(Move(r, from, to))
         /\ Move(r, from, to).in_list = [r.in_list EXCEPT ![Head(r.list[from])] = to]
         /\ Move(r, from, to).ok = r.ok
<1> DEFINE t == Head(r.list[from])
           g == Get(r, from)
<1>1. /\ t \in Thread /\ r.in_list[t] = from /\ Sound(g)
      /\ g.in_list = [r.in_list EXCEPT ![t] = NULL] /\ g.ok = r.ok
  BY GetSound
<1>5. Move(r, from, to) = Put(g, t, to)
  BY DEF Move
<1> HIDE DEF t, g
<1>2. r.in_list \in [Thread -> ListId \cup {NULL}]
  BY DEF Sound, QType
<1>3. g.in_list[t] = NULL
  BY <1>1, <1>2
<1>4. /\ Sound(Put(g, t, to)) /\ Put(g, t, to).ok = g.ok
      /\ Put(g, t, to).in_list = [g.in_list EXCEPT ![t] = to]
  <2>1. Sound(g) /\ t \in Thread /\ to \in ListId /\ g.in_list[t] = NULL
    BY <1>1, <1>3
  <2> HIDE <1>1, <1>3
  <2> QED BY <2>1, PutSound
<1> QED BY <1>1, <1>2, <1>4, <1>5 DEF t

(* All threads of one list go to the back of another. *)
LEMMA MoveAllSound ==
  ASSUME NEW r, Sound(r), NEW from \in ListId, NEW to \in ListId, from # to
  PROVE  /\ Sound(MoveAll(r, from, to))
         /\ MoveAll(r, from, to).in_list =
              [t \in Thread |-> IF r.in_list[t] = from THEN to ELSE r.in_list[t]]
         /\ MoveAll(r, from, to).ok = r.ok
<1> DEFINE p == MoveAll(r, from, to)
<1>1. /\ r.list \in [ListId -> Seq(Thread)] /\ r.in_list \in [Thread -> ListId \cup {NULL}]
      /\ r.ok \in BOOLEAN
      /\ \A l \in ListId : /\ IsInjective(r.list[l])
                           /\ \A u \in Thread : u \in Range(r.list[l]) <=> r.in_list[u] = l
  BY DEF Sound, QType, QueueOK
<1>2. /\ p.list = [r.list EXCEPT ![to] = @ \o r.list[from], ![from] = <<>>]
      /\ p.in_list = [t \in Thread |-> IF t \in Range(r.list[from]) THEN to ELSE r.in_list[t]]
      /\ p.ok = (r.ok /\ \A t \in Range(r.list[from]) : r.in_list[t] = from)
      /\ p = [list |-> p.list, in_list |-> p.in_list, ok |-> p.ok]
  BY DEF MoveAll
<1> HIDE DEF p
<1>3. \A l \in ListId : Range(r.list[l]) \subseteq Thread
  BY <1>1, LenProperties, ElementOfSeq DEF Range
<1>4. p.ok = r.ok
  BY <1>1, <1>2, <1>3
<1>5. p.in_list = [t \in Thread |-> IF r.in_list[t] = from THEN to ELSE r.in_list[t]]
  BY <1>1, <1>2
<1>6. /\ r.list[to] \o r.list[from] \in Seq(Thread) /\ <<>> \in Seq(Thread)
      /\ Range(r.list[to] \o r.list[from]) = Range(r.list[to]) \cup Range(r.list[from])
      /\ IsInjective(r.list[to] \o r.list[from])
  <2>1. Range(r.list[to]) \cap Range(r.list[from]) = {}
    <3>1. SUFFICES ASSUME NEW u \in Range(r.list[to]), u \in Range(r.list[from])
                   PROVE  FALSE
      OBVIOUS
    <3>2. u \in Thread
      BY <1>3
    <3> QED BY <1>1, <3>1, <3>2
  <2> QED BY <1>1, <2>1, ConcatRange, ConcatProperties, EmptySeq
<1>7. /\ p.list[to] = r.list[to] \o r.list[from]
      /\ p.list[from] = <<>>
      /\ \A k \in ListId \ {to, from} : p.list[k] = r.list[k]
  BY <1>1, <1>2
<1>8. p \in QType
  <2>1. p.list \in [ListId -> Seq(Thread)]
    <3>1. ASSUME NEW k \in ListId PROVE p.list[k] \in Seq(Thread)
      <4>1. CASE k = to
        BY <1>6, <1>7, <4>1
      <4>2. CASE k = from
        BY <1>6, <1>7, <4>2
      <4>3. CASE k \notin {to, from}
        BY <1>1, <1>7, <4>3
      <4> QED BY <4>1, <4>2, <4>3
    <3> QED BY <1>1, <1>2, <3>1
  <2>2. p.in_list \in [Thread -> ListId \cup {NULL}]
    BY <1>1, <1>5
  <2> QED BY <1>1, <1>2, <1>4, <2>1, <2>2 DEF QType
<1>9. QueueOK(p)
  <2> SUFFICES ASSUME NEW k \in ListId
               PROVE  /\ IsInjective(p.list[k])
                      /\ \A u \in Thread : u \in Range(p.list[k]) <=> p.in_list[u] = k
    BY DEF QueueOK
  <2>1. CASE k = to
    <3>1. IsInjective(p.list[k]) /\ Range(p.list[k]) = Range(r.list[to]) \cup Range(r.list[from])
      BY <1>6, <1>7, <2>1
    <3> QED BY <1>1, <1>5, <2>1, <3>1
  <2>2. CASE k = from
    <3>1. Range(<<>>) = {} /\ IsInjective(<<>>)
      BY DEF Range, IsInjective
    <3> QED BY <1>1, <1>5, <1>7, <2>2, <3>1
  <2>3. CASE k \notin {to, from}
    BY <1>1, <1>5, <1>7, <2>3
  <2> QED BY <2>1, <2>2, <2>3
<1> QED BY <1>4, <1>5, <1>8, <1>9 DEF Sound, p

(* release() empties free_list and takes its threads off every list. *)
LEMMA ReleaseSound ==
  ASSUME NEW r, Sound(r)
  PROVE  /\ Sound(Release(r))
         /\ Release(r).in_list =
              [t \in Thread |-> IF r.in_list[t] = free_list THEN NULL ELSE r.in_list[t]]
         /\ Release(r).ok = r.ok
<1> DEFINE p == Release(r)
<1>0. free_list \in ListId
  BY DEF ListId
<1>1. /\ r.list \in [ListId -> Seq(Thread)] /\ r.in_list \in [Thread -> ListId \cup {NULL}]
      /\ r.ok \in BOOLEAN
      /\ \A l \in ListId : /\ IsInjective(r.list[l])
                           /\ \A u \in Thread : u \in Range(r.list[l]) <=> r.in_list[u] = l
  BY DEF Sound, QType, QueueOK
<1>2. /\ p.list = [r.list EXCEPT ![free_list] = <<>>]
      /\ p.in_list = [t \in Thread |->
                        IF t \in Range(r.list[free_list]) THEN NULL ELSE r.in_list[t]]
      /\ p.ok = r.ok
      /\ p = [list |-> p.list, in_list |-> p.in_list, ok |-> p.ok]
  BY DEF Release
<1> HIDE DEF p
<1>3. p.in_list = [t \in Thread |-> IF r.in_list[t] = free_list THEN NULL ELSE r.in_list[t]]
  BY <1>0, <1>1, <1>2
<1>4. p \in QType
  <2>1. p.list \in [ListId -> Seq(Thread)]
    BY <1>0, <1>1, <1>2, EmptySeq
  <2>2. p.in_list \in [Thread -> ListId \cup {NULL}]
    BY <1>1, <1>3
  <2> QED BY <1>1, <1>2, <2>1, <2>2 DEF QType
<1>5. QueueOK(p)
  <2> SUFFICES ASSUME NEW k \in ListId
               PROVE  /\ IsInjective(p.list[k])
                      /\ \A u \in Thread : u \in Range(p.list[k]) <=> p.in_list[u] = k
    BY DEF QueueOK
  <2>1. NULL # k
    BY ThreadsAssumption
  <2>2. CASE k = free_list
    <3>1. Range(<<>>) = {} /\ IsInjective(<<>>)
      BY DEF Range, IsInjective
    <3> QED BY <1>1, <1>2, <1>3, <2>1, <2>2, <3>1
  <2>3. CASE k # free_list
    BY <1>1, <1>2, <1>3, <2>1, <2>3
  <2> QED BY <2>2, <2>3
<1> QED BY <1>2, <1>3, <1>4, <1>5 DEF Sound, p

(* run() takes the front of ready_list, or finds it empty. *)
LEMMA RunSound ==
  ASSUME NEW r, Sound(r), run(r)
  PROVE  /\ Sound(q') /\ q'.ok = r.ok
         /\ \/ /\ status' = "stuck" /\ q' = r /\ current' = current
               /\ \A t \in Thread : r.in_list[t] # ready_list
            \/ /\ status' = status
               /\ current' \in Thread /\ r.in_list[current'] = ready_list
               /\ q'.in_list = [r.in_list EXCEPT ![current'] = NULL]
<1>0. ready_list \in ListId
  BY DEF ListId
<1>1. CASE r.list[ready_list] = <<>>
  BY <1>0, <1>1, EmptyList DEF run
<1>2. CASE r.list[ready_list] # <<>>
  BY <1>0, <1>2, GetSound DEF run
<1> QED BY <1>1, <1>2
---------------------------------------------------------------------------
(* The inductive invariant.  The safety properties are not inductive by    *)
(* themselves: that a thread on a list is alive needs every way onto and   *)
(* off a list, that release() frees the right memory needs that a thread   *)
(* on free_list is dead, that the ASSERT in thread_exit holds needs that   *)
(* num_thrs counts the live threads.  Lists enter it through in_list.      *)

Listed(l) == {t \in Thread : q.in_list[t] = l}

(* The fields other than the lists have their types. *)
FieldsOK ==
  /\ current \in Thread
  /\ num_thrs \in Nat
  /\ heap \subseteq Thread \ {root}
  /\ handle \in [Thread -> Thread \cup {NULL, FREED}]
  /\ code \in [Thread -> Int]
  /\ pc \in [Thread -> Label]
  /\ status \in {"running", "halt", "stuck"}

(* Who runs, and what that leaves for the others. *)
Scheduled ==
  /\ status = "running" => current \in Live /\ q.in_list[current] = NULL
  /\ status = "halt" => Live = {} /\ current \in heap \cup {root}
  /\ status = "stuck" => Listed(ready_list) = {}
  /\ \A t \in Live : q.in_list[t] = NULL => status = "running" /\ t = current

(* Who is on a list. *)
Placed ==
  /\ \A t \in Thread : q.in_list[t] \notin {NULL, free_list} => t \in Live
  /\ \A t, u \in Thread : q.in_list[t] = u => u \in Live \ {t}
  /\ \A t \in Thread : q.in_list[t] = join_list => Live # {t}

(* Whose memory is whose. *)
Owned ==
  /\ heap = (Live \ {root}) \cup Listed(free_list)
  /\ Listed(free_list) \cap Live = {} /\ root \notin Listed(free_list)
  /\ \A t, u \in Listed(free_list) : t = u

(* The inductive invariant. *)
ThreadsInv ==
  /\ Sound(q) /\ q.ok
  /\ FieldsOK
  /\ Scheduled
  /\ Placed
  /\ Owned
  /\ num_thrs = Cardinality(Live)

(* The content of each list, read off the in_list fields. *)
LEMMA SoundLists ==
  ASSUME Sound(q)
  PROVE  /\ q.in_list \in [Thread -> ListId \cup {NULL}]
         /\ \A l \in ListId : Range(q.list[l]) = Listed(l)
         /\ Dead = Listed(free_list)
<1>1. /\ q.list \in [ListId -> Seq(Thread)] /\ q.in_list \in [Thread -> ListId \cup {NULL}]
      /\ \A l \in ListId : \A t \in Thread : t \in Range(q.list[l]) <=> q.in_list[t] = l
  BY DEF Sound, QType, QueueOK
<1>2. \A l \in ListId : Range(q.list[l]) \subseteq Thread
  BY <1>1, LenProperties, ElementOfSeq DEF Range
<1>3. \A l \in ListId : Range(q.list[l]) = Listed(l)
  BY <1>1, <1>2 DEF Listed
<1> QED BY <1>1, <1>3 DEF Dead, ListId

(* The names of the lists differ from each other and from NULL. *)
LEMMA Names ==
  /\ root \in Thread /\ Thread \subseteq ListId /\ WaitList \subseteq ListId
  /\ {ready_list, free_list, join_list} \subseteq ListId
  /\ {ready_list, free_list, join_list} \cap (Thread \cup WaitList) = {}
  /\ ready_list # free_list /\ ready_list # join_list /\ free_list # join_list
  /\ NULL \notin ListId /\ Thread \cap WaitList = {}
  /\ FREED \notin Thread /\ Code \subseteq Int
BY ThreadsAssumption DEF ListId

(* The live threads can be counted. *)
LEMMA LiveFinite == IsFiniteSet(Live) /\ Cardinality(Live) \in Nat /\ Live \subseteq Thread
<1>1. Live \subseteq Thread
  BY DEF Live
<1> QED BY <1>1, ThreadsAssumption, FS_Subset, FS_CardinalityType

(* thread_init establishes the invariant. *)
LEMMA ThreadsInitInv == ThreadsInit => ThreadsInv
<1> SUFFICES ASSUME ThreadsInit PROVE ThreadsInv
  OBVIOUS
<1> USE Names
<1>1. /\ q = [list |-> [l \in ListId |-> <<>>],
              in_list |-> [t \in Thread |-> NULL], ok |-> TRUE]
      /\ current = root /\ num_thrs = 1 /\ heap = {}
      /\ handle = [t \in Thread |-> IF t = root THEN root ELSE NULL]
      /\ code = [t \in Thread |-> 0] /\ pc = [t \in Thread |-> "user"] /\ status = "running"
  BY DEF ThreadsInit, ThreadsStart
<1>2. Sound(q)
  <2>1. q \in QType
    BY <1>1, EmptySeq DEF QType
  <2>2. Range(<<>>) = {} /\ IsInjective(<<>>)
    BY DEF Range, IsInjective
  <2>3. QueueOK(q)
    BY <1>1, <2>2 DEF QueueOK
  <2> QED BY <2>1, <2>3 DEF Sound
<1>3. FieldsOK
  <2>1. pc \in [Thread -> Label] /\ code \in [Thread -> Int]
    <3>1. "user" \in Label
      BY DEF Label
    <3>2. pc \in [Thread -> Label]
      BY <1>1, <3>1
    <3>3. code \in [Thread -> Int]
      BY <1>1
    <3> QED BY <3>2, <3>3
  <2>2. handle \in [Thread -> Thread \cup {NULL, FREED}]
    BY <1>1
  <2> QED BY <1>1, <2>1, <2>2 DEF FieldsOK
<1>4. Live = {root} /\ \A l \in ListId : Listed(l) = {}
  BY <1>1 DEF Live, Listed
<1>5. num_thrs = Cardinality(Live)
  BY <1>1, <1>4, FS_Singleton
<1>6. Scheduled /\ Placed /\ Owned
  BY <1>1, <1>4 DEF Scheduled, Placed, Owned
<1> QED BY <1>1, <1>2, <1>3, <1>5, <1>6 DEF ThreadsInv

(* The running thread blocks on l. *)
LEMMA BlockInv ==
  ASSUME ThreadsInv, status = "running",
         NEW l \in ListId, l # free_list,
         l \in Thread => l \in Live \ {current},
         l = join_list => Live # {current},
         NEW label \in Label, Block(l, label)
  PROVE  ThreadsInv'
<1> USE Names
<1> DEFINE r == Put(q, current, l)
<1>1. /\ Sound(q) /\ q.ok /\ FieldsOK /\ Scheduled /\ Placed /\ Owned
      /\ num_thrs = Cardinality(Live)
      /\ current \in Live /\ q.in_list[current] = NULL
      /\ q.in_list \in [Thread -> ListId \cup {NULL}]
  BY SoundLists DEF ThreadsInv, Scheduled
<1>2. Sound(r) /\ r.in_list = [q.in_list EXCEPT ![current] = l] /\ r.ok
  BY <1>1, PutSound DEF FieldsOK
<1>3. run(r) /\ pc' = [pc EXCEPT ![current] = label]
      /\ UNCHANGED <<num_thrs, heap, handle, code>>
  BY DEF Block
<1> HIDE DEF r
<1>4. Live' = Live
  BY <1>3 DEF Live
<1>5. /\ Sound(q') /\ q'.ok
      /\ \/ /\ status' = "stuck" /\ q' = r /\ current' = current
            /\ \A t \in Thread : r.in_list[t] # ready_list
         \/ /\ status' = status
            /\ current' \in Thread /\ r.in_list[current'] = ready_list
            /\ q'.in_list = [r.in_list EXCEPT ![current'] = NULL]
  BY <1>2, <1>3, RunSound
<1>6. \A t \in Thread :
        /\ r.in_list[t] \notin {NULL, free_list} => t \in Live
        /\ \A u \in Thread : r.in_list[t] = u => u \in Live \ {t}
        /\ r.in_list[t] = join_list => Live # {t}
        /\ t \in Live => r.in_list[t] # NULL
        /\ r.in_list[t] = free_list <=> q.in_list[t] = free_list
  BY <1>1, <1>2 DEF Placed, FieldsOK, Scheduled, Owned, Listed
<1>7. \A t \in Thread : q'.in_list[t] # r.in_list[t] =>
        r.in_list[t] = ready_list /\ q'.in_list[t] = NULL /\ t = current' /\ status' = status
  BY <1>1, <1>2, <1>5
<1>8. FieldsOK'
  BY <1>1, <1>3, <1>5 DEF FieldsOK
<1>9. Listed(free_list)' = Listed(free_list)
  BY <1>6, <1>7 DEF Listed
<1>10. Owned'
  BY <1>1, <1>3, <1>4, <1>9 DEF Owned
<1>11. Placed'
  BY <1>4, <1>6, <1>7 DEF Placed
<1>12. Scheduled'
  <2>1. CASE status' = "stuck"
    <3>1. q' = r /\ \A t \in Thread : r.in_list[t] # ready_list
      BY <1>5, <2>1
    <3>2. Listed(ready_list)' = {}
      BY <3>1 DEF Listed
    <3>3. \A t \in Live' : q'.in_list[t] # NULL
      BY <1>4, <1>6, <3>1 DEF Live
    <3> QED BY <2>1, <3>2, <3>3 DEF Scheduled
  <2>2. CASE status' # "stuck"
    <3>1. status' = "running" /\ current' \in Thread /\ q'.in_list[current'] = NULL
          /\ current' \in Live /\ r.in_list[current'] = ready_list
      BY <1>1, <1>2, <1>5, <1>6, <2>2
    <3> QED BY <1>4, <1>6, <1>7, <3>1 DEF Scheduled, Live
  <2> QED BY <2>1, <2>2
<1> QED BY <1>1, <1>3, <1>4, <1>5, <1>8, <1>10, <1>11, <1>12 DEF ThreadsInv
(* The first thread of l becomes ready and the caller goes on. *)
LEMMA WakeInv ==
  ASSUME ThreadsInv, status = "running",
         NEW l \in ListId, l # free_list, q.list[l] # <<>>,
         Wake(l), pc' \in [Thread -> Label]
  PROVE  ThreadsInv'
<1> USE Names
<1> DEFINE t == Head(q.list[l])
<1>1. /\ Sound(q) /\ q.ok /\ FieldsOK /\ Scheduled /\ Placed /\ Owned
      /\ num_thrs = Cardinality(Live)
      /\ q.in_list \in [Thread -> ListId \cup {NULL}]
  BY SoundLists DEF ThreadsInv
<1>2. q' = Move(q, l, ready_list) /\ UNCHANGED <<current, num_thrs, heap, handle, code, status>>
  BY DEF Wake
<1>3. /\ t \in Thread /\ q.in_list[t] = l /\ Sound(q') /\ q'.ok
      /\ q'.in_list = [q.in_list EXCEPT ![t] = ready_list]
  BY <1>1, <1>2, MoveSound
<1> HIDE DEF t
<1>4. Live' = Live
  BY <1>2 DEF Live
<1>5. t \in Live
  BY <1>1, <1>3 DEF Placed
<1>6. Listed(free_list)' = Listed(free_list)
  BY <1>1, <1>3 DEF Listed
<1>7. FieldsOK'
  BY <1>1, <1>2 DEF FieldsOK
<1>8. Owned'
  BY <1>1, <1>2, <1>4, <1>6 DEF Owned
<1>9. Placed'
  BY <1>1, <1>3, <1>4, <1>5 DEF Placed
<1>10. Scheduled'
  BY <1>1, <1>2, <1>3, <1>4, <1>5 DEF Scheduled
<1> QED BY <1>1, <1>2, <1>3, <1>4, <1>7, <1>8, <1>9, <1>10 DEF ThreadsInv

(* A step that leaves everything but pc, or but the fields of the objects  *)
(* built on the scheduler, as it is.                                       *)
LEMMA StayInv ==
  ASSUME ThreadsInv, pc' \in [Thread -> Label],
         UNCHANGED <<q, current, num_thrs, heap, handle, code, status>>
  PROVE  ThreadsInv'
<1>1. Live' = Live /\ \A l : Listed(l)' = Listed(l)
  BY DEF Live, Listed
<1>2. Scheduled'
  BY <1>1 DEF ThreadsInv, Scheduled
<1>3. Placed' /\ Owned'
  BY <1>1 DEF ThreadsInv, Placed, Owned
<1>4. FieldsOK'
  BY DEF ThreadsInv, FieldsOK
<1> QED BY <1>1, <1>2, <1>3, <1>4 DEF ThreadsInv

(* What release() leaves, at the start of thread_new and thread_exit. *)
LEMMA AfterRelease ==
  ASSUME ThreadsInv, status = "running"
  PROVE  /\ Sound(Release(q)) /\ Release(q).ok
         /\ Release(q).in_list =
              [t \in Thread |-> IF q.in_list[t] = free_list THEN NULL ELSE q.in_list[t]]
         /\ handleAfterRelease \in [Thread -> Thread \cup {NULL, FREED}]
         /\ \A t \in Thread : handleAfterRelease[t] = t <=> t \in Live
         /\ heap \ Dead = Live \ {root}
         /\ current \in Live /\ q.in_list[current] = NULL
<1> USE Names
<1>1. /\ Sound(q) /\ q.ok /\ FieldsOK /\ Scheduled /\ Owned
      /\ q.in_list \in [Thread -> ListId \cup {NULL}]
      /\ Dead = Listed(free_list)
  BY SoundLists DEF ThreadsInv
<1>2. Sound(Release(q)) /\ Release(q).ok
      /\ Release(q).in_list =
              [t \in Thread |-> IF q.in_list[t] = free_list THEN NULL ELSE q.in_list[t]]
  BY <1>1, ReleaseSound
<1>3. handleAfterRelease \in [Thread -> Thread \cup {NULL, FREED}]
  BY <1>1 DEF handleAfterRelease, FieldsOK
<1>4. \A t \in Thread : handleAfterRelease[t] = t <=> t \in Live
  BY <1>1 DEF handleAfterRelease, Live, Owned
<1>5. heap \ Dead = Live \ {root}
  BY <1>1 DEF Owned
<1> QED BY <1>1, <1>2, <1>3, <1>4, <1>5 DEF Scheduled

(* thread_new, when malloc succeeds and when it fails. *)
LEMMA NewInv ==
  ASSUME ThreadsInv, NEW t \in Thread, thread_new(t)
  PROVE  ThreadsInv'
<1> USE Names
<1> DEFINE r == Release(q)
<1>1. /\ status = "running" /\ t # root /\ t \notin heap \ Dead
      /\ q' = Put(r, t, ready_list)
      /\ heap' = (heap \ Dead) \cup {t}
      /\ handle' = [handleAfterRelease EXCEPT ![t] = t]
      /\ code' = [code EXCEPT ![t] = 0]
      /\ pc' = [pc EXCEPT ![t] = "user"]
      /\ num_thrs' = num_thrs + 1
      /\ UNCHANGED <<current, status>>
  BY DEF thread_new, At
<1>2. /\ FieldsOK /\ Scheduled /\ Placed /\ Owned
      /\ num_thrs = Cardinality(Live)
      /\ q.in_list \in [Thread -> ListId \cup {NULL}]
      /\ Live \subseteq Thread
  BY SoundLists, LiveFinite DEF ThreadsInv
<1>3. /\ Sound(r) /\ r.ok
      /\ r.in_list = [u \in Thread |-> IF q.in_list[u] = free_list THEN NULL ELSE q.in_list[u]]
      /\ handleAfterRelease \in [Thread -> Thread \cup {NULL, FREED}]
      /\ \A u \in Thread : handleAfterRelease[u] = u <=> u \in Live
      /\ heap \ Dead = Live \ {root}
      /\ current \in Live /\ q.in_list[current] = NULL
  BY <1>1, AfterRelease
<1> HIDE DEF r
<1>4. t \notin Live
  BY <1>1, <1>3
<1>5. r.in_list[t] = NULL
  BY <1>2, <1>3, <1>4 DEF Placed
<1>6. Sound(q') /\ q'.ok /\ q'.in_list = [r.in_list EXCEPT ![t] = ready_list]
  BY <1>1, <1>3, <1>5, PutSound
<1>7. \A u \in Thread :
        q'.in_list[u] = IF u = t THEN ready_list
                        ELSE IF q.in_list[u] = free_list THEN NULL ELSE q.in_list[u]
  BY <1>3, <1>6
<1>8. Live' = Live \cup {t}
  <2>1. \A u \in Thread : handle'[u] = u <=> u \in Live \cup {t}
    BY <1>1, <1>3
  <2> QED BY <1>2, <2>1 DEF Live
<1>9. num_thrs' = Cardinality(Live')
  BY <1>1, <1>2, <1>4, <1>8, LiveFinite, FS_AddElement
<1>10. FieldsOK'
  <2>1. pc' \in [Thread -> Label]
    BY <1>1, <1>2 DEF FieldsOK, Label
  <2>2. handle' \in [Thread -> Thread \cup {NULL, FREED}]
    BY <1>1, <1>3
  <2>3. heap' \subseteq Thread \ {root}
    BY <1>1, <1>2 DEF FieldsOK
  <2>4. code' \in [Thread -> Int]
    BY <1>1, <1>2 DEF FieldsOK
  <2> QED BY <1>1, <1>2, <2>1, <2>2, <2>3, <2>4 DEF FieldsOK
<1>11. Listed(free_list)' = {}
  BY <1>7 DEF Listed
<1>12. Owned'
  BY <1>1, <1>3, <1>8, <1>11 DEF Owned
<1>13. Placed'
  BY <1>2, <1>3, <1>4, <1>7, <1>8 DEF Placed
<1>14. Scheduled'
  <2>1. \A u \in Live' : q'.in_list[u] = NULL => u = current
    BY <1>2, <1>7, <1>8 DEF Scheduled, Owned, Listed
  <2>2. current' \in Live' /\ q'.in_list[current'] = NULL
    <3>1. current \in Thread /\ current # t
      BY <1>2, <1>3, <1>4
    <3>2. q'.in_list[current] = NULL
      BY <1>3, <1>7, <3>1
    <3> QED BY <1>1, <1>3, <1>8, <3>2
  <2> QED BY <1>1, <2>1, <2>2 DEF Scheduled
<1> QED BY <1>6, <1>9, <1>10, <1>12, <1>13, <1>14 DEF ThreadsInv

(* A failed thread_new keeps the invariant: only release() has run. *)
LEMMA NewFailsInv ==
  ASSUME ThreadsInv, thread_new_fails
  PROVE  ThreadsInv'
<1> USE Names
<1>1. /\ status = "running"
      /\ q' = Release(q) /\ heap' = heap \ Dead /\ handle' = handleAfterRelease
      /\ UNCHANGED <<current, num_thrs, code, pc, status>>
  BY DEF thread_new_fails, At
<1>2. /\ FieldsOK /\ Scheduled /\ Placed /\ Owned
      /\ num_thrs = Cardinality(Live)
      /\ q.in_list \in [Thread -> ListId \cup {NULL}]
      /\ Live \subseteq Thread
  BY SoundLists, LiveFinite DEF ThreadsInv
<1>3. /\ Sound(q') /\ q'.ok
      /\ q'.in_list = [u \in Thread |-> IF q.in_list[u] = free_list THEN NULL ELSE q.in_list[u]]
      /\ handle' \in [Thread -> Thread \cup {NULL, FREED}]
      /\ \A u \in Thread : handle'[u] = u <=> u \in Live
      /\ heap' = Live \ {root}
      /\ current \in Live /\ q.in_list[current] = NULL
  BY <1>1, AfterRelease
<1>4. Live' = Live
  BY <1>2, <1>3 DEF Live
<1>5. Listed(free_list)' = {}
  BY <1>3 DEF Listed
<1>6. FieldsOK'
  BY <1>1, <1>2, <1>3 DEF FieldsOK
<1>7. Owned'
  BY <1>3, <1>4, <1>5 DEF Owned
<1>8. Placed'
  BY <1>2, <1>3, <1>4 DEF Placed
<1>9. Scheduled'
  BY <1>1, <1>2, <1>3, <1>4 DEF Scheduled, Owned, Listed
<1> QED BY <1>1, <1>2, <1>3, <1>4, <1>6, <1>7, <1>8, <1>9 DEF ThreadsInv
(* The lists at the end of thread_exit: in particular the ASSERT that      *)
(* ready_list is empty when the thread that waits for all is woken holds,  *)
(* since the exiting thread and the waiting one are all that is alive.     *)
LEMMA ExitListsSound ==
  ASSUME ThreadsInv, status = "running"
  PROVE  LET r == ExitLists(Release(q))
         IN /\ Sound(r) /\ r.ok
            /\ \A t \in Thread :
                 r.in_list[t] =
                   IF t = current THEN IF current = root THEN NULL ELSE free_list
                   ELSE IF q.in_list[t] = free_list THEN NULL
                   ELSE IF q.in_list[t] = current THEN ready_list
                   ELSE IF q.in_list[t] = join_list /\ num_thrs = 2 THEN ready_list
                   ELSE q.in_list[t]
<1> USE Names
<1> DEFINE r0 == Release(q)
           r1 == Buried(r0)
           r2 == Departed(r0)
           r3 == ExitLists(r0)
<1>1. /\ FieldsOK /\ Scheduled /\ Placed /\ Owned
      /\ num_thrs = Cardinality(Live)
      /\ q.in_list \in [Thread -> ListId \cup {NULL}]
      /\ current \in Thread
  BY SoundLists DEF ThreadsInv, FieldsOK
<1>2. /\ Sound(r0) /\ r0.ok
      /\ r0.in_list = [t \in Thread |-> IF q.in_list[t] = free_list THEN NULL ELSE q.in_list[t]]
      /\ current \in Live /\ q.in_list[current] = NULL
  BY AfterRelease
<1>3. /\ r1 = IF current = root THEN r0 ELSE Put(r0, current, free_list)
      /\ r2 = MoveAll(r1, current, ready_list)
      /\ r3 = IF r2.list[join_list] # <<>> /\ num_thrs = 2
              THEN Move(Asserting(r2, r2.list[ready_list] = <<>>), join_list, ready_list)
              ELSE r2
  BY DEF Buried, Departed, ExitLists
<1> HIDE DEF r0, r1, r2, r3
<1>4. /\ Sound(r1) /\ r1.ok
      /\ \A t \in Thread :
           r1.in_list[t] = IF t = current /\ current # root THEN free_list ELSE r0.in_list[t]
  <2>1. CASE current = root
    BY <1>2, <1>3, <2>1
  <2>2. CASE current # root
    <3>1. r0.in_list[current] = NULL
      BY <1>1, <1>2
    <3>2. /\ Sound(Put(r0, current, free_list)) /\ Put(r0, current, free_list).ok
          /\ Put(r0, current, free_list).in_list = [r0.in_list EXCEPT ![current] = free_list]
      BY <1>1, <1>2, <3>1, PutSound
    <3> QED BY <1>2, <1>3, <2>2, <3>2
  <2> QED BY <2>1, <2>2
<1>5. /\ Sound(r2) /\ r2.ok
      /\ \A t \in Thread :
           r2.in_list[t] = IF r1.in_list[t] = current THEN ready_list ELSE r1.in_list[t]
  <2>1. Sound(r1) /\ current \in ListId /\ ready_list \in ListId /\ current # ready_list
    BY <1>1, <1>4
  <2>2. /\ Sound(MoveAll(r1, current, ready_list))
        /\ MoveAll(r1, current, ready_list).in_list =
             [t \in Thread |-> IF r1.in_list[t] = current THEN ready_list ELSE r1.in_list[t]]
        /\ MoveAll(r1, current, ready_list).ok = r1.ok
    BY <2>1, MoveAllSound
  <2> QED BY <1>3, <1>4, <2>2
<1>6. \A t \in Thread :
        r2.in_list[t] =
          IF t = current THEN IF current = root THEN NULL ELSE free_list
          ELSE IF q.in_list[t] = free_list THEN NULL
          ELSE IF q.in_list[t] = current THEN ready_list
          ELSE q.in_list[t]
  BY <1>1, <1>2, <1>4, <1>5
<1> DEFINE wakes == r2.list[join_list] # <<>> /\ num_thrs = 2
           w == Head(r2.list[join_list])
<1>7. CASE ~wakes
  <2>1. r3 = r2
    BY <1>3, <1>7
  <2>2. \A t \in Thread : q.in_list[t] = join_list => num_thrs # 2
    <3>1. SUFFICES ASSUME NEW t \in Thread, q.in_list[t] = join_list
                   PROVE  num_thrs # 2
      OBVIOUS
    <3>2. t # current /\ r2.in_list[t] = join_list
      BY <1>1, <1>2, <1>6, <3>1
    <3>3. r2.list[join_list] # <<>>
      BY <1>5, <3>2, EmptyList
    <3> QED BY <1>7, <3>3
  <2> QED BY <1>5, <1>6, <2>1, <2>2 DEF r0, r3
<1>8. CASE wakes
  <2>1. w \in Thread /\ r2.in_list[w] = join_list
    BY <1>5, <1>8, GetSound
  <2>2. w # current /\ q.in_list[w] = join_list /\ w \in Live
    BY <1>1, <1>6, <2>1 DEF Placed
  <2>3. Live = {current, w}
    <3>1. IsFiniteSet(Live \ {current}) /\ Cardinality(Live \ {current}) = 1
      <4>1. IsFiniteSet(Live) /\ Cardinality(Live) = 2
        BY <1>1, <1>8, LiveFinite
      <4> QED BY <1>2, <4>1, FS_RemoveElement
    <3>2. PICK x : Live \ {current} = {x}
      BY <3>1, FS_Singleton
    <3> QED BY <1>2, <2>2, <3>2
  <2>4. r2.list[ready_list] = <<>>
    <3>1. SUFFICES ASSUME NEW t \in Thread, r2.in_list[t] = ready_list
                   PROVE  FALSE
      BY <1>5, EmptyList
    <3>2. t # current /\ (q.in_list[t] = current \/ q.in_list[t] = ready_list)
      BY <1>1, <1>6, <3>1
    <3>3. t \in Live
      BY <1>1, <3>2 DEF Placed
    <3> QED BY <1>1, <2>2, <2>3, <3>2, <3>3
  <2>5. Asserting(r2, r2.list[ready_list] = <<>>) = r2
    <3>1. r2 = [list |-> r2.list, in_list |-> r2.in_list, ok |-> r2.ok] /\ r2.ok = TRUE
      BY <1>5 DEF Sound, QType
    <3>2. Asserting(r2, TRUE) = r2
      BY <3>1 DEF Asserting
    <3> QED BY <2>4, <3>2
  <2>6. /\ Sound(r3) /\ r3.ok
        /\ r3.in_list = [r2.in_list EXCEPT ![w] = ready_list]
    <3>1. r3 = Move(r2, join_list, ready_list)
      BY <1>3, <1>8, <2>5
    <3> QED BY <1>5, <1>8, <3>1, MoveSound
  <2>7. \A t \in Thread : q.in_list[t] = join_list => t = w
    BY <1>1, <1>2, <2>3 DEF Placed
  <2>8. r2.in_list \in [Thread -> ListId \cup {NULL}]
    BY <1>5 DEF Sound, QType
  <2>9. num_thrs = 2
    BY <1>8
  <2> HIDE DEF w, wakes
  <2>10. \A t \in Thread : r3.in_list[t] = IF t = w THEN ready_list ELSE r2.in_list[t]
    BY <2>1, <2>6, <2>8
  <2>11. \A t \in Thread :
                 r3.in_list[t] =
                   IF t = current THEN IF current = root THEN NULL ELSE free_list
                   ELSE IF q.in_list[t] = free_list THEN NULL
                   ELSE IF q.in_list[t] = current THEN ready_list
                   ELSE IF q.in_list[t] = join_list /\ num_thrs = 2 THEN ready_list
                   ELSE q.in_list[t]
    BY <1>1, <1>6, <2>2, <2>7, <2>9, <2>10
  <2> QED BY <2>6, <2>11 DEF r3, r0
<1> QED BY <1>7, <1>8

(* thread_exit keeps the invariant. *)
LEMMA ExitInv ==
  ASSUME ThreadsInv, NEW c \in Code, thread_exit(c)
  PROVE  ThreadsInv'
<1> USE Names
<1> DEFINE r == ExitLists(Release(q))
<1>1. /\ status = "running"
      /\ heap' = heap \ Dead
      /\ handle' = [handleAfterRelease EXCEPT ![current] = NULL]
      /\ code' = [t \in Thread |-> IF t \in Range(q.list[current]) THEN c ELSE code[t]]
      /\ num_thrs' = num_thrs - 1
      /\ IF num_thrs' = 0 THEN status' = "halt" /\ q' = r /\ current' = current ELSE run(r)
      /\ pc' = pc
  BY DEF thread_exit, At
<1>2. /\ FieldsOK /\ Scheduled /\ Placed /\ Owned
      /\ num_thrs = Cardinality(Live)
      /\ q.in_list \in [Thread -> ListId \cup {NULL}]
      /\ Live \subseteq Thread /\ current \in Thread
  BY SoundLists, LiveFinite DEF ThreadsInv, FieldsOK
<1>3. /\ handleAfterRelease \in [Thread -> Thread \cup {NULL, FREED}]
      /\ \A u \in Thread : handleAfterRelease[u] = u <=> u \in Live
      /\ heap \ Dead = Live \ {root}
      /\ current \in Live /\ q.in_list[current] = NULL
  BY <1>1, AfterRelease
<1>4. /\ Sound(r) /\ r.ok
      /\ \A t \in Thread :
           r.in_list[t] =
             IF t = current THEN IF current = root THEN NULL ELSE free_list
             ELSE IF q.in_list[t] = free_list THEN NULL
             ELSE IF q.in_list[t] = current THEN ready_list
             ELSE IF q.in_list[t] = join_list /\ num_thrs = 2 THEN ready_list
             ELSE q.in_list[t]
  BY <1>1, ExitListsSound
<1> HIDE DEF r
<1>5. Live' = Live \ {current}
  <2>1. \A u \in Thread : handle'[u] = u <=> u \in Live \ {current}
    BY <1>1, <1>2, <1>3
  <2> QED BY <1>2, <2>1 DEF Live
<1>6. /\ num_thrs' = Cardinality(Live') /\ num_thrs' \in Nat
      /\ num_thrs' = 0 <=> Live' = {}
      /\ \A t : Live' = {t} => num_thrs = 2
  <2>1. num_thrs' = Cardinality(Live') /\ IsFiniteSet(Live') /\ num_thrs' \in Nat
    <3>1. IsFiniteSet(Live)
      BY LiveFinite
    <3>2. IsFiniteSet(Live') /\ Cardinality(Live') = Cardinality(Live) - 1
      BY <1>3, <1>5, <3>1, FS_RemoveElement
    <3>3. Cardinality(Live') \in Nat
      BY <3>2, FS_CardinalityType
    <3> QED BY <1>1, <1>2, <3>2, <3>3
  <2>2. num_thrs' = 0 <=> Live' = {}
    BY <2>1, FS_EmptySet
  <2>3. \A t : Live' = {t} => num_thrs' = 1
    BY <2>1, FS_Singleton
  <2>4. num_thrs \in Nat
    BY <1>2, LiveFinite
  <2> QED BY <1>1, <2>1, <2>2, <2>3, <2>4
<1>7. /\ Sound(q') /\ q'.ok
      /\ \/ /\ num_thrs' = 0 /\ status' = "halt" /\ q' = r /\ current' = current
         \/ /\ num_thrs' # 0 /\ status' = "stuck" /\ q' = r /\ current' = current
            /\ \A t \in Thread : r.in_list[t] # ready_list
         \/ /\ num_thrs' # 0 /\ status' = "running"
            /\ current' \in Thread /\ r.in_list[current'] = ready_list
            /\ q'.in_list = [r.in_list EXCEPT ![current'] = NULL]
  <2>1. CASE num_thrs' = 0
    BY <1>1, <1>4, <2>1
  <2>2. CASE num_thrs' # 0
    BY <1>1, <1>4, <2>2, RunSound
  <2> QED BY <2>1, <2>2
<1>8. \A t \in Thread :
        /\ r.in_list[t] \notin {NULL, free_list} => t \in Live'
        /\ \A u \in Thread : r.in_list[t] = u => u \in Live' \ {t}
        /\ r.in_list[t] = join_list => num_thrs # 2
        /\ t \in Live' => r.in_list[t] # NULL
        /\ r.in_list[t] = free_list <=> t = current /\ current # root
  <2> SUFFICES ASSUME NEW t \in Thread
               PROVE  /\ r.in_list[t] \notin {NULL, free_list} => t \in Live'
                      /\ \A u \in Thread : r.in_list[t] = u => u \in Live' \ {t}
                      /\ r.in_list[t] = join_list => num_thrs # 2
                      /\ t \in Live' => r.in_list[t] # NULL
                      /\ r.in_list[t] = free_list <=> t = current /\ current # root
    OBVIOUS
  <2>1. CASE t = current
    BY <1>2, <1>4, <1>5, <2>1
  <2>2. CASE t # current /\ q.in_list[t] = free_list
    BY <1>2, <1>4, <1>5, <2>2 DEF Owned, Listed
  <2>3. CASE t # current /\ q.in_list[t] # free_list
    <3>1. /\ q.in_list[t] # NULL => t \in Live
          /\ t \in Live => q.in_list[t] # NULL
          /\ \A u \in Thread : q.in_list[t] = u => u \in Live \ {t}
      BY <1>2, <2>3 DEF Placed, Scheduled
    <3> QED BY <1>2, <1>4, <1>5, <2>3, <3>1
  <2> QED BY <2>1, <2>2, <2>3
<1>9. \A t \in Thread :
        q'.in_list[t] # r.in_list[t] =>
          r.in_list[t] = ready_list /\ q'.in_list[t] = NULL /\ t = current' /\ status' = "running"
  <2>1. r.in_list \in [Thread -> ListId \cup {NULL}]
    BY <1>4 DEF Sound, QType
  <2> QED BY <1>7, <2>1
<1>10. FieldsOK'
  <2>1. code' \in [Thread -> Int]
    BY <1>1, <1>2 DEF FieldsOK
  <2>2. handle' \in [Thread -> Thread \cup {NULL, FREED}]
    BY <1>1, <1>3
  <2>3. current' \in Thread /\ status' \in {"running", "halt", "stuck"}
    BY <1>2, <1>7
  <2> QED BY <1>1, <1>2, <1>6, <2>1, <2>2, <2>3 DEF FieldsOK
<1>11. Listed(free_list)' = {current} \ {root}
  <2>1. \A t \in Thread : q'.in_list[t] = free_list <=> r.in_list[t] = free_list
    BY <1>9
  <2> QED BY <1>2, <1>8, <2>1 DEF Listed
<1>12. Owned'
  BY <1>1, <1>3, <1>5, <1>11 DEF Owned
<1>13. Placed'
  <2>1. \A t \in Thread : q'.in_list[t] = join_list => Live' # {t}
    BY <1>6, <1>8, <1>9
  <2> QED BY <1>8, <1>9, <2>1 DEF Placed
<1>14. Scheduled'
  <2>1. CASE status' = "halt"
    <3>1. Live' = {} /\ current' \in heap' \cup {root}
      BY <1>6, <1>7, <1>11, <1>12, <2>1 DEF Owned
    <3> QED BY <2>1, <3>1 DEF Scheduled
  <2>2. CASE status' = "stuck"
    <3>1. q' = r /\ \A t \in Thread : r.in_list[t] # ready_list
      BY <1>7, <2>2
    <3>2. Listed(ready_list)' = {}
      BY <3>1 DEF Listed
    <3>3. \A t \in Live' : q'.in_list[t] # NULL
      BY <1>2, <1>5, <1>8, <3>1
    <3> QED BY <2>2, <3>2, <3>3 DEF Scheduled
  <2>3. CASE status' = "running"
    <3>1. /\ current' \in Thread /\ r.in_list[current'] = ready_list
          /\ q'.in_list = [r.in_list EXCEPT ![current'] = NULL]
          /\ r.in_list \in [Thread -> ListId \cup {NULL}]
      BY <1>4, <1>7, <2>3 DEF Sound, QType
    <3>2. current' \in Live' /\ q'.in_list[current'] = NULL
      BY <1>8, <3>1
    <3>3. \A t \in Live' : q'.in_list[t] = NULL => t = current'
      BY <1>2, <1>5, <1>8, <1>9
    <3> QED BY <2>3, <3>2, <3>3 DEF Scheduled
  <2> QED BY <1>7, <2>1, <2>2, <2>3
<1> QED BY <1>6, <1>7, <1>10, <1>12, <1>13, <1>14 DEF ThreadsInv
(* Every step of the scheduler keeps the invariant. *)
LEMMA ThreadsNextInv ==
  ASSUME ThreadsInv, ThreadsNext
  PROVE  ThreadsInv'
<1> USE Names
<1>1. /\ FieldsOK /\ Scheduled /\ num_thrs = Cardinality(Live)
      /\ pc \in [Thread -> Label]
  BY DEF ThreadsInv, FieldsOK
<1>2. ASSUME NEW t \in Thread, thread_new(t) PROVE ThreadsInv'
  BY <1>2, NewInv
<1>3. CASE thread_new_fails
  BY <1>3, NewFailsInv
<1>4. ASSUME NEW c \in Code, thread_exit(c) PROVE ThreadsInv'
  BY <1>4, ExitInv
<1>5. ASSUME NEW thr \in Thread, thread_join(thr) PROVE ThreadsInv'
  <2>1. CASE handle[thr] = thr
    <3>1. thr \in Live \ {current} /\ status = "running" /\ Block(thr, "join")
      BY <1>5, <2>1 DEF thread_join, At, Live
    <3>2. "join" \in Label /\ thr \in ListId /\ thr # free_list /\ thr # join_list
      BY DEF Label
    <3> QED BY <3>1, <3>2, BlockInv
  <2>2. CASE handle[thr] # thr
    <3>1. UNCHANGED <<q, current, num_thrs, heap, handle, code, pc, status>>
      BY <1>5, <2>2 DEF thread_join, threadVars
    <3> QED BY <1>1, <3>1, StayInv
  <2> QED BY <2>1, <2>2
<1>6. CASE thread_join_return \/ thread_join_all_return
  <2>1. /\ pc' = [pc EXCEPT ![current] = "user"] /\ "user" \in Label
        /\ UNCHANGED <<q, current, num_thrs, heap, handle, code, status>>
    BY <1>6 DEF thread_join_return, thread_join_all_return, Label
  <2> QED BY <1>1, <2>1, StayInv
<1>7. CASE thread_join_all
  <2>1. CASE num_thrs > 1
    <3>1. status = "running" /\ Block(join_list, "join_all") /\ "join_all" \in Label
      BY <1>7, <2>1 DEF thread_join_all, At, Label
    <3>2. Live # {current}
      BY <1>1, <2>1, FS_Singleton
    <3> QED BY <3>1, <3>2, BlockInv
  <2>2. CASE ~(num_thrs > 1)
    <3>1. UNCHANGED <<q, current, num_thrs, heap, handle, code, pc, status>>
      BY <1>7, <2>2 DEF thread_join_all, threadVars
    <3> QED BY <1>1, <3>1, StayInv
  <2> QED BY <2>1, <2>2
<1>8. CASE thread_pause
  <2>1. status = "running" /\ Block(ready_list, "user") /\ "user" \in Label
    BY <1>8 DEF thread_pause, At, Label
  <2> QED BY <2>1, BlockInv
<1> QED BY <1>2, <1>3, <1>4, <1>5, <1>6, <1>7, <1>8 DEF ThreadsNext

(* The invariant speaks of the scheduler's variables only. *)
LEMMA ThreadsStutterInv == ThreadsInv /\ UNCHANGED threadVars => ThreadsInv'
<1> SUFFICES ASSUME ThreadsInv, UNCHANGED threadVars PROVE ThreadsInv'
  OBVIOUS
<1>1. pc' \in [Thread -> Label] /\ UNCHANGED <<q, current, num_thrs, heap, handle, code, status>>
  BY DEF ThreadsInv, FieldsOK, threadVars
<1> QED BY <1>1, StayInv

(* The invariant holds throughout. *)
THEOREM InvariantHolds == ThreadsSpec => []ThreadsInv
<1>1. ThreadsInv /\ [ThreadsNext]_threadVars => ThreadsInv'
  BY ThreadsNextInv, ThreadsStutterInv
<1> QED BY ThreadsInitInv, <1>1, PTL DEF ThreadsSpec

---------------------------------------------------------------------------
(* What the invariant says about the scheduler. *)

(* What the invariant implies: the properties the runs check. *)
LEMMA InvConsequences ==
  ASSUME ThreadsInv
  PROVE  /\ ThreadsTypeOK /\ AssertsHold /\ NoUseAfterFree /\ NoLeak
         /\ NumThrsCountsLive /\ NoStrandedJoiner /\ NoLostThread
         /\ StuckOnlyInDeadlock
<1> USE Names
<1>1. /\ Sound(q) /\ q.ok /\ FieldsOK /\ Scheduled /\ Placed /\ Owned
      /\ num_thrs = Cardinality(Live)
      /\ q.in_list \in [Thread -> ListId \cup {NULL}]
      /\ Dead = Listed(free_list) /\ Live \subseteq Thread
  BY SoundLists, LiveFinite DEF ThreadsInv
<1>2. ThreadsTypeOK
  BY <1>1 DEF ThreadsTypeOK, FieldsOK, Sound, QType
<1>3. AssertsHold
  BY <1>1 DEF AssertsHold, Sound
<1>4. NoUseAfterFree
  <2>1. \A t \in Thread : q.in_list[t] # NULL => t \in heap \cup {root}
    BY <1>1 DEF Placed, Owned, Listed
  <2>2. status # "stuck" => current \in heap \cup {root}
    BY <1>1 DEF Scheduled, Owned, FieldsOK
  <2> QED BY <1>1, <2>1, <2>2 DEF NoUseAfterFree, Scheduled
<1>5. NoLeak
  <2>1. Len(q.list[free_list]) <= 1
    <3> DEFINE s == q.list[free_list]
    <3>1. /\ s \in Seq(Thread) /\ IsInjective(s) /\ Range(s) = Listed(free_list)
          /\ Len(s) \in Nat /\ DOMAIN s = 1 .. Len(s)
      BY <1>1, SoundLists, LenProperties DEF Sound, QType, QueueOK
    <3>2. SUFFICES ASSUME Len(s) > 1 PROVE FALSE
      BY <3>1
    <3>3. 1 \in DOMAIN s /\ 2 \in DOMAIN s
      BY <3>1, <3>2
    <3>4. s[1] \in Range(s) /\ s[2] \in Range(s)
      BY <3>3 DEF Range
    <3>5. s[1] = s[2]
      BY <1>1, <3>1, <3>4 DEF Owned
    <3> QED BY <3>1, <3>3, <3>5 DEF IsInjective
  <2> QED BY <1>1, <2>1 DEF NoLeak, Owned
<1>6. NumThrsCountsLive
  BY <1>1 DEF NumThrsCountsLive, Scheduled
<1>7. NoStrandedJoiner
  BY <1>1 DEF NoStrandedJoiner, Placed
<1>8. NoLostThread
  BY <1>1 DEF NoLostThread, Scheduled, Owned, Listed
<1>9. StuckOnlyInDeadlock
  <2> SUFFICES ASSUME status = "stuck", NEW t \in Live
               PROVE  \/ q.in_list[t] \in (Live \ {t}) \cup WaitList
                      \/ q.in_list[t] = join_list /\ Live # {t}
    BY DEF StuckOnlyInDeadlock
  <2>1. q.in_list[t] \in ListId /\ q.in_list[t] # ready_list /\ q.in_list[t] # free_list
    BY <1>1 DEF Scheduled, Owned, Listed
  <2> QED BY <1>1, <2>1 DEF Placed, ListId
<1> QED BY <1>2, <1>3, <1>4, <1>5, <1>6, <1>7, <1>8, <1>9

(* Every variable keeps its type. *)
THEOREM ThreadsTypes == ThreadsSpec => []ThreadsTypeOK
BY InvariantHolds, InvConsequences, PTL

(* No ASSERT of put, get or thread_exit ever fails, for any number of      *)
(* threads and any order of calls, and lists and in_list agree.            *)
THEOREM ThreadsAssertsHold == ThreadsSpec => []AssertsHold
BY InvariantHolds, InvConsequences, PTL

(* No thread that will run, and no stack in use, has been freed. *)
THEOREM ThreadsNoUseAfterFree == ThreadsSpec => []NoUseAfterFree
BY InvariantHolds, InvConsequences, PTL

(* The memory of an exited thread is given back at the next release(). *)
THEOREM ThreadsNoLeak == ThreadsSpec => []NoLeak
BY InvariantHolds, InvConsequences, PTL

(* num_thrs is the number of threads alive, and halt() ends the last one. *)
THEOREM ThreadsCounted == ThreadsSpec => []NumThrsCountsLive
BY InvariantHolds, InvConsequences, PTL

(* A joiner waits for a thread that is alive and will wake it. *)
THEOREM ThreadsNoStrandedJoiner == ThreadsSpec => []NoStrandedJoiner
BY InvariantHolds, InvConsequences, PTL

(* Every live thread runs, is ready, or waits. *)
THEOREM ThreadsNoLostThread == ThreadsSpec => []NoLostThread
BY InvariantHolds, InvConsequences, PTL

(* run() finds no ready thread only in a deadlock of the clients' making. *)
THEOREM ThreadsStuckOnlyInDeadlock == ThreadsSpec => []StuckOnlyInDeadlock
BY InvariantHolds, InvConsequences, PTL

---------------------------------------------------------------------------
(* thread_join(NULL). *)

(* A thread that has left join_list is alone. *)
LastOne ==
  \A t \in Live : pc[t] = "join_all" /\ q.in_list[t] # join_list => Live = {t}

(* A step keeps the fact, and a thread that leaves join_list is alone. *)
LEMMA LastOneStep ==
  ASSUME ThreadsInv, LastOne, [ThreadsNext]_threadVars
  PROVE  LastOne'
<1> USE Names
<1>1. /\ FieldsOK /\ Scheduled /\ Placed /\ Owned /\ num_thrs = Cardinality(Live)
      /\ q.in_list \in [Thread -> ListId \cup {NULL}]
      /\ pc \in [Thread -> Label] /\ Live \subseteq Thread /\ current \in Thread
      /\ Sound(q)
  BY SoundLists, LiveFinite DEF ThreadsInv, FieldsOK
(* A step that keeps the live threads and moves none off join_list. *)
<1>2. ASSUME Live' = Live,
             \A t \in Live : pc'[t] = "join_all" =>
               \/ q'.in_list[t] = join_list
               \/ pc[t] = "join_all" /\ q.in_list[t] # join_list
      PROVE  LastOne'
  BY <1>2 DEF LastOne
(* Blocking takes only the thread that runs next off a list. *)
<1>3. ASSUME NEW l \in ListId, NEW label \in Label, Block(l, label),
             status = "running", label = "join_all" => l = join_list
      PROVE  LastOne'
  <2> DEFINE r == Put(q, current, l)
  <2>1. current \in Live /\ q.in_list[current] = NULL
    BY <1>1, <1>3 DEF Scheduled
  <2>2. Sound(r) /\ r.in_list = [q.in_list EXCEPT ![current] = l]
    BY <1>1, <2>1, PutSound
  <2>3. run(r) /\ pc' = [pc EXCEPT ![current] = label] /\ handle' = handle
    BY <1>3 DEF Block
  <2> HIDE DEF r
  <2>4. \/ q' = r
        \/ /\ current' \in Thread /\ r.in_list[current'] = ready_list
           /\ q'.in_list = [r.in_list EXCEPT ![current'] = NULL]
    BY <2>2, <2>3, RunSound
  <2>5. \A t \in Thread : q'.in_list[t] # r.in_list[t] => r.in_list[t] = ready_list
    BY <1>1, <2>2, <2>4
  <2>6. Live' = Live
    BY <2>3 DEF Live
  <2>7. ASSUME NEW t \in Live, pc'[t] = "join_all"
        PROVE  \/ q'.in_list[t] = join_list
               \/ pc[t] = "join_all" /\ q.in_list[t] # join_list
    <3>1. CASE t = current
      <4>1. l = join_list
        BY <1>1, <1>3, <2>3, <2>7, <3>1
      <4>2. r.in_list[t] = join_list
        BY <1>1, <2>2, <3>1, <4>1
      <4> QED BY <1>1, <2>5, <4>2
    <3>2. CASE t # current
      <4>1. pc[t] = "join_all" /\ r.in_list[t] = q.in_list[t]
        BY <1>1, <2>2, <2>3, <2>7, <3>2
      <4> QED BY <1>1, <2>5, <4>1
    <3> QED BY <3>1, <3>2
  <2> QED BY <1>2, <2>6, <2>7
<1>4. ASSUME NEW t \in Thread, thread_new(t) PROVE LastOne'
  <2> DEFINE r == Release(q)
  <2>1. /\ status = "running" /\ pc[current] = "user" /\ t # root /\ t \notin heap \ Dead
        /\ q' = Put(r, t, ready_list) /\ pc' = [pc EXCEPT ![t] = "user"]
        /\ handle' = [handleAfterRelease EXCEPT ![t] = t]
    BY <1>4 DEF thread_new, At
  <2>2. /\ Sound(r)
        /\ r.in_list = [u \in Thread |-> IF q.in_list[u] = free_list THEN NULL ELSE q.in_list[u]]
        /\ handleAfterRelease \in [Thread -> Thread \cup {NULL, FREED}]
        /\ \A u \in Thread : handleAfterRelease[u] = u <=> u \in Live
        /\ heap \ Dead = Live \ {root}
        /\ current \in Live
    BY <2>1, AfterRelease
  <2> HIDE DEF r
  <2>3. q'.in_list = [r.in_list EXCEPT ![t] = ready_list]
    BY <2>1 DEF Put
  <2>4. t \notin Live /\ Live' = Live \cup {t}
    <3>1. \A u \in Thread : handle'[u] = u <=> u \in Live \cup {t}
      BY <2>1, <2>2
    <3> QED BY <1>1, <2>1, <2>2, <3>1 DEF Live
  <2>5. ASSUME NEW u \in Live', pc'[u] = "join_all", q'.in_list[u] # join_list
        PROVE  FALSE
    <3>1. u # t /\ u \in Live /\ pc[u] = "join_all"
      BY <1>1, <2>1, <2>4, <2>5
    <3>2. q.in_list[u] # join_list
      BY <1>1, <2>2, <2>3, <2>5, <3>1
    <3>3. Live = {u}
      BY <3>1, <3>2 DEF LastOne
    <3> QED BY <2>1, <2>2, <3>1, <3>3
  <2> QED BY <2>5 DEF LastOne
<1>5. CASE thread_new_fails
  <2>1. /\ status = "running" /\ q' = Release(q) /\ pc' = pc /\ handle' = handleAfterRelease
    BY <1>5 DEF thread_new_fails, At
  <2>2. /\ q'.in_list = [u \in Thread |-> IF q.in_list[u] = free_list THEN NULL ELSE q.in_list[u]]
        /\ Live' = Live
    BY <1>1, <2>1, AfterRelease DEF Live
  <2> QED BY <1>1, <1>2, <2>1, <2>2
<1>6. ASSUME NEW c \in Code, thread_exit(c) PROVE LastOne'
  <2> DEFINE r == ExitLists(Release(q))
  <2>1. /\ status = "running" /\ pc[current] = "user" /\ pc' = pc
        /\ handle' = [handleAfterRelease EXCEPT ![current] = NULL]
        /\ num_thrs' = num_thrs - 1
        /\ IF num_thrs' = 0 THEN q' = r ELSE run(r)
    BY <1>6 DEF thread_exit, At
  <2>2. /\ Sound(r)
        /\ \A t \in Thread :
             r.in_list[t] =
               IF t = current THEN IF current = root THEN NULL ELSE free_list
               ELSE IF q.in_list[t] = free_list THEN NULL
               ELSE IF q.in_list[t] = current THEN ready_list
               ELSE IF q.in_list[t] = join_list /\ num_thrs = 2 THEN ready_list
               ELSE q.in_list[t]
    BY <2>1, ExitListsSound
  <2>3. /\ handleAfterRelease \in [Thread -> Thread \cup {NULL, FREED}]
        /\ \A u \in Thread : handleAfterRelease[u] = u <=> u \in Live
        /\ current \in Live
    BY <2>1, AfterRelease
  <2> HIDE DEF r
  <2>4. Live' = Live \ {current}
    <3>1. \A u \in Thread : handle'[u] = u <=> u \in Live \ {current}
      BY <1>1, <2>1, <2>3
    <3> QED BY <1>1, <3>1 DEF Live
  <2>5. \A t \in Thread : q'.in_list[t] # r.in_list[t] => r.in_list[t] = ready_list
    <3>1. r.in_list \in [Thread -> ListId \cup {NULL}]
      BY <2>2 DEF Sound, QType
    <3>2. CASE num_thrs' = 0
      BY <2>1, <3>2
    <3>3. CASE num_thrs' # 0
      <4>1. run(r)
        BY <2>1, <3>3
      <4>2. \/ q' = r
            \/ r.in_list[current'] = ready_list /\ q'.in_list = [r.in_list EXCEPT ![current'] = NULL]
        BY <2>2, <4>1, RunSound
      <4> QED BY <3>1, <4>2
    <3> QED BY <3>2, <3>3
  <2> SUFFICES ASSUME NEW t \in Live', pc'[t] = "join_all", q'.in_list[t] # join_list
               PROVE  Live' = {t}
    BY DEF LastOne
  <2>6. t \in Live /\ t # current /\ pc[t] = "join_all" /\ r.in_list[t] # join_list
    BY <1>1, <2>1, <2>4, <2>5
  <2>7. q.in_list[t] = join_list
    <3>1. SUFFICES ASSUME q.in_list[t] # join_list PROVE FALSE
      OBVIOUS
    <3>2. Live = {t}
      BY <2>6, <3>1 DEF LastOne
    <3> QED BY <2>3, <2>6, <3>2
  <2>8. num_thrs = 2
    BY <1>1, <2>2, <2>3, <2>6, <2>7
  <2>9. PICK x : Live' = {x}
    <3>1. IsFiniteSet(Live) /\ Cardinality(Live) = 2
      BY <1>1, <2>8, LiveFinite
    <3>2. IsFiniteSet(Live \ {current}) /\ Cardinality(Live \ {current}) = 1
      BY <2>3, <3>1, FS_RemoveElement
    <3> QED BY <2>4, <3>2, FS_Singleton
  <2> QED BY <2>9
<1>7. ASSUME NEW thr \in Thread, thread_join(thr) PROVE LastOne'
  <2>1. CASE handle[thr] = thr
    <3>1. status = "running" /\ Block(thr, "join") /\ "join" \in Label /\ "join" # "join_all"
      BY <1>7, <2>1 DEF thread_join, At, Label
    <3> QED BY <1>3, <3>1
  <2>2. CASE handle[thr] # thr
    BY <1>7, <2>2 DEF thread_join, threadVars, LastOne, Live
  <2> QED BY <2>1, <2>2
<1>8. CASE thread_join_return \/ thread_join_all_return
  <2>1. pc' = [pc EXCEPT ![current] = "user"] /\ q' = q /\ Live' = Live
    BY <1>8 DEF thread_join_return, thread_join_all_return, Live
  <2> QED BY <1>1, <1>2, <2>1
<1>9. CASE thread_join_all
  <2>1. CASE num_thrs > 1
    <3>1. status = "running" /\ Block(join_list, "join_all") /\ "join_all" \in Label
      BY <1>9, <2>1 DEF thread_join_all, At, Label
    <3> QED BY <1>3, <3>1
  <2>2. CASE ~(num_thrs > 1)
    BY <1>9, <2>2 DEF thread_join_all, threadVars, LastOne, Live
  <2> QED BY <2>1, <2>2
<1>10. CASE thread_pause
  <2>1. status = "running" /\ Block(ready_list, "user") /\ "user" \in Label /\ "user" # "join_all"
    BY <1>10 DEF thread_pause, At, Label
  <2> QED BY <1>3, <2>1
<1>11. CASE UNCHANGED threadVars
  BY <1>11 DEF threadVars, LastOne, Live
<1> QED BY <1>4, <1>5, <1>6, <1>7, <1>8, <1>9, <1>10, <1>11 DEF ThreadsNext

(* thread_join(NULL) returns to a thread only when it is the last one. *)
THEOREM ThreadsJoinAllReturnsAlone == ThreadsSpec => JoinAllReturnsAlone
<1>1. ThreadsInit => LastOne
  <2> SUFFICES ASSUME ThreadsInit, NEW t \in Live PROVE pc[t] # "join_all"
    BY DEF LastOne
  <2>1. t \in Thread /\ pc = [u \in Thread |-> "user"]
    BY DEF Live, ThreadsInit, ThreadsStart
  <2> QED BY <2>1
<1>2. ASSUME ThreadsInv, LastOne, [ThreadsNext]_threadVars
      PROVE  [\A t \in Thread :
                pc[t] = "join_all" /\ pc'[t] = "user" /\ t \in Live => Live' = {t}]_threadVars
  <2> SUFFICES ASSUME ThreadsNext, NEW t \in Thread,
                      pc[t] = "join_all", pc'[t] = "user", t \in Live
               PROVE  Live' = {t}
    BY <1>2
  <2>1. pc \in [Thread -> Label] /\ status \in {"running", "halt", "stuck"} /\ Scheduled
    BY <1>2 DEF ThreadsInv, FieldsOK
  <2>2. ASSUME NEW u \in Thread, thread_new(u) PROVE FALSE
    <3>1. u \in heap \/ u = root \/ u \notin Live
      BY <1>2 DEF ThreadsInv, Owned
    <3>2. u = t /\ status = "running" /\ u # root /\ u \notin heap \ Dead
      BY <2>1, <2>2 DEF thread_new, At
    <3> QED BY <1>2, <3>2, AfterRelease
  <2>3. ASSUME NEW l, NEW label \in Label \ {"user"}, Block(l, label) PROVE FALSE
    BY <2>1, <2>3 DEF Block
  <2>4. CASE thread_join_return \/ thread_join_all_return
    <3>1. /\ pc' = [pc EXCEPT ![current] = "user"] /\ Live' = Live
          /\ status = "running"
      BY <2>4 DEF thread_join_return, thread_join_all_return, At, Live
    <3>2. t = current
      BY <2>1, <3>1
    <3>3. q.in_list[t] = NULL
      BY <2>1, <3>1, <3>2 DEF Scheduled
    <3>4. NULL # join_list
      BY Names
    <3> QED BY <1>2, <3>1, <3>3, <3>4 DEF LastOne
  <2>5. CASE thread_pause
    <3>1. pc[current] = "user" /\ pc' = [pc EXCEPT ![current] = "user"]
      BY <2>5 DEF thread_pause, At, Block
    <3> QED BY <2>1, <3>1
  <2>6. ASSUME NEW c \in Code, thread_exit(c) PROVE FALSE
    BY <2>6 DEF thread_exit
  <2>7. ASSUME NEW thr \in Thread, thread_join(thr) PROVE FALSE
    BY <2>3, <2>7 DEF thread_join, threadVars, Label
  <2>8. CASE thread_join_all
    BY <2>3, <2>8 DEF thread_join_all, threadVars, Label
  <2>9. CASE thread_new_fails
    BY <2>9 DEF thread_new_fails
  <2> QED BY <2>2, <2>4, <2>5, <2>6, <2>7, <2>8, <2>9 DEF ThreadsNext
<1>3. ThreadsInv /\ LastOne /\ [ThreadsNext]_threadVars => LastOne'
  BY LastOneStep
<1> QED BY <1>1, <1>2, <1>3, InvariantHolds, PTL DEF ThreadsSpec, JoinAllReturnsAlone

---------------------------------------------------------------------------
(* The scheduler implements AbstractThreads: every call of the API is one  *)
(* step of that specification or a stutter, for any number of threads.     *)
(* With NoLostThread this is what joins may rely on.                       *)

(* Whom a thread on list l waits for. *)
Target(t, l) == IF l \in Thread THEN l ELSE IF l = join_list THEN t ELSE NULL

(* Who waits for whom, read off the in_list fields. *)
LEMMA JoinsIs ==
  /\ Joins = [t \in Thread |-> Target(t, q.in_list[t])]
  /\ Joins' = [t \in Thread |-> Target(t, q'.in_list[t])]
<1>1. \A t \in Thread : \A l :
        (CASE l \in Thread -> l [] l = join_list -> t [] OTHER -> NULL) = Target(t, l)
  BY Names DEF Target
<1> QED BY <1>1 DEF Joins

(* The lists nobody is joined to. *)
LEMMA NoTarget ==
  ASSUME NEW t \in Thread
  PROVE  /\ Target(t, NULL) = NULL /\ Target(t, ready_list) = NULL
         /\ Target(t, free_list) = NULL
         /\ \A u \in Thread : Target(t, u) = u
         /\ Target(t, join_list) = t
BY Names DEF Target, ListId

(* A step that changes only what is on the scheduler's own lists. *)
LEMMA JoinsKept ==
  ASSUME \A t \in Thread :
           \/ q'.in_list[t] = q.in_list[t]
           \/ {q.in_list[t], q'.in_list[t]} \subseteq {NULL, ready_list, free_list}
  PROVE  Joins' = Joins
<1>1. \A t \in Thread : Target(t, q'.in_list[t]) = Target(t, q.in_list[t])
  BY NoTarget
<1> QED BY <1>1, JoinsIs

(* The initial states of the scheduler are those of AbstractThreads. *)
LEMMA AbstractInit == ThreadsInit => Abstract!Init
<1> SUFFICES ASSUME ThreadsInit PROVE Abstract!Init
  OBVIOUS
<1>1. /\ q.in_list = [t \in Thread |-> NULL]
      /\ handle = [t \in Thread |-> IF t = root THEN root ELSE NULL]
      /\ code = [t \in Thread |-> 0]
  BY DEF ThreadsInit, ThreadsStart
<1>2. Joins = [t \in Thread |-> NULL]
  BY <1>1, JoinsIs, NoTarget
<1>3. Live = {root}
  BY <1>1, Names DEF Live, ListId
<1> QED BY <1>1, <1>2, <1>3 DEF Abstract!Init

(* What blocking does: the caller waits for what the list stands for. *)
LEMMA BlockJoins ==
  ASSUME ThreadsInv, status = "running", NEW l \in ListId, NEW label, Block(l, label)
  PROVE  /\ Live' = Live /\ code' = code
         /\ current \in Live /\ Joins[current] = NULL
         /\ Joins' = [Joins EXCEPT ![current] = Target(current, l)]
<1> USE Names
<1> DEFINE r == Put(q, current, l)
<1>1. /\ Sound(q) /\ current \in Live /\ q.in_list[current] = NULL
      /\ q.in_list \in [Thread -> ListId \cup {NULL}] /\ current \in Thread
  BY SoundLists, LiveFinite DEF ThreadsInv, Scheduled
<1>2. Sound(r) /\ r.in_list = [q.in_list EXCEPT ![current] = l]
  BY <1>1, PutSound
<1>3. run(r) /\ UNCHANGED <<handle, code>>
  BY DEF Block
<1> HIDE DEF r
<1>4. \/ q' = r
      \/ /\ current' \in Thread /\ r.in_list[current'] = ready_list
         /\ q'.in_list = [r.in_list EXCEPT ![current'] = NULL]
  BY <1>2, <1>3, RunSound
<1>5. \A t \in Thread : \/ q'.in_list[t] = r.in_list[t]
                        \/ r.in_list[t] = ready_list /\ q'.in_list[t] = NULL
  BY <1>1, <1>2, <1>4
<1>6. \A t \in Thread : Target(t, q'.in_list[t]) = Target(t, r.in_list[t])
  BY <1>5, NoTarget
<1>7. \A t \in Thread : Target(t, r.in_list[t]) =
                          IF t = current THEN Target(current, l) ELSE Target(t, q.in_list[t])
  BY <1>1, <1>2
<1>8. Joins' = [Joins EXCEPT ![current] = Target(current, l)]
  BY <1>6, <1>7, JoinsIs
<1>9. Joins[current] = NULL
  BY <1>1, JoinsIs, NoTarget
<1> QED BY <1>1, <1>3, <1>8, <1>9 DEF Live

(* A new thread is born with no exit code and waits for nobody. *)
LEMMA AbstractNew ==
  ASSUME ThreadsInv, NEW t \in Thread, thread_new(t)
  PROVE  Abstract!New(t)
<1> USE Names
<1>1. /\ status = "running" /\ t # root /\ t \notin heap \ Dead
      /\ q' = Put(Release(q), t, ready_list)
      /\ handle' = [handleAfterRelease EXCEPT ![t] = t]
      /\ code' = [code EXCEPT ![t] = 0]
  BY DEF thread_new, At
<1>2. /\ Placed /\ q.in_list \in [Thread -> ListId \cup {NULL}] /\ Live \subseteq Thread
  BY SoundLists, LiveFinite DEF ThreadsInv
<1>3. /\ Release(q).in_list =
           [u \in Thread |-> IF q.in_list[u] = free_list THEN NULL ELSE q.in_list[u]]
      /\ handleAfterRelease \in [Thread -> Thread \cup {NULL, FREED}]
      /\ \A u \in Thread : handleAfterRelease[u] = u <=> u \in Live
      /\ heap \ Dead = Live \ {root}
  BY <1>1, AfterRelease
<1>4. t \notin Live /\ Live' = Live \cup {t}
  <2>1. \A u \in Thread : handle'[u] = u <=> u \in Live \cup {t}
    BY <1>1, <1>3
  <2> QED BY <1>1, <1>2, <1>3, <2>1 DEF Live
<1>5. q'.in_list = [Release(q).in_list EXCEPT ![t] = ready_list]
  BY <1>1 DEF Put
<1>6. Joins' = Joins
  <2>1. q.in_list[t] \in {NULL, free_list}
    BY <1>2, <1>4 DEF Placed
  <2> QED BY <1>2, <1>3, <1>5, <2>1, JoinsKept
<1> QED BY <1>1, <1>4, <1>6 DEF Abstract!New

(* thread_new that returns NULL has called release() and nothing else. *)
LEMMA AbstractNewFails ==
  ASSUME ThreadsInv, thread_new_fails
  PROVE  UNCHANGED Abstract!vars
<1> USE Names
<1>1. /\ status = "running" /\ q' = Release(q) /\ handle' = handleAfterRelease
      /\ code' = code
  BY DEF thread_new_fails, At
<1>2. /\ q.in_list \in [Thread -> ListId \cup {NULL}]
      /\ Live \subseteq Thread
  BY SoundLists, LiveFinite DEF ThreadsInv
<1>3. /\ q'.in_list =
           [u \in Thread |-> IF q.in_list[u] = free_list THEN NULL ELSE q.in_list[u]]
      /\ \A u \in Thread : handle'[u] = u <=> u \in Live
  BY <1>1, AfterRelease
<1>4. Joins' = Joins
  BY <1>2, <1>3, JoinsKept
<1>5. Live' = Live
  BY <1>2, <1>3 DEF Live
<1> QED BY <1>1, <1>4, <1>5 DEF Abstract!vars

(* An exit wakes the joiners of the thread, with its code, and the thread  *)
(* that waits for all when it is the only one left.                        *)
LEMMA AbstractExit ==
  ASSUME ThreadsInv, NEW c \in Code, thread_exit(c)
  PROVE  Abstract!Exit(current, c)
<1> USE Names
<1> DEFINE r == ExitLists(Release(q))
<1>1. /\ status = "running"
      /\ handle' = [handleAfterRelease EXCEPT ![current] = NULL]
      /\ code' = [t \in Thread |-> IF t \in Range(q.list[current]) THEN c ELSE code[t]]
      /\ num_thrs' = num_thrs - 1
      /\ IF num_thrs' = 0 THEN status' = "halt" /\ q' = r /\ current' = current ELSE run(r)
  BY DEF thread_exit, At
<1>2. /\ Scheduled /\ Placed /\ num_thrs = Cardinality(Live)
      /\ q.in_list \in [Thread -> ListId \cup {NULL}]
      /\ Live \subseteq Thread /\ current \in Live /\ current \in Thread
      /\ q.in_list[current] = NULL
      /\ Range(q.list[current]) = Listed(current)
  BY <1>1, SoundLists, LiveFinite DEF ThreadsInv, FieldsOK, Scheduled
<1>3. Live' = Live \ {current}
  <2>1. /\ handleAfterRelease \in [Thread -> Thread \cup {NULL, FREED}]
        /\ \A u \in Thread : handleAfterRelease[u] = u <=> u \in Live
    BY <1>1, AfterRelease
  <2>2. \A u \in Thread : handle'[u] = u <=> u \in Live \ {current}
    BY <1>1, <1>2, <2>1
  <2> QED BY <1>2, <2>2 DEF Live
<1>4. /\ Sound(r)
      /\ \A t \in Thread :
           r.in_list[t] =
             IF t = current THEN IF current = root THEN NULL ELSE free_list
             ELSE IF q.in_list[t] = free_list THEN NULL
             ELSE IF q.in_list[t] = current THEN ready_list
             ELSE IF q.in_list[t] = join_list /\ num_thrs = 2 THEN ready_list
             ELSE q.in_list[t]
  BY <1>1, ExitListsSound
<1> HIDE DEF r
<1>5. \A t \in Thread : \/ q'.in_list[t] = r.in_list[t]
                        \/ r.in_list[t] = ready_list /\ q'.in_list[t] = NULL
  <2>1. CASE num_thrs' = 0
    BY <1>1, <2>1
  <2>2. CASE num_thrs' # 0
    <3>1. run(r) /\ r.in_list \in [Thread -> ListId \cup {NULL}]
      BY <1>1, <1>4, <2>2 DEF Sound, QType
    <3>2. \/ q' = r
          \/ /\ current' \in Thread /\ r.in_list[current'] = ready_list
             /\ q'.in_list = [r.in_list EXCEPT ![current'] = NULL]
      BY <1>4, <3>1, RunSound
    <3> QED BY <3>1, <3>2
  <2> QED BY <2>1, <2>2
<1>6. ASSUME NEW t \in Thread, q.in_list[t] = join_list
      PROVE  num_thrs = 2 <=> Live' = {t}
  <2>1. t \in Live /\ t # current
    BY <1>2, <1>6 DEF Placed
  <2>2. IsFiniteSet(Live') /\ Cardinality(Live') = num_thrs - 1
    <3>1. IsFiniteSet(Live)
      BY LiveFinite
    <3> QED BY <1>2, <1>3, <3>1, FS_RemoveElement
  <2>3. t \in Live'
    BY <1>3, <2>1
  <2>4. IsFiniteSet(Live' \ {t}) /\ Cardinality(Live' \ {t}) = num_thrs - 2
    <3>1. num_thrs \in Nat
      BY <1>2, LiveFinite
    <3>2. Cardinality(Live' \ {t}) = Cardinality(Live') - 1 /\ IsFiniteSet(Live' \ {t})
      BY <2>2, <2>3, FS_RemoveElement
    <3> QED BY <2>2, <3>1, <3>2
  <2>5. num_thrs - 2 = 0 <=> Live' \ {t} = {}
    BY <2>4, FS_EmptySet
  <2>6. num_thrs \in Nat
    BY <1>2, LiveFinite
  <2> QED BY <2>3, <2>5, <2>6
<1>7. \A t \in Thread :
        /\ Joins[t] = Target(t, q.in_list[t])
        /\ Joins[t] = current <=> q.in_list[t] = current
        /\ Joins[t] = t <=> q.in_list[t] = join_list
  <2> SUFFICES ASSUME NEW t \in Thread
               PROVE  /\ Target(t, q.in_list[t]) = current <=> q.in_list[t] = current
                      /\ Target(t, q.in_list[t]) = t <=> q.in_list[t] = join_list
    BY JoinsIs
  <2>1. q.in_list[t] # t
    BY <1>2 DEF Placed
  <2>2. t = current => q.in_list[t] # join_list
    BY <1>2
  <2> QED BY <1>2, <2>1, <2>2 DEF Target, ListId
<1>8. Joins' = [t \in Thread |->
                  IF Joins[t] = current \/ (Joins[t] = t /\ Live' = {t})
                  THEN NULL ELSE Joins[t]]
  <2> SUFFICES ASSUME NEW t \in Thread
               PROVE  Target(t, q'.in_list[t]) =
                        IF Joins[t] = current \/ (Joins[t] = t /\ Live' = {t})
                        THEN NULL ELSE Joins[t]
    BY JoinsIs
  <2>1. Target(t, q'.in_list[t]) = Target(t, r.in_list[t])
    BY <1>5, NoTarget
  <2>2. CASE t = current
    BY <1>2, <1>4, <1>7, <2>1, <2>2, NoTarget
  <2>3. CASE t # current /\ q.in_list[t] = current
    BY <1>4, <1>7, <2>1, <2>3, NoTarget
  <2>4. CASE t # current /\ q.in_list[t] = join_list
    BY <1>2, <1>4, <1>6, <1>7, <2>1, <2>4, NoTarget
  <2>5. CASE t # current /\ q.in_list[t] \notin {current, join_list}
    BY <1>4, <1>7, <2>1, <2>5, NoTarget
  <2> QED BY <2>2, <2>3, <2>4, <2>5
<1>9. code' = [t \in Thread |-> IF Joins[t] = current THEN c ELSE code[t]]
  BY <1>1, <1>2, <1>7 DEF Listed
<1>10. Joins[current] = NULL
  BY <1>2, <1>7, NoTarget
<1> QED BY <1>2, <1>3, <1>8, <1>9, <1>10 DEF Abstract!Exit, Abstract!Free

(* Every step of the scheduler is a step of AbstractThreads or a stutter. *)
LEMMA AbstractStep ==
  ASSUME ThreadsInv, [ThreadsNext]_threadVars
  PROVE  [Abstract!Next]_Abstract!vars
<1> USE Names
<1>1. /\ FieldsOK /\ num_thrs = Cardinality(Live)
      /\ current \in Thread
      /\ status = "running" => current \in Live
  BY LiveFinite DEF ThreadsInv, FieldsOK, Scheduled
<1>2. ASSUME NEW t \in Thread, thread_new(t) PROVE Abstract!Next
  BY <1>2, AbstractNew DEF Abstract!Next
<1>3. ASSUME NEW c \in Code, thread_exit(c) PROVE Abstract!Next
  BY <1>1, <1>3, AbstractExit DEF Abstract!Next
<1>4. ASSUME NEW thr \in Thread, thread_join(thr), handle[thr] = thr
      PROVE  Abstract!Next
  <2>1. status = "running" /\ thr # current /\ Block(thr, "join") /\ thr \in ListId
    BY <1>4 DEF thread_join, At
  <2>2. /\ Live' = Live /\ code' = code /\ current \in Live /\ Joins[current] = NULL
        /\ Joins' = [Joins EXCEPT ![current] = Target(current, thr)]
    BY <2>1, BlockJoins
  <2>3. thr \in Live \ {current}
    BY <1>4, <2>1 DEF Live
  <2>4. Joins' = [Joins EXCEPT ![current] = thr]
    BY <1>1, <2>2, NoTarget
  <2>5. Abstract!Join(current, thr)
    BY <2>2, <2>3, <2>4 DEF Abstract!Join, Abstract!Free
  <2> QED BY <1>1, <2>5 DEF Abstract!Next
<1>5. CASE thread_join_all /\ num_thrs > 1
  <2>1. status = "running" /\ Block(join_list, "join_all")
    BY <1>5 DEF thread_join_all, At
  <2>2. /\ Live' = Live /\ code' = code /\ current \in Live /\ Joins[current] = NULL
        /\ Joins' = [Joins EXCEPT ![current] = Target(current, join_list)]
    BY <2>1, BlockJoins
  <2>3. Live # {current}
    <3>1. Cardinality({current}) = 1
      BY FS_Singleton
    <3> QED BY <1>1, <1>5, <3>1
  <2>4. Joins' = [Joins EXCEPT ![current] = current]
    BY <1>1, <2>2, NoTarget
  <2>5. Abstract!JoinAll(current)
    BY <2>2, <2>3, <2>4 DEF Abstract!JoinAll, Abstract!Free
  <2> QED BY <1>1, <2>5 DEF Abstract!Next
<1>6. CASE thread_pause
  <2>1. status = "running" /\ Block(ready_list, "user")
    BY <1>6 DEF thread_pause, At
  <2>2. /\ Live' = Live /\ code' = code /\ Joins[current] = NULL
        /\ Joins' = [Joins EXCEPT ![current] = Target(current, ready_list)]
    BY <2>1, BlockJoins
  <2>3. Joins' = Joins
    <3>1. Joins' = [Joins EXCEPT ![current] = NULL]
      BY <1>1, <2>2, NoTarget
    <3> QED BY <2>2, <3>1, JoinsIs
  <2> QED BY <2>2, <2>3 DEF Abstract!vars
<1>7. CASE UNCHANGED <<q, handle, code>>
  BY <1>7 DEF Abstract!vars, Joins, Live
<1>8. \/ \E t \in Thread : thread_new(t)
      \/ thread_new_fails
      \/ \E c \in Code : thread_exit(c)
      \/ \E thr \in Thread : thread_join(thr) /\ handle[thr] = thr
      \/ thread_join_all /\ num_thrs > 1
      \/ thread_pause
      \/ UNCHANGED <<q, handle, code>>
  BY DEF ThreadsNext, thread_join, thread_join_return, thread_join_all,
         thread_join_all_return, threadVars
<1> QED BY <1>2, <1>3, <1>4, <1>5, <1>6, <1>7, <1>8, AbstractNewFails

(* thread.c implements AbstractThreads: a join returns after the thread it *)
(* names has exited, with the exit code of that very thread, even if its   *)
(* address is in use again; thread_join(NULL) waits for all the others.    *)
THEOREM ThreadsKeepPromise == ThreadsSpec => KeepsPromise
<1>1. ThreadsInv /\ [ThreadsNext]_threadVars => [Abstract!Next]_Abstract!vars
  BY AbstractStep
<1> QED BY AbstractInit, <1>1, InvariantHolds, PTL
        DEF ThreadsSpec, KeepsPromise, Abstract!Spec
============================================================================
