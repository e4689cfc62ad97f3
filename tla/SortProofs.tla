----------------------------- MODULE SortProofs -----------------------------
(***************************************************************************)
(* The parallel quicksort sorts: for arrays of any length, any number of   *)
(* threads and any cutoff, no two threads work on the same element, and    *)
(* when sort() returns the array is a sorted rearrangement of the one it   *)
(* was given.                                                              *)
(***************************************************************************)
EXTENDS Sort, ThreadsProofs, WellFoundedInduction

Array == [Index -> Value]

---------------------------------------------------------------------------
(* Induction on a number, as the choice of a least counterexample. *)

(* A set of naturals that is not empty has a least element. *)
LEMMA LeastBy ==
  ASSUME NEW R, NEW S \in SUBSET Nat, S # {}, IsWellFoundedOn(R, Nat),
         \A x, y \in Nat : x < y => <<x, y>> \in R
  PROVE  \E n \in S : \A m \in S : n <= m
<1>1. PICK x \in S : \A y \in S : ~(<<y, x>> \in R)
  <2>1. S \subseteq Nat
    OBVIOUS
  <2> QED BY ONLY <2>1, S # {}, IsWellFoundedOn(R, Nat), WFMin, Zenon
<1>2. \A y \in S : ~(y < x)
  BY <1>1
<1>3. \A y \in S : x \in Nat /\ y \in Nat
  OBVIOUS
<1> QED BY <1>2, <1>3

(* What holds of 0, and of k + 1 if of k, holds up to n. *)
LEMMA InductionTo ==
  ASSUME NEW n \in Nat, NEW S, 0 \in S,
         \A k \in 0 .. n - 1 : k \in S => k + 1 \in S
  PROVE  \A k \in 0 .. n : k \in S
<1> DEFINE R == OpToRel(<, Nat)
           B == {k \in 0 .. n : k \notin S}
<1> SUFFICES ASSUME B # {} PROVE FALSE
  OBVIOUS
<1>1. IsWellFoundedOn(R, Nat)
  BY NatLessThanWellFounded
<1>2. \A x, y \in Nat : x < y => <<x, y>> \in R
  BY DEF OpToRel
<1>3. B \in SUBSET Nat
  OBVIOUS
<1>4. \A k \in 0 .. n : k \in B <=> k \notin S
  OBVIOUS
<1>5. B \subseteq 0 .. n
  OBVIOUS
<1> HIDE DEF R, B
<1>6. PICK k \in B : \A m \in B : k <= m
  BY <1>1, <1>2, <1>3, LeastBy
<1>7. k \in 0 .. n /\ k # 0
  BY <1>4, <1>5, <1>6
<1>8. k - 1 \in 0 .. n - 1 /\ k - 1 \in 0 .. n /\ k - 1 \notin B
  BY <1>6, <1>7
<1>9. (k - 1) + 1 \in S
  BY <1>4, <1>8
<1> QED BY <1>4, <1>6, <1>7, <1>9

---------------------------------------------------------------------------
(* partition(). *)

(* b is a with the elements at the indices in S in another order. *)
Rearranges(a, b, S) ==
  /\ \A i \in Index \ S : b[i] = a[i]
  /\ \A i \in S : \E j \in S : b[i] = a[j]
  /\ \A v \in Value : Occurrences(b, v) = Occurrences(a, v)

(* One rearrangement after another is one. *)
LEMMA RearrangesTwice ==
  ASSUME NEW S, NEW a, NEW b, NEW c, Rearranges(a, b, S), Rearranges(b, c, S)
  PROVE  Rearranges(a, c, S)
BY DEF Rearranges

(* A rearrangement of a part is one of any range around it. *)
LEMMA RearrangesMore ==
  ASSUME NEW S, NEW T, S \subseteq T, T \subseteq Index, NEW a, NEW b, Rearranges(a, b, S)
  PROVE  Rearranges(a, b, T)
BY DEF Rearranges

(* The indices are finitely many. *)
LEMMA IndexFinite == IsFiniteSet(Index) /\ Index \subseteq Int
BY FS_Interval, SortAssumption DEF Index

(* A swap keeps the number of occurrences of each value. *)
LEMMA SwapOccurs ==
  ASSUME NEW a \in Array, NEW i \in Index, NEW j \in Index, NEW v
  PROVE  Occurrences(swap(a, i, j), v) = Occurrences(a, v)
<1> DEFINE b == swap(a, i, j)
           A == {k \in Index : a[k] = v}
           B == {k \in Index : b[k] = v}
           f == [k \in A |-> IF k = i THEN j ELSE IF k = j THEN i ELSE k]
<1>1. \A k \in Index : b[k] = IF k = j THEN a[i] ELSE IF k = i THEN a[j] ELSE a[k]
  BY DEF swap, Array
<1>2. IsFiniteSet(A)
  BY IndexFinite, FS_Subset
<1> HIDE DEF b
<1>3. f \in Bijection(A, B)
  <2>1. f \in [A -> B]
    BY <1>1
  <2>2. \A k, m \in A : f[k] = f[m] => k = m
    OBVIOUS
  <2>3. \A m \in B : \E k \in A : f[k] = m
    <3> SUFFICES ASSUME NEW m \in B PROVE \E k \in A : f[k] = m
      OBVIOUS
    <3>1. CASE m = i
      <4>1. j \in A /\ f[j] = m
        BY <1>1, <3>1
      <4> QED BY <4>1
    <3>2. CASE m = j
      <4>1. i \in A /\ f[i] = m
        BY <1>1, <3>2
      <4> QED BY <4>1
    <3>3. CASE m # i /\ m # j
      <4>1. m \in A /\ f[m] = m
        BY <1>1, <3>3
      <4> QED BY <4>1
    <3> QED BY <3>1, <3>2, <3>3
  <2> HIDE DEF f, A, B
  <2> QED BY <2>1, <2>2, <2>3 DEF Bijection, Injection, Surjection, IsInjective
<1> HIDE DEF f
<1>4. Cardinality(A) = Cardinality(B)
  <2> HIDE DEF A, B
  <2>1. ExistsBijection(A, B)
    BY <1>3 DEF ExistsBijection
  <2> QED BY <1>2, <2>1, FS_Bijection
<1> QED BY <1>4 DEF Occurrences, b

(* b is a with the elements at i and j, both in S, exchanged. *)
Swapped(a, b, i, j, S) ==
  /\ b \in Array /\ Rearranges(a, b, S)
  /\ b[i] = a[j] /\ b[j] = a[i]
  /\ \A k \in Index \ {i, j} : b[k] = a[k]

(* A swap is a rearrangement of any range with both indices. *)
LEMMA SwapRearranges ==
  ASSUME NEW a \in Array, NEW S \in SUBSET Index, NEW i \in S, NEW j \in S
  PROVE  Swapped(a, swap(a, i, j), i, j, S)
<1> DEFINE b == swap(a, i, j)
<1>1. i \in Index /\ j \in Index
  OBVIOUS
<1>2. \A k \in Index : b[k] = IF k = j THEN a[i] ELSE IF k = i THEN a[j] ELSE a[k]
  BY <1>1 DEF swap, Array
<1>3. b \in Array
  BY <1>1 DEF swap, Array
<1>4. \A v \in Value : Occurrences(b, v) = Occurrences(a, v)
  BY <1>1, SwapOccurs
<1> HIDE DEF b
<1>5. \A k \in S : \E m \in S : b[k] = a[m]
  BY <1>1, <1>2
<1>6. \A k \in Index \ S : b[k] = a[k]
  BY <1>1, <1>2
<1>7. Rearranges(a, b, S)
  BY <1>4, <1>5, <1>6 DEF Rearranges
<1>8. b[i] = a[j] /\ b[j] = a[i] /\ \A k \in Index \ {i, j} : b[k] = a[k]
  BY <1>1, <1>2
<1>9. Swapped(a, b, i, j, S)
  BY <1>3, <1>7, <1>8 DEF Swapped
<1> QED BY <1>9 DEF b

(* The function f is defined as the loop of partition() is. *)
IsLoop(f, n, init, pivot) ==
  f = [k \in 0 .. n |-> IF k = 0 THEN init ELSE Pass(f[k - 1], pivot)]

(* There is such a function. *)
LEMMA LoopExists ==
  ASSUME NEW n \in Nat, NEW init, NEW pivot
  PROVE  \E f : IsLoop(f, n, init, pivot)
<1> DEFINE P(f, m) == f = [k \in 0 .. m |-> IF k = 0 THEN init ELSE Pass(f[k - 1], pivot)]
           S == {m \in Nat : \E f : P(f, m)}
<1>1. 0 \in S
  <2>1. P([k \in 0 .. 0 |-> init], 0)
    OBVIOUS
  <2> QED BY <2>1
<1>2. ASSUME NEW m \in 0 .. n - 1, m \in S PROVE m + 1 \in S
  <2>1. PICK f : P(f, m)
    BY <1>2
  <2> DEFINE g == [k \in 0 .. m + 1 |-> IF k = m + 1 THEN Pass(f[m], pivot) ELSE f[k]]
  <2>2. \A k \in 0 .. m : f[k] = IF k = 0 THEN init ELSE Pass(f[k - 1], pivot)
    BY <2>1
  <2>3. \A k \in 0 .. m + 1 : g[k] = IF k = 0 THEN init ELSE Pass(g[k - 1], pivot)
    <3> SUFFICES ASSUME NEW k \in 0 .. m + 1
                 PROVE  g[k] = IF k = 0 THEN init ELSE Pass(g[k - 1], pivot)
      OBVIOUS
    <3>1. CASE k = m + 1
      BY <3>1
    <3>2. CASE k \in 0 .. m
      <4>1. g[k] = f[k] /\ (k # 0 => g[k - 1] = f[k - 1])
        BY <3>2
      <4> HIDE DEF g
      <4> QED BY <2>2, <3>2, <4>1
    <3> QED BY <3>1, <3>2
  <2>4. g = [k \in 0 .. m + 1 |-> g[k]]
    OBVIOUS
  <2> HIDE DEF g
  <2>5. P(g, m + 1)
    BY <2>3, <2>4
  <2> QED BY <2>5
<1> HIDE DEF S
<1>3. n \in S
  BY <1>1, <1>2, InductionTo
<1> QED BY <1>3 DEF S, IsLoop

(* After k passes the elements before st.start are smaller than the pivot, *)
(* those behind st.end are not, and the rest has had no pass yet.          *)
Partly(a, first, last, pivot, k, st) ==
  /\ st = [nums |-> st.nums, start |-> st.start, end |-> st.end]
  /\ st.nums \in Array /\ Rearranges(a, st.nums, first .. last)
  /\ st.start \in first .. last + 1 /\ st.end \in first - 1 .. last
  /\ st.end - st.start = (last - first) - k
  /\ \A i \in first .. st.start - 1 : st.nums[i] < pivot
  /\ \A i \in st.end + 1 .. last : pivot <= st.nums[i]

(* One pass of the loop of partition() keeps what Partly says. *)
LEMMA PassKeeps ==
  ASSUME NEW a, NEW first \in Index, NEW last \in Index, NEW pivot \in Value,
         NEW k \in 0 .. last - first, NEW st, Partly(a, first, last, pivot, k, st)
  PROVE  Partly(a, first, last, pivot, k + 1, Pass(st, pivot))
<1> DEFINE ns == st.nums
           s == st.start
           e == st.end
           S == first .. last
<1>1. /\ st = [nums |-> ns, start |-> s, end |-> e]
      /\ ns \in Array /\ Rearranges(a, ns, S)
      /\ s \in first .. last + 1 /\ e \in first - 1 .. last
      /\ e - s = (last - first) - k
      /\ \A i \in first .. s - 1 : ns[i] < pivot
      /\ \A i \in e + 1 .. last : pivot <= ns[i]
  BY DEF Partly
<1>2. /\ first \in Int /\ last \in Int /\ pivot \in Int /\ Value \subseteq Int
      /\ S \in SUBSET Index
  BY SortAssumption DEF Index
<1> HIDE DEF ns, s, e, S
<1>3. s <= e /\ s \in Int /\ e \in Int
  BY <1>1, <1>2
<1>4. s \in S /\ e \in S /\ s \in Index /\ e \in Index
  BY <1>1, <1>2, <1>3 DEF S, Index
<1>5. CASE ns[s] < pivot
  <2>1. Pass(st, pivot) = [nums |-> ns, start |-> s + 1, end |-> e]
    <3>1. Pass([nums |-> ns, start |-> s, end |-> e], pivot)
            = [nums |-> ns, start |-> s + 1, end |-> e]
      BY <1>5 DEF Pass
    <3> QED BY <1>1, <3>1
  <2>2. \A i \in first .. (s + 1) - 1 : ns[i] < pivot
    BY <1>1, <1>2, <1>3, <1>5
  <2>3. s + 1 \in first .. last + 1 /\ e - (s + 1) = (last - first) - (k + 1)
    BY <1>1, <1>2, <1>3
  <2> QED BY <1>1, <2>1, <2>2, <2>3 DEF Partly, S
<1>6. CASE ~(ns[s] < pivot)
  <2>0. Swapped(ns, swap(ns, s, e), s, e, S)
    <3>1. ns \in Array /\ S \in SUBSET Index /\ s \in S /\ e \in S
      BY <1>1, <1>2, <1>4
    <3> QED BY ONLY <3>1, SwapRearranges, Zenon
  <2> DEFINE b == swap(ns, s, e)
  <2>1. Pass(st, pivot) = [nums |-> b, start |-> s, end |-> e - 1]
    <3>1. Pass([nums |-> ns, start |-> s, end |-> e], pivot)
            = [nums |-> b, start |-> s, end |-> e - 1]
      BY <1>6 DEF Pass
    <3> QED BY <1>1, <3>1
  <2>2. /\ b \in Array /\ Rearranges(ns, b, S) /\ b[e] = ns[s]
        /\ \A i \in Index \ {s, e} : b[i] = ns[i]
    BY <2>0 DEF Swapped
  <2> HIDE DEF b
  <2>3. Rearranges(a, b, S)
    BY <1>1, <2>2, RearrangesTwice
  <2>4. \A i \in first .. s - 1 : b[i] < pivot
    <3> SUFFICES ASSUME NEW i \in first .. s - 1 PROVE b[i] < pivot
      OBVIOUS
    <3>1. i \in Index \ {s, e}
      BY <1>1, <1>2, <1>3, <1>4, SortAssumption DEF Index
    <3> QED BY <1>1, <2>2, <3>1
  <2>5. \A i \in e .. last : pivot <= b[i]
    <3> SUFFICES ASSUME NEW i \in e .. last PROVE pivot <= b[i]
      OBVIOUS
    <3>1. CASE i = e
      <4>1. ns[s] \in Int
        BY <1>1, <1>2, <1>4 DEF Array
      <4> QED BY <1>2, <1>6, <2>2, <3>1, <4>1
    <3>2. CASE i # e
      <4>1. i \in Index \ {s, e} /\ i \in e + 1 .. last
        BY <1>1, <1>2, <1>3, <1>4, <3>2, SortAssumption DEF Index
      <4> QED BY <1>1, <2>2, <4>1
    <3> QED BY <3>1, <3>2
  <2>6. e - 1 \in first - 1 .. last /\ (e - 1) - s = (last - first) - (k + 1) /\ (e - 1) + 1 = e
    BY <1>1, <1>2, <1>3
  <2> QED BY <1>1, <2>1, <2>2, <2>3, <2>4, <2>5, <2>6 DEF Partly, S
<1> QED BY <1>5, <1>6

(* What the loop leaves. *)
LEMMA DivideSplits ==
  ASSUME NEW a \in Array, NEW first \in Index, NEW last \in Index, first <= last,
         NEW pivot \in Value
  PROVE  LET d == Divide(a, first, last, pivot)
         IN /\ d.nums \in Array /\ Rearranges(a, d.nums, first .. last)
            /\ d.start \in first .. last + 1
            /\ \A i \in first .. d.start - 1 : d.nums[i] < pivot
            /\ \A i \in d.start .. last : pivot <= d.nums[i]
<1> DEFINE n == last - first + 1
           init == [nums |-> a, start |-> first, end |-> last]
<1>0. \E g : IsLoop(g, n, init, pivot)
  <2>1. n \in Nat
    BY SortAssumption DEF Index
  <2> HIDE DEF n, init
  <2> QED BY ONLY <2>1, LoopExists, Zenon
<1> DEFINE P(g) == g = [k \in 0 .. n |-> IF k = 0 THEN init ELSE Pass(g[k - 1], pivot)]
           loop == CHOOSE g : P(g)
           S == {k \in 0 .. n : Partly(a, first, last, pivot, k, loop[k])}
<1>1. first \in Int /\ last \in Int /\ n \in Nat /\ n - 1 = last - first
  BY SortAssumption DEF Index
<1>2. P(loop)
  <2>1. \E g : P(g)
    BY <1>0, Zenon DEF IsLoop
  <2> HIDE DEF P
  <2> QED BY <2>1
<1>3. Divide(a, first, last, pivot) = loop[n]
  BY DEF Divide
<1> HIDE DEF loop
<1>4. \A k \in 0 .. n : loop[k] = IF k = 0 THEN init ELSE Pass(loop[k - 1], pivot)
  BY <1>2
<1>5. 0 \in S
  <2>1. Rearranges(a, a, first .. last)
    BY DEF Rearranges
  <2>2. Partly(a, first, last, pivot, 0, init)
    BY <1>1, <2>1 DEF Partly
  <2> QED BY <1>1, <1>4, <2>2
<1>6. ASSUME NEW k \in 0 .. n - 1, k \in S PROVE k + 1 \in S
  <2>1. k \in 0 .. last - first /\ k + 1 \in 0 .. n /\ k + 1 # 0 /\ (k + 1) - 1 = k
    BY <1>1
  <2>2. Partly(a, first, last, pivot, k, loop[k])
    BY <1>6
  <2>3. Partly(a, first, last, pivot, k + 1, Pass(loop[k], pivot))
    BY <2>1, <2>2, PassKeeps
  <2> QED BY <1>4, <2>1, <2>3
<1> HIDE DEF S
<1>7. n \in S
  BY <1>1, <1>5, <1>6, InductionTo
<1>8. Partly(a, first, last, pivot, n, loop[n])
  BY <1>7 DEF S
<1> DEFINE d == loop[n]
<1>9. d.end = d.start - 1 /\ d.end + 1 = d.start
  BY <1>1, <1>8 DEF Partly
<1> QED BY <1>3, <1>8, <1>9 DEF Partly

(* partition() puts the pivot where it belongs, the smaller elements of    *)
(* the range before it and the others behind it.                           *)
LEMMA PartitionSplits ==
  ASSUME NEW a \in Array, NEW first \in Index, NEW last \in Index, first < last
  PROVE  LET p == partition(a, first, last, last)
         IN /\ p.nums \in Array /\ Rearranges(a, p.nums, first .. last)
            /\ p.pos \in first .. last
            /\ \A i \in first .. p.pos - 1 : p.nums[i] <= p.nums[p.pos]
            /\ \A i \in p.pos + 1 .. last : p.nums[p.pos] <= p.nums[i]
<1> DEFINE pivot == a[last]
           b == swap(a, last, last)
           d == Divide(b, first, last - 1, pivot)
           c == swap(d.nums, d.start, last)
           S == first .. last
<1>1. /\ first \in Int /\ last \in Int /\ last - 1 \in Index /\ first <= last - 1
      /\ first .. last - 1 \subseteq S /\ S \in SUBSET Index /\ last \in S
      /\ Value \subseteq Int /\ pivot \in Value
      /\ (last - 1) + 1 = last
  BY SortAssumption DEF Index, Array
<1>2. b = a
  BY DEF swap, Array
<1>3. /\ d.nums \in Array /\ Rearranges(a, d.nums, first .. last - 1)
      /\ d.start \in S
      /\ \A i \in first .. d.start - 1 : d.nums[i] < pivot
      /\ \A i \in d.start .. last - 1 : pivot <= d.nums[i]
  BY <1>1, <1>2, DivideSplits
<1>4. partition(a, first, last, last) = [nums |-> c, pos |-> d.start]
  BY DEF partition
<1> DEFINE pos == d.start
<1> HIDE DEF b, d, pivot, S
<1>5. d.nums[last] = pivot
  <2>1. last \in Index \ (first .. last - 1)
    BY <1>1
  <2> QED BY <1>3, <2>1 DEF Rearranges, pivot
<1>6. /\ c \in Array /\ Rearranges(d.nums, c, S) /\ c[pos] = pivot /\ c[last] = d.nums[pos]
      /\ \A i \in Index \ {pos, last} : c[i] = d.nums[i]
  <2> DEFINE ns == d.nums
  <2>1. ns \in Array /\ S \in SUBSET Index /\ pos \in S /\ last \in S /\ ns[last] = pivot
    BY <1>1, <1>3, <1>5
  <2> HIDE DEF ns, pos
  <2>2. Swapped(ns, swap(ns, pos, last), pos, last, S)
    BY ONLY <2>1, SwapRearranges, Zenon
  <2> QED BY <2>1, <2>2 DEF ns, pos, Swapped
<1>7. Rearranges(a, c, S)
  BY <1>1, <1>3, <1>6, RearrangesMore, RearrangesTwice
<1> HIDE DEF c, pos
<1>8. pos \in first .. last /\ pos \in Int
  BY <1>1, <1>3 DEF S, pos
<1>9. \A i \in first .. pos - 1 : c[i] <= c[pos]
  <2> SUFFICES ASSUME NEW i \in first .. pos - 1 PROVE c[i] <= c[pos]
    OBVIOUS
  <2>1. i \in Index \ {pos, last}
    BY <1>1, <1>8 DEF Index
  <2>2. c[i] < pivot /\ c[i] \in Value /\ c[pos] = pivot
    BY <1>3, <1>6, <2>1 DEF pos, Array
  <2> HIDE DEF c
  <2>3. c[i] \in Int /\ pivot \in Int
    BY <1>1, <2>2
  <2> QED BY <2>2, <2>3
<1>10. \A i \in pos + 1 .. last : c[pos] <= c[i]
  <2> SUFFICES ASSUME NEW i \in pos + 1 .. last PROVE pivot <= c[i]
    BY <1>6
  <2>1. CASE i = last
    <3>1. pos \in pos .. last - 1
      BY <1>1, <1>8, <2>1
    <3>2. pivot <= d.nums[pos]
      BY <1>3, <3>1 DEF pos
    <3> QED BY <1>6, <2>1, <3>2
  <2>2. CASE i # last
    <3>1. i \in Index \ {pos, last} /\ i \in pos .. last - 1
      BY <1>1, <1>8, <2>2 DEF Index
    <3> QED BY <1>3, <1>6, <3>1 DEF pos
  <2> QED BY <2>1, <2>2
<1> QED BY <1>4, <1>6, <1>7, <1>8, <1>9, <1>10 DEF S, pos

---------------------------------------------------------------------------
(* The parts of the array that are still to be sorted.                     *)

Span == [start : Int, end : Int]
Frame == [at : {"quick", "left", "right", "return"}, pos : Int, end : Int]

(* The ranges a call of quick() has not dealt with yet; r is its args. *)
Ranges(r, frame) ==
  CASE frame.at = "quick" -> {r.start .. r.end}
    [] frame.at = "left"  -> {r.start .. r.end, frame.pos + 1 .. frame.end}
    [] frame.at = "right" -> {frame.pos + 1 .. frame.end}
    [] OTHER              -> {}

(* A part: the thread, the height of the call on its stack, the range. *)
Layer(t, n, R) == {<<t, n, S>> : S \in R}

Parts(t, r, stack) ==
  UNION {Layer(t, n, Ranges(r, stack[Len(stack) + 1 - n])) : n \in 1 .. Len(stack)}

Work(cs, ar, L) == UNION {Parts(t, ar[t], cs[t]) : t \in L}

(* Only the innermost call on a stack uses args. *)
Suspended(stack) == \A i \in DOMAIN stack : stack[i].at \in {"right", "return"}

StackOK(r, stack) ==
  stack # <<>> => /\ Head(stack).at = "left" => r.end = Head(stack).pos - 1
                  /\ Suspended(Tail(stack))

(* What the parts are for: no two have an element in common, and two       *)
(* elements that are in no common part are in order.                       *)
InArray(W) == \A p \in W : p[3] \subseteq Index

Apart(W) == \A p, r \in W : p = r \/ p[3] \cap r[3] = {}

Ordered(ns, W) ==
  \A i, j \in Index : i < j => ns[i] <= ns[j] \/ \E p \in W : i \in p[3] /\ j \in p[3]

(* The ranges of a call, by where it goes on. *)
LEMMA RangesAt ==
  ASSUME NEW r, NEW frame
  PROVE  /\ frame.at = "quick" => Ranges(r, frame) = {r.start .. r.end}
         /\ frame.at = "left" =>
              Ranges(r, frame) = {r.start .. r.end, frame.pos + 1 .. frame.end}
         /\ frame.at = "right" => Ranges(r, frame) = {frame.pos + 1 .. frame.end}
         /\ frame.at = "return" => Ranges(r, frame) = {}
BY DEF Ranges

(* A part belongs to a call at some height of the stack. *)
LEMMA PartsAre ==
  ASSUME NEW t, NEW r, NEW stack \in Seq(Frame)
  PROVE  /\ Len(stack) \in Nat
         /\ \A p : p \in Parts(t, r, stack) <=>
              \E n \in 1 .. Len(stack) :
                 \E S \in Ranges(r, stack[Len(stack) + 1 - n]) : p = <<t, n, S>>
BY LenProperties DEF Parts, Layer

(* A part is a triple of a thread, a height and a range. *)
LEMMA PartsBelow ==
  ASSUME NEW t, NEW r, NEW stack \in Seq(Frame), NEW p \in Parts(t, r, stack)
  PROVE  p = <<p[1], p[2], p[3]>> /\ p[1] = t /\ p[2] \in 1 .. Len(stack)
BY PartsAre

(* A thread without a call has no part. *)
LEMMA NoParts ==
  ASSUME NEW t, NEW r
  PROVE  Parts(t, r, <<>>) = {}
BY DEF Parts

(* A call more on the stack. *)
LEMMA PartsPush ==
  ASSUME NEW t, NEW r, NEW frame \in Frame, NEW stack \in Seq(Frame)
  PROVE  /\ <<frame>> \o stack \in Seq(Frame)
         /\ Len(<<frame>> \o stack) = Len(stack) + 1
         /\ Parts(t, r, <<frame>> \o stack)
              = Layer(t, Len(stack) + 1, Ranges(r, frame)) \cup Parts(t, r, stack)
<1> DEFINE g == <<frame>> \o stack
           m == Len(stack)
<1>1. /\ m \in Nat /\ <<frame>> \in Seq(Frame) /\ Len(<<frame>>) = 1 /\ <<frame>>[1] = frame
  BY LenProperties
<1>2. /\ g \in Seq(Frame) /\ Len(g) = m + 1 /\ g[1] = frame
      /\ \A i \in 1 .. m : g[i + 1] = stack[i]
  <2>1. /\ g \in Seq(Frame) /\ Len(g) = 1 + m
        /\ g[1] = frame
        /\ \A i \in 2 .. m + 1 : g[i] = stack[i - 1]
    BY <1>1, ConcatProperties
  <2> HIDE DEF g, m
  <2>2. \A i \in 1 .. m : g[i + 1] = stack[i]
    <3> SUFFICES ASSUME NEW i \in 1 .. m PROVE g[i + 1] = stack[i]
      OBVIOUS
    <3>1. i + 1 \in 2 .. m + 1 /\ (i + 1) - 1 = i
      BY <1>1
    <3> QED BY <2>1, <3>1
  <2> QED BY <1>1, <2>1, <2>2
<1> HIDE DEF g
<1>3. /\ g[Len(g) + 1 - (m + 1)] = frame
      /\ \A n \in 1 .. m : g[Len(g) + 1 - n] = stack[m + 1 - n]
  <2> HIDE DEF m
  <2>1. Len(g) + 1 - (m + 1) = 1
    BY <1>1, <1>2
  <2>2. ASSUME NEW n \in 1 .. m PROVE g[Len(g) + 1 - n] = stack[m + 1 - n]
    <3>1. m + 1 - n \in 1 .. m /\ Len(g) + 1 - n = (m + 1 - n) + 1
      BY <1>1, <1>2
    <3> QED BY <1>2, <3>1
  <2> QED BY <1>2, <2>1, <2>2
<1>4. \A n : n \in 1 .. Len(g) <=> n = m + 1 \/ n \in 1 .. m
  BY <1>1, <1>2
<1>5. \A p : p \in Parts(t, r, g) <=>
               \/ \E S \in Ranges(r, frame) : p = <<t, m + 1, S>>
               \/ \E n \in 1 .. m : \E S \in Ranges(r, stack[m + 1 - n]) : p = <<t, n, S>>
  <2>1. \A p : p \in Parts(t, r, g) <=>
          \E n \in 1 .. Len(g) : \E S \in Ranges(r, g[Len(g) + 1 - n]) : p = <<t, n, S>>
    BY DEF Parts, Layer
  <2> HIDE DEF m
  <2> QED BY <1>3, <1>4, <2>1, Zenon
<1>6. \A p : p \in Parts(t, r, stack) <=>
               \E n \in 1 .. m : \E S \in Ranges(r, stack[m + 1 - n]) : p = <<t, n, S>>
  BY PartsAre
<1>7. \A p : p \in Layer(t, m + 1, Ranges(r, frame)) <=>
               \E S \in Ranges(r, frame) : p = <<t, m + 1, S>>
  BY DEF Layer
<1>8. Parts(t, r, g) = Layer(t, m + 1, Ranges(r, frame)) \cup Parts(t, r, stack)
  BY <1>5, <1>6, <1>7, Zenon
<1> QED BY <1>2, <1>8 DEF g, m

(* Suspended calls do not use args. *)
LEMMA PartsArgs ==
  ASSUME NEW t, NEW r, NEW r1, NEW stack \in Seq(Frame), Suspended(stack)
  PROVE  Parts(t, r, stack) = Parts(t, r1, stack)
<1>1. DOMAIN stack = 1 .. Len(stack) /\ Len(stack) \in Nat
  BY LenProperties
<1> DEFINE In(p, n) == p \in Layer(t, n, Ranges(r, stack[Len(stack) + 1 - n]))
           In1(p, n) == p \in Layer(t, n, Ranges(r1, stack[Len(stack) + 1 - n]))
<1>2. ASSUME NEW n \in 1 .. Len(stack), NEW p PROVE In(p, n) <=> In1(p, n)
  <2> DEFINE frame == stack[Len(stack) + 1 - n]
  <2>1. Len(stack) + 1 - n \in DOMAIN stack
    BY <1>1
  <2>2. frame.at \in {"right", "return"}
    BY <2>1 DEF Suspended
  <2> HIDE DEF frame
  <2>3. Ranges(r, frame) = Ranges(r1, frame)
    BY <2>2, RangesAt
  <2>4. p \in Layer(t, n, Ranges(r, frame)) <=> p \in Layer(t, n, Ranges(r1, frame))
    BY <2>3, Zenon
  <2> QED BY <2>4 DEF frame
<1>3. \A p : /\ p \in Parts(t, r, stack) <=> \E n \in 1 .. Len(stack) : In(p, n)
             /\ p \in Parts(t, r1, stack) <=> \E n \in 1 .. Len(stack) : In1(p, n)
  BY DEF Parts
<1> HIDE DEF In, In1
<1>4. \A p : p \in Parts(t, r, stack) <=> p \in Parts(t, r1, stack)
  BY <1>2, <1>3
<1> QED BY <1>4, Zenon

(* A stack that is not empty is its head on its tail. *)
LEMMA HeadOnTail ==
  ASSUME NEW S, NEW stack \in Seq(S), stack # <<>>
  PROVE  /\ Head(stack) \in S /\ Tail(stack) \in Seq(S)
         /\ Len(Tail(stack)) + 1 = Len(stack)
         /\ stack = <<Head(stack)>> \o Tail(stack)
<1> DEFINE h == Head(stack)
           s == Tail(stack)
<1>1. /\ Len(stack) \in Nat \ {0} /\ h \in S /\ s \in Seq(S) /\ h = stack[1]
      /\ Len(s) = Len(stack) - 1 /\ Len(s) \in Nat
      /\ \A i \in 1 .. Len(s) : s[i] = stack[i + 1]
  BY HeadTailProperties, LenProperties, EmptySeq
<1> HIDE DEF h, s
<1>2. <<h>> \in Seq(S) /\ Len(<<h>>) = 1 /\ <<h>>[1] = h
  BY <1>1
<1>3. /\ <<h>> \o s \in Seq(S) /\ Len(<<h>> \o s) = 1 + Len(s)
      /\ (<<h>> \o s)[1] = h
      /\ \A i \in 2 .. 1 + Len(s) : (<<h>> \o s)[i] = s[i - 1]
  BY <1>1, <1>2, ConcatProperties
<1> DEFINE g == <<h>> \o s
<1> HIDE DEF g
<1>4. \A i \in 1 .. Len(stack) : g[i] = stack[i]
  <2> SUFFICES ASSUME NEW i \in 1 .. Len(stack) PROVE g[i] = stack[i]
    OBVIOUS
  <2>1. CASE i = 1
    BY <1>1, <1>3, <2>1 DEF g
  <2>2. CASE i # 1
    <3>1. i \in 2 .. 1 + Len(s) /\ i - 1 \in 1 .. Len(s) /\ (i - 1) + 1 = i
      BY <1>1, <2>2
    <3> QED BY <1>1, <1>3, <3>1 DEF g
  <2> QED BY <2>1, <2>2
<1>5. g = stack
  <2>1. g \in Seq(S) /\ Len(g) = Len(stack)
    BY <1>1, <1>3 DEF g
  <2> QED BY <1>4, <2>1, SeqEqual
<1> QED BY <1>1, <1>5 DEF g, h, s

(* What is pushed on a stack is its head, and the rest its tail. *)
LEMMA HeadTailPush ==
  ASSUME NEW S, NEW x \in S, NEW s \in Seq(S)
  PROVE  /\ <<x>> \o s # <<>> /\ Head(<<x>> \o s) = x /\ Tail(<<x>> \o s) = s
<1> DEFINE g == <<x>> \o s
<1>1. /\ <<x>> \in Seq(S) /\ Len(<<x>>) = 1 /\ <<x>>[1] = x /\ Len(s) \in Nat
  BY LenProperties
<1>2. /\ g \in Seq(S) /\ Len(g) = 1 + Len(s) /\ g[1] = x
      /\ \A i \in 2 .. 1 + Len(s) : g[i] = s[i - 1]
  BY <1>1, ConcatProperties
<1> HIDE DEF g
<1>3. g # <<>> /\ Len(<<>>) = 0
  BY <1>1, <1>2, EmptySeq
<1>4. Head(g) = x /\ Tail(g) \in Seq(S) /\ Len(Tail(g)) = Len(s)
      /\ \A i \in 1 .. Len(s) : Tail(g)[i] = g[i + 1]
  BY <1>1, <1>2, <1>3, HeadTailProperties
<1>5. ASSUME NEW i \in 1 .. Len(s) PROVE Tail(g)[i] = s[i]
  <2>1. i + 1 \in 2 .. 1 + Len(s) /\ (i + 1) - 1 = i
    BY <1>1
  <2> QED BY <1>2, <1>4, <2>1
<1>6. Tail(g) = s
  BY <1>4, <1>5, SeqEqual
<1> QED BY <1>3, <1>4, <1>6 DEF g

(* A call that waits for the second part, or returns, leaves the stack so. *)
LEMMA SuspendedPush ==
  ASSUME NEW frame \in Frame, NEW stack \in Seq(Frame), Suspended(stack),
         frame.at \in {"right", "return"}
  PROVE  Suspended(<<frame>> \o stack)
<1> DEFINE g == <<frame>> \o stack
<1>1. /\ <<frame>> \in Seq(Frame) /\ Len(<<frame>>) = 1 /\ <<frame>>[1] = frame
      /\ Len(stack) \in Nat /\ DOMAIN stack = 1 .. Len(stack)
  BY LenProperties
<1>2. /\ g \in Seq(Frame) /\ Len(g) = 1 + Len(stack) /\ g[1] = frame
      /\ \A i \in 2 .. 1 + Len(stack) : g[i] = stack[i - 1]
  BY <1>1, ConcatProperties
<1> HIDE DEF g
<1>3. DOMAIN g = 1 .. 1 + Len(stack)
  BY <1>2, LenProperties
<1>4. \A i \in DOMAIN g : i = 1 \/ (i \in 2 .. 1 + Len(stack) /\ i - 1 \in DOMAIN stack)
  BY <1>1, <1>3
<1>5. Suspended(g)
  BY <1>1, <1>2, <1>4 DEF Suspended
<1> QED BY <1>5 DEF g

(* The stack without its innermost call is suspended, too. *)
LEMMA SuspendedTail ==
  ASSUME NEW s \in Seq(Frame), Suspended(s), s # <<>>
  PROVE  Head(s).at # "left" /\ Suspended(Tail(s))
<1>1. /\ Len(s) \in Nat \ {0} /\ DOMAIN s = 1 .. Len(s) /\ Head(s) = s[1]
      /\ Tail(s) \in Seq(Frame) /\ Len(Tail(s)) = Len(s) - 1
      /\ \A i \in 1 .. Len(Tail(s)) : Tail(s)[i] = s[i + 1]
  BY HeadTailProperties, LenProperties, EmptySeq
<1>2. DOMAIN Tail(s) = 1 .. Len(s) - 1
  BY <1>1, LenProperties
<1>3. Head(s).at # "left"
  BY <1>1 DEF Suspended
<1>4. \A i \in DOMAIN Tail(s) : i + 1 \in DOMAIN s /\ Tail(s)[i] = s[i + 1]
  BY <1>1, <1>2
<1>5. Suspended(Tail(s))
  BY <1>4 DEF Suspended
<1> QED BY <1>3, <1>5

(* The parts of one thread and those of the others. *)
LEMMA WorkOf ==
  ASSUME NEW cs, NEW ar, NEW L, NEW c \in L
  PROVE  Work(cs, ar, L) = Work(cs, ar, L \ {c}) \cup Parts(c, ar[c], cs[c])
BY DEF Work

(* A part belongs to a thread and a height of its stack. *)
LEMMA WorkBelow ==
  ASSUME NEW cs, NEW ar, NEW L, \A u \in L : cs[u] \in Seq(Frame),
         NEW p \in Work(cs, ar, L)
  PROVE  p = <<p[1], p[2], p[3]>> /\ p[1] \in L /\ p[2] \in 1 .. Len(cs[p[1]])
<1>1. PICK u \in L : p \in Parts(u, ar[u], cs[u])
  BY DEF Work
<1>2. p = <<p[1], p[2], p[3]>> /\ p[1] = u /\ p[2] \in 1 .. Len(cs[u])
  BY <1>1, PartsBelow
<1> QED BY <1>1, <1>2

(* The parts of all calls but the innermost one of thread c. *)
Rest(cs, ar, L, c) == Work(cs, ar, L \ {c}) \cup Parts(c, ar[c], Tail(cs[c]))

(* The innermost call of c is one among the parts. *)
LEMMA WorkTop ==
  ASSUME NEW cs, NEW ar, NEW L, \A u \in L : cs[u] \in Seq(Frame),
         NEW c \in L, cs[c] # <<>>
  PROVE  /\ Work(cs, ar, L) =
              Rest(cs, ar, L, c) \cup Layer(c, Len(cs[c]), Ranges(ar[c], Head(cs[c])))
         /\ \A S : <<c, Len(cs[c]), S>> \notin Rest(cs, ar, L, c)
<1> DEFINE h == Head(cs[c])
           s == Tail(cs[c])
           n == Len(cs[c])
<1>1. /\ cs[c] \in Seq(Frame) /\ h \in Frame /\ s \in Seq(Frame)
      /\ Len(s) + 1 = n /\ cs[c] = <<h>> \o s
  BY HeadOnTail
<1>2. /\ n \in Nat /\ Len(s) \in Nat
  BY <1>1, LenProperties
<1> HIDE DEF h, s, n
<1>3. Parts(c, ar[c], cs[c]) = Layer(c, n, Ranges(ar[c], h)) \cup Parts(c, ar[c], s)
  <2>1. Parts(c, ar[c], <<h>> \o s) =
          Layer(c, Len(s) + 1, Ranges(ar[c], h)) \cup Parts(c, ar[c], s)
    BY <1>1, PartsPush
  <2> QED BY ONLY <1>1, <2>1, Zenon
<1>4. Work(cs, ar, L) = Work(cs, ar, L \ {c}) \cup Parts(c, ar[c], cs[c])
  BY WorkOf
<1>5. ASSUME NEW S, <<c, n, S>> \in Rest(cs, ar, L, c) PROVE FALSE
  <2> DEFINE p == <<c, n, S>>
  <2>1. p[1] = c /\ p[2] = n
    OBVIOUS
  <2>2. CASE p \in Work(cs, ar, L \ {c})
    <3>1. p[1] \in L \ {c}
      BY <2>2, WorkBelow
    <3> QED BY <2>1, <3>1
  <2>3. CASE p \in Parts(c, ar[c], s)
    <3>1. p[2] \in 1 .. Len(s)
      BY <1>1, <2>3, PartsBelow
    <3> QED BY <1>1, <1>2, <2>1, <3>1
  <2> QED BY <1>5, <2>2, <2>3 DEF Rest, s
<1>6. Work(cs, ar, L) = Rest(cs, ar, L, c) \cup Layer(c, n, Ranges(ar[c], h))
  <2> DEFINE A == Work(cs, ar, L \ {c})
             B == Layer(c, n, Ranges(ar[c], h))
             C == Parts(c, ar[c], s)
  <2>1. Work(cs, ar, L) = A \cup (B \cup C)
    BY ONLY <1>3, <1>4, Zenon DEF A, B, C
  <2>2. A \cup (B \cup C) = (A \cup C) \cup B
    <3> HIDE DEF A, B, C
    <3> QED OBVIOUS
  <2> HIDE DEF A, B, C
  <2>3. Work(cs, ar, L) = (A \cup C) \cup B
    BY ONLY <2>1, <2>2, Zenon
  <2> QED BY ONLY <2>3, Zenon DEF Rest, A, B, C, s
<1> QED BY <1>5, <1>6 DEF h, n

(* The innermost call, now f, calls quick() with e. *)
TwoMore(cs, cs1, c, e, f) == cs1[c] = <<e>> \o (<<f>> \o Tail(cs[c]))

(* What the parts are when that call goes on, ends, or makes a call.       *)
LEMMA WorkChanged ==
  ASSUME NEW cs, NEW ar, NEW cs1, NEW ar1, NEW L, \A u \in L : cs[u] \in Seq(Frame),
         NEW c \in L, cs[c] # <<>>, StackOK(ar[c], cs[c]),
         \A u \in L \ {c} : cs1[u] = cs[u] /\ ar1[u] = ar[u]
  PROVE  /\ cs1[c] = Tail(cs[c]) => Work(cs1, ar1, L) = Rest(cs, ar, L, c)
         /\ \A f \in Frame : cs1[c] = <<f>> \o Tail(cs[c]) =>
              Work(cs1, ar1, L) =
                Rest(cs, ar, L, c) \cup Layer(c, Len(cs[c]), Ranges(ar1[c], f))
         /\ \A e, f \in Frame : TwoMore(cs, cs1, c, e, f) =>
              Work(cs1, ar1, L) =
                Rest(cs, ar, L, c) \cup Layer(c, Len(cs[c]), Ranges(ar1[c], f))
                                   \cup Layer(c, Len(cs[c]) + 1, Ranges(ar1[c], e))
<1> DEFINE s == Tail(cs[c])
           n == Len(cs[c])
           others == Work(cs, ar, L \ {c})
<1>1. s \in Seq(Frame) /\ Len(s) + 1 = n /\ Suspended(s)
  BY HeadOnTail DEF StackOK
<1>2. Work(cs1, ar1, L \ {c}) = others
  <2> DEFINE M == L \ {c}
  <2>1. \A u \in M : cs1[u] = cs[u] /\ ar1[u] = ar[u]
    OBVIOUS
  <2> HIDE DEF M
  <2>2. Work(cs1, ar1, M) = Work(cs, ar, M)
    BY <2>1 DEF Work
  <2> QED BY <2>2 DEF M
<1>3. Work(cs1, ar1, L) = Work(cs1, ar1, L \ {c}) \cup Parts(c, ar1[c], cs1[c])
  <2>1. c \in L
    OBVIOUS
  <2> QED BY ONLY <2>1, WorkOf, Zenon
<1> HIDE DEF s, n, others
<1>4. Work(cs1, ar1, L) = others \cup Parts(c, ar1[c], cs1[c])
  BY ONLY <1>2, <1>3, Zenon
<1>5. Parts(c, ar1[c], s) = Parts(c, ar[c], s)
  BY <1>1, PartsArgs
<1>6. Rest(cs, ar, L, c) = others \cup Parts(c, ar1[c], s)
  <2>1. Rest(cs, ar, L, c) = others \cup Parts(c, ar[c], s)
    BY DEF Rest, others, s
  <2> QED BY ONLY <1>5, <2>1, Zenon
<1>7. ASSUME NEW f \in Frame
      PROVE  /\ <<f>> \o s \in Seq(Frame) /\ Len(<<f>> \o s) = n
             /\ Parts(c, ar1[c], <<f>> \o s) =
                  Layer(c, n, Ranges(ar1[c], f)) \cup Parts(c, ar1[c], s)
  <2>1. /\ <<f>> \o s \in Seq(Frame) /\ Len(<<f>> \o s) = Len(s) + 1
        /\ Parts(c, ar1[c], <<f>> \o s) =
             Layer(c, Len(s) + 1, Ranges(ar1[c], f)) \cup Parts(c, ar1[c], s)
    BY <1>1, PartsPush
  <2> QED BY ONLY <1>1, <2>1, Zenon
<1>8. ASSUME NEW e \in Frame, NEW f \in Frame
      PROVE  Parts(c, ar1[c], <<e>> \o (<<f>> \o s)) =
               Layer(c, n + 1, Ranges(ar1[c], e))
                 \cup (Layer(c, n, Ranges(ar1[c], f)) \cup Parts(c, ar1[c], s))
  <2> DEFINE g == <<f>> \o s
  <2>1. g \in Seq(Frame) /\ Len(g) = n
        /\ Parts(c, ar1[c], g) = Layer(c, n, Ranges(ar1[c], f)) \cup Parts(c, ar1[c], s)
    BY <1>7
  <2> HIDE DEF g
  <2>2. Parts(c, ar1[c], <<e>> \o g) =
          Layer(c, Len(g) + 1, Ranges(ar1[c], e)) \cup Parts(c, ar1[c], g)
    BY <2>1, PartsPush
  <2>3. Parts(c, ar1[c], <<e>> \o g) =
          Layer(c, n + 1, Ranges(ar1[c], e))
            \cup (Layer(c, n, Ranges(ar1[c], f)) \cup Parts(c, ar1[c], s))
    BY ONLY <2>1, <2>2, Zenon
  <2> QED BY <2>3 DEF g
<1>9. cs1[c] = s => Work(cs1, ar1, L) = Rest(cs, ar, L, c)
  BY ONLY <1>4, <1>6, Zenon
<1>10. ASSUME NEW f \in Frame, cs1[c] = <<f>> \o s
       PROVE  Work(cs1, ar1, L) = Rest(cs, ar, L, c) \cup Layer(c, n, Ranges(ar1[c], f))
  <2>1. Work(cs1, ar1, L)
          = others \cup (Layer(c, n, Ranges(ar1[c], f)) \cup Parts(c, ar1[c], s))
    BY ONLY <1>4, <1>7, <1>10, Zenon
  <2> QED BY ONLY <1>6, <2>1, Zenon
<1>11. ASSUME NEW e \in Frame, NEW f \in Frame, TwoMore(cs, cs1, c, e, f)
       PROVE  Work(cs1, ar1, L) = Rest(cs, ar, L, c) \cup Layer(c, n, Ranges(ar1[c], f))
                                   \cup Layer(c, n + 1, Ranges(ar1[c], e))
  <2>1. Work(cs1, ar1, L)
          = others \cup (Layer(c, n + 1, Ranges(ar1[c], e))
                          \cup (Layer(c, n, Ranges(ar1[c], f)) \cup Parts(c, ar1[c], s)))
    <3>1. cs1[c] = <<e>> \o (<<f>> \o s)
      BY <1>11, Zenon DEF TwoMore, s
    <3> QED BY ONLY <1>4, <1>8, <3>1, Zenon
  <2> QED BY ONLY <1>6, <2>1, Zenon
<1> QED BY <1>9, <1>10, <1>11, Zenon DEF s, n

(* A part is handed on. *)
LEMMA Handed ==
  ASSUME NEW X, NEW p, NEW r, r[3] = p[3], p \notin X \/ p[3] = {},
         InArray(X \cup {p}), Apart(X \cup {p})
  PROVE  /\ InArray(X \cup {r}) /\ Apart(X \cup {r})
         /\ \A ns : Ordered(ns, X \cup {p}) => Ordered(ns, X \cup {r})
<1>1. InArray(X \cup {r})
  BY DEF InArray
<1>2. Apart(X \cup {r})
  <2>1. \A x \in X : x[3] \cap r[3] = {}
    BY DEF Apart
  <2> QED BY <2>1 DEF Apart
<1>3. ASSUME NEW ns, Ordered(ns, X \cup {p}) PROVE Ordered(ns, X \cup {r})
  BY <1>3 DEF Ordered
<1> QED BY <1>1, <1>2, <1>3

(* A part is dropped. *)
LEMMA Dropped ==
  ASSUME NEW W, NEW X, X \subseteq W, InArray(W), Apart(W)
  PROVE  InArray(X) /\ Apart(X)
BY DEF InArray, Apart

(* A part of at most one element is done with. *)
LEMMA Finished ==
  ASSUME NEW X, NEW p, \A i, j \in p[3] : i = j, NEW ns, Ordered(ns, X \cup {p})
  PROVE  Ordered(ns, X)
<1>1. ASSUME NEW i \in Index, NEW j \in Index, i < j
      PROVE  ns[i] <= ns[j] \/ \E w \in X : i \in w[3] /\ j \in w[3]
  <2>1. i # j
    BY <1>1, IndexFinite
  <2> QED BY <1>1, <2>1 DEF Ordered
<1> QED BY <1>1 DEF Ordered

(* A part is partitioned, with the pivot at m. *)
LEMMA Parted ==
  ASSUME NEW X, NEW c, NEW n, NEW a \in Array, NEW b \in Array,
         NEW f \in Index, NEW l \in Index, NEW m \in f .. l,
         <<c, n, f .. l>> \notin X,
         InArray(X \cup {<<c, n, f .. l>>}), Apart(X \cup {<<c, n, f .. l>>}),
         Rearranges(a, b, f .. l),
         \A i \in f .. m - 1 : b[i] <= b[m],
         \A i \in m + 1 .. l : b[m] <= b[i]
  PROVE  /\ InArray(X \cup {<<c, n, f .. m - 1>>, <<c, n, m + 1 .. l>>})
         /\ Apart(X \cup {<<c, n, f .. m - 1>>, <<c, n, m + 1 .. l>>})
         /\ Ordered(a, X \cup {<<c, n, f .. l>>}) =>
              Ordered(b, X \cup {<<c, n, f .. m - 1>>, <<c, n, m + 1 .. l>>})
<1> DEFINE S == f .. l
           A == f .. m - 1
           B == m + 1 .. l
           p == <<c, n, S>>
           p1 == <<c, n, A>>
           p2 == <<c, n, B>>
<1>1. /\ f \in Int /\ l \in Int /\ m \in Int /\ Index \subseteq Int
      /\ \A i \in Index : a[i] \in Int /\ b[i] \in Int
      /\ m \in Index /\ m \in S
  <2>1. f \in Int /\ l \in Int /\ m \in Int /\ Index \subseteq Int /\ m \in Index
    BY SortAssumption DEF Index
  <2>2. \A i \in Index : a[i] \in Value /\ b[i] \in Value
    BY DEF Array
  <2> QED BY <2>1, <2>2, SortAssumption
<1>2. /\ A \subseteq S /\ B \subseteq S /\ A \cap B = {} /\ S \subseteq Index
      /\ \A i \in S : i \in A \/ i = m \/ i \in B
      /\ m \notin A /\ m \notin B
  <2>1. S \subseteq Index
    BY <1>1, SortAssumption DEF Index
  <2> QED BY <1>1, <2>1
<1>3. p[3] = S /\ p1[3] = A /\ p2[3] = B
  OBVIOUS
<1>4. p \notin X /\ InArray(X \cup {p}) /\ Apart(X \cup {p}) /\ Rearranges(a, b, S)
  OBVIOUS
<1>5. /\ \A i \in A : b[i] <= b[m]
      /\ \A i \in B : b[m] <= b[i]
      /\ \A i, j \in S : i < j => \/ i \in A /\ j \in A
                                  \/ i \in B /\ j \in B
                                  \/ (i \in A \/ i = m) /\ (j \in B \/ j = m)
  BY <1>1
<1>6. \A i \in Index, k, j \in S :
        i \notin S => /\ i < k => i < j
                      /\ k < i => j < i
  BY <1>1
<1> HIDE DEF S, A, B, p, p1, p2
<1>7. \A x \in X : x[3] \cap S = {} /\ x[3] \cap A = {} /\ x[3] \cap B = {}
  BY <1>2, <1>3, <1>4 DEF Apart
<1>8. InArray(X \cup {p1, p2})
  BY <1>2, <1>3, <1>4 DEF InArray
<1>9. Apart(X \cup {p1, p2})
  BY <1>2, <1>3, <1>4, <1>7 DEF Apart
<1>10. ASSUME Ordered(a, X \cup {p}) PROVE Ordered(b, X \cup {p1, p2})
  <2> SUFFICES ASSUME NEW i \in Index, NEW j \in Index, i < j
               PROVE  \/ b[i] <= b[j]
                      \/ \E w \in X \cup {p1, p2} : i \in w[3] /\ j \in w[3]
    BY DEF Ordered
  <2>0. /\ \A k \in Index \ S : b[k] = a[k]
        /\ \A k \in S : \E k0 \in S : b[k] = a[k0]
    BY <1>4 DEF Rearranges
  <2>1. \A k, k0 \in Index : k < k0 =>
          \/ a[k] <= a[k0]
          \/ k \in S /\ k0 \in S
          \/ \E w \in X : k \in w[3] /\ k0 \in w[3]
    BY <1>3, <1>10 DEF Ordered
  <2>2. CASE i \notin S /\ j \notin S
    BY <2>0, <2>1, <2>2
  <2>3. CASE i \notin S /\ j \in S
    <3>1. PICK k \in S : b[j] = a[k]
      BY <2>0, <2>3
    <3>2. k \in Index /\ i < k
      BY <1>2, <1>6, <2>3
    <3>3. a[i] <= a[k]
      BY <1>7, <2>1, <2>3, <3>2
    <3> QED BY <2>0, <2>3, <3>1, <3>3
  <2>4. CASE i \in S /\ j \notin S
    <3>1. PICK k \in S : b[i] = a[k]
      BY <2>0, <2>4
    <3>2. k \in Index /\ k < j
      BY <1>2, <1>6, <2>4
    <3>3. a[k] <= a[j]
      BY <1>7, <2>1, <2>4, <3>2
    <3> QED BY <2>0, <2>4, <3>1, <3>3
  <2>5. CASE i \in S /\ j \in S
    <3>1. CASE i \in A /\ j \in A
      BY <1>3, <3>1
    <3>2. CASE i \in B /\ j \in B
      BY <1>3, <3>2
    <3>3. CASE (i \in A \/ i = m) /\ (j \in B \/ j = m)
      <4>1. b[i] <= b[m] /\ b[m] <= b[j]
        BY <1>1, <1>5, <3>3
      <4> QED BY <1>1, <4>1
    <3> QED BY <1>5, <2>5, <3>1, <3>2, <3>3
  <2> QED BY <2>2, <2>3, <2>4, <2>5
<1> QED BY <1>8, <1>9, <1>10 DEF p, p1, p2, S, A, B

---------------------------------------------------------------------------
(* The inductive invariant.  That no two threads work on the same element  *)
(* is not inductive by itself, since the calls suspended on the stacks     *)
(* still have to sort the parts behind their pivots: the parts of all      *)
(* calls are apart.  And elements that are in no common part are in order, *)
(* which leaves nothing to do when no part is left.                        *)

Todo == Work(calls, args, Live)

SortTypes ==
  /\ nums \in Array /\ given \in Array
  /\ args \in [Thread -> Span]
  /\ calls \in [Thread -> Seq(Frame)]

(* Where the threads are: only root waits for the others, when it has      *)
(* nothing more to sort, and it is alone when it goes on.                  *)
Phases ==
  /\ \A t \in Live :
       pc[t] = "user" \/ (pc[t] = "join_all" /\ t = root /\ calls[root] = <<>> /\ ~joined)
  /\ joined => Live \subseteq {root} /\ calls[root] = <<>>

SortData ==
  /\ SortTypes
  /\ \A t \in Live : StackOK(args[t], calls[t])
  /\ InArray(Todo) /\ Apart(Todo)
  /\ ~refused => Ordered(nums, Todo)
  /\ \A v \in Value : Occurrences(nums, v) = Occurrences(given, v)
  /\ Phases

SortInv == ThreadsInv /\ LastOne /\ SortData

(* Which threads are alive after a call of the scheduler. *)
LEMMA NewLive ==
  ASSUME ThreadsInv, NEW t \in Thread, thread_new(t)
  PROVE  t \notin Live /\ Live' = Live \cup {t}
<1>1. /\ status = "running" /\ t # root /\ t \notin heap \ Dead
      /\ handle' = [handleAfterRelease EXCEPT ![t] = t]
  BY DEF thread_new, At
<1>2. /\ handleAfterRelease \in [Thread -> Thread \cup {NULL, FREED}]
      /\ \A u \in Thread : handleAfterRelease[u] = u <=> u \in Live
      /\ heap \ Dead = Live \ {root}
  BY <1>1, AfterRelease
<1>3. \A u \in Thread : handle'[u] = u <=> u \in Live \cup {t}
  BY <1>1, <1>2
<1> QED BY <1>1, <1>2, <1>3, LiveFinite DEF Live

(* A failed thread_new neither starts nor ends a thread. *)
LEMMA NewFailsLive ==
  ASSUME ThreadsInv, thread_new_fails
  PROVE  Live' = Live
<1>1. status = "running" /\ handle' = handleAfterRelease
  BY DEF thread_new_fails, At
<1> QED BY <1>1, AfterRelease DEF Live

(* thread_exit ends the running thread. *)
LEMMA ExitLive ==
  ASSUME ThreadsInv, NEW c \in Code, thread_exit(c)
  PROVE  Live' = Live \ {current}
<1>1. status = "running" /\ handle' = [handleAfterRelease EXCEPT ![current] = NULL]
  BY DEF thread_exit, At
<1>2. /\ handleAfterRelease \in [Thread -> Thread \cup {NULL, FREED}]
      /\ \A u \in Thread : handleAfterRelease[u] = u <=> u \in Live
      /\ current \in Thread
  BY <1>1, AfterRelease DEF ThreadsInv, FieldsOK
<1>3. \A u \in Thread : handle'[u] = u <=> u \in Live \ {current}
  BY <1>1, <1>2, Names
<1> QED BY <1>3, LiveFinite DEF Live

(* A thread stays alive while it waits. *)
LEMMA BlockLive == ASSUME NEW l, NEW label, Block(l, label) PROVE Live' = Live
BY DEF Block, Live

(* The running thread is in a call of quick(). *)
LEMMA TopCall ==
  ASSUME SortInv, NEW label, QuickAt(label)
  PROVE  /\ current \in Live /\ current \in Thread /\ pc[current] = "user" /\ ~joined
         /\ calls[current] \in Seq(Frame) /\ calls[current] # <<>>
         /\ Head(calls[current]) \in Frame /\ Head(calls[current]).at = label
         /\ Tail(calls[current]) \in Seq(Frame) /\ Suspended(Tail(calls[current]))
         /\ args[current] \in Span /\ StackOK(args[current], calls[current])
<1>1. status = "running" /\ pc[current] = "user" /\ calls[current] # <<>>
      /\ Head(calls[current]).at = label
  BY DEF QuickAt, At
<1>2. current \in Live /\ current \in Thread
  BY <1>1, LiveFinite DEF SortInv, ThreadsInv, Scheduled
<1>3. /\ calls[current] \in Seq(Frame) /\ args[current] \in Span
      /\ StackOK(args[current], calls[current])
  BY <1>2 DEF SortInv, SortData, SortTypes
<1>4. ~joined
  BY <1>1, <1>2 DEF SortInv, SortData, Phases
<1> QED BY <1>1, <1>2, <1>3, <1>4, HeadOnTail DEF StackOK

(* Its parts. *)
LEMMA TopParts ==
  ASSUME SortInv, NEW label, QuickAt(label)
  PROVE  LET X == Rest(calls, args, Live, current)
             n == Len(calls[current])
         IN /\ Todo = X \cup Layer(current, n, Ranges(args[current], Head(calls[current])))
            /\ \A S : <<current, n, S>> \notin X
<1>1. \A u \in Live : calls[u] \in Seq(Frame)
  BY LiveFinite DEF SortInv, SortData, SortTypes
<1> QED BY <1>1, TopCall, WorkTop DEF Todo

(* While a thread is in quick(), sort() has not returned. *)
LEMMA PhasesKept ==
  ASSUME SortInv, NEW label, QuickAt(label), joined' = joined,
         \A t \in Live' : \/ pc'[t] = "user"
                          \/ t \in Live /\ pc'[t] = pc[t] /\ (t = current \/ calls'[t] = calls[t])
  PROVE  Phases'
<1>1. ~joined /\ pc[current] = "user"
  BY TopCall
<1> QED BY <1>1 DEF SortInv, SortData, Phases

(* The parts of one call, for up to two ranges. *)
LEMMA Layers ==
  ASSUME NEW t, NEW n
  PROVE  /\ Layer(t, n, {}) = {}
         /\ \A A : Layer(t, n, {A}) = {<<t, n, A>>}
         /\ \A A, B : Layer(t, n, {A, B}) = {<<t, n, A>>, <<t, n, B>>}
BY DEF Layer

(* quick() up to the first test of the cutoff: the array is partitioned. *)
LEMMA QuickPartitions ==
  ASSUME SortInv, quick, args[current].start < args[current].end
  PROVE  SortData'
<1> DEFINE c == current
           s == Tail(calls[c])
           n == Len(calls[c])
           f == args[c].start
           l == args[c].end
           X == Rest(calls, args, Live, c)
           p == partition(nums, f, l, l)
           m == p.pos
           fr == [at |-> "left", pos |-> m, end |-> l]
<1>1. QuickAt("quick")
  BY DEF quick
<1>2. /\ c \in Live /\ c \in Thread /\ ~joined
      /\ calls[c] \in Seq(Frame) /\ calls[c] # <<>>
      /\ Head(calls[c]) \in Frame /\ Head(calls[c]).at = "quick"
      /\ s \in Seq(Frame) /\ Suspended(s)
      /\ args[c] \in Span /\ StackOK(args[c], calls[c])
  BY <1>1, TopCall
<1>3. SortData /\ SortTypes /\ Live \subseteq Thread
  BY LiveFinite DEF SortInv, SortData
<1>4. /\ nums' = p.nums
      /\ args' = [args EXCEPT ![c].end = m - 1]
      /\ calls' = [calls EXCEPT ![c] = <<fr>> \o s]
      /\ UNCHANGED threadVars /\ UNCHANGED <<given, joined, refused>>
  BY <1>3 DEF quick, SortTypes
<1>5. Live' = Live /\ pc' = pc
  BY <1>4 DEF threadVars, Live
<1>6. /\ Todo = X \cup {<<c, n, f .. l>>} /\ <<c, n, f .. l>> \notin X
  <2>1. Todo = X \cup Layer(c, n, Ranges(args[c], Head(calls[c])))
        /\ <<c, n, f .. l>> \notin X
    BY <1>1, TopParts
  <2>2. Ranges(args[c], Head(calls[c])) = {f .. l}
    BY <1>2, RangesAt
  <2>3. Layer(c, n, {f .. l}) = {<<c, n, f .. l>>}
    BY DEF Layer
  <2> HIDE DEF X, n, f, l
  <2> QED BY ONLY <2>1, <2>2, <2>3, Zenon
<1>7. InArray(Todo) /\ Apart(Todo) /\ (~refused => Ordered(nums, Todo))
  BY <1>3 DEF SortData
<1>8. f \in Int /\ l \in Int /\ f < l
  BY <1>2 DEF Span
<1>9. f \in Index /\ l \in Index
  <2>1. <<c, n, f .. l>> \in Todo
    BY <1>6
  <2> DEFINE w == <<c, n, f .. l>>
  <2>2. w[3] \subseteq Index
    BY <1>7, <2>1 DEF InArray
  <2> QED BY <1>8, <2>2
<1> HIDE DEF X, n, f, l
<1>10. /\ p.nums \in Array /\ Rearranges(nums, p.nums, f .. l)
       /\ m \in f .. l
       /\ \A i \in f .. m - 1 : p.nums[i] <= p.nums[m]
       /\ \A i \in m + 1 .. l : p.nums[m] <= p.nums[i]
  BY <1>3, <1>8, <1>9, PartitionSplits DEF SortTypes
<1> HIDE DEF p, m
<1>11. m \in Int /\ fr \in Frame /\ fr.at = "left" /\ fr.pos = m /\ fr.end = l
  BY <1>8, <1>10 DEF Frame
<1>12. /\ args' \in [Thread -> Span] /\ args'[c].start = f /\ args'[c].end = m - 1
       /\ \A u \in Thread \ {c} : args'[u] = args[u]
  <2>1. args \in [Thread -> Span] /\ args' = [args EXCEPT ![c] = [args[c] EXCEPT !.end = m - 1]]
    BY <1>3, <1>4 DEF SortTypes
  <2> DEFINE r == [args[c] EXCEPT !.end = m - 1]
  <2>2. r \in Span /\ r.start = f /\ r.end = m - 1
    BY <1>2, <1>11 DEF Span, f
  <2> HIDE DEF r
  <2>3. args' = [args EXCEPT ![c] = r]
    BY <2>1 DEF r
  <2> QED BY <1>2, <2>1, <2>2, <2>3
<1>13. <<fr>> \o s \in Seq(Frame) /\ Head(<<fr>> \o s) = fr /\ Tail(<<fr>> \o s) = s
  <2> HIDE DEF fr, s
  <2> QED BY <1>2, <1>11, PartsPush, HeadTailPush
<1>14. /\ calls' \in [Thread -> Seq(Frame)] /\ calls'[c] = <<fr>> \o s
       /\ \A u \in Thread \ {c} : calls'[u] = calls[u]
  <2> DEFINE g == <<fr>> \o s
  <2>1. g \in Seq(Frame)
    BY <1>13
  <2> HIDE DEF g
  <2>2. calls' = [calls EXCEPT ![c] = g]
    BY <1>4 DEF g
  <2>3. calls' \in [Thread -> Seq(Frame)] /\ calls'[c] = g
        /\ \A u \in Thread \ {c} : calls'[u] = calls[u]
    BY <1>2, <1>3, <2>1, <2>2 DEF SortTypes
  <2> QED BY <2>3 DEF g
<1>15. Todo' = X \cup {<<c, n, f .. m - 1>>, <<c, n, m + 1 .. l>>}
  <2>1. \A u \in Live : calls[u] \in Seq(Frame)
    BY <1>3 DEF SortTypes
  <2>2. \A u \in Live \ {c} : calls'[u] = calls[u] /\ args'[u] = args[u]
    BY <1>3, <1>12, <1>14
  <2>3. calls'[c] = <<fr>> \o Tail(calls[c]) /\ fr \in Frame
    BY <1>11, <1>14
  <2> HIDE DEF fr
  <2>4. Work(calls', args', Live) = Rest(calls, args, Live, c)
          \cup Layer(c, Len(calls[c]), Ranges(args'[c], fr))
    <3> HIDE DEF c
    <3>1. c \in Live /\ calls[c] # <<>> /\ StackOK(args[c], calls[c])
      BY <1>2
    <3> QED BY <2>1, <2>2, <2>3, <3>1, WorkChanged
  <2>5. Ranges(args'[c], fr) = {f .. m - 1, m + 1 .. l}
    BY <1>11, <1>12, RangesAt
  <2>6. Layer(c, n, {f .. m - 1, m + 1 .. l}) = {<<c, n, f .. m - 1>>, <<c, n, m + 1 .. l>>}
    BY DEF Layer
  <2>7. Todo' = Work(calls', args', Live)
    BY <1>5, Zenon DEF Todo
  <2> QED BY ONLY <2>4, <2>5, <2>6, <2>7, Zenon DEF X, n
<1>16. /\ InArray(Todo') /\ Apart(Todo')
       /\ Ordered(nums, Todo) => Ordered(nums', Todo')
  <2>1. /\ nums \in Array /\ p.nums \in Array /\ f \in Index /\ l \in Index /\ m \in f .. l
        /\ <<c, n, f .. l>> \notin X
        /\ InArray(X \cup {<<c, n, f .. l>>}) /\ Apart(X \cup {<<c, n, f .. l>>})
    BY <1>3, <1>6, <1>7, <1>9, <1>10, Zenon DEF SortTypes
  <2> DEFINE b == p.nums
  <2> HIDE DEF c, b
  <2>2. /\ InArray(X \cup {<<c, n, f .. m - 1>>, <<c, n, m + 1 .. l>>})
        /\ Apart(X \cup {<<c, n, f .. m - 1>>, <<c, n, m + 1 .. l>>})
        /\ Ordered(nums, X \cup {<<c, n, f .. l>>}) =>
             Ordered(b, X \cup {<<c, n, f .. m - 1>>, <<c, n, m + 1 .. l>>})
    <3>1. /\ Rearranges(nums, b, f .. l) /\ b \in Array
          /\ \A i \in f .. m - 1 : b[i] <= b[m]
          /\ \A i \in m + 1 .. l : b[m] <= b[i]
      BY <1>10, <2>1 DEF b
    <3> QED BY <2>1, <3>1, Parted
  <2> QED BY <1>4, <1>6, <1>15, <2>2, Zenon DEF b
<1>17. \A v \in Value : Occurrences(nums', v) = Occurrences(given', v)
  <2>1. \A v \in Value : Occurrences(nums, v) = Occurrences(given, v)
    BY <1>3 DEF SortData
  <2>2. \A v \in Value : Occurrences(p.nums, v) = Occurrences(nums, v)
    BY <1>10 DEF Rearranges
  <2> QED BY <1>4, <2>1, <2>2, Zenon
<1>18. \A t \in Live' : StackOK(args'[t], calls'[t])
  <2> SUFFICES ASSUME NEW t \in Live PROVE StackOK(args'[t], calls'[t])
    BY <1>5
  <2>1. CASE t = c
    <3>1. StackOK(args'[c], <<fr>> \o s)
      BY <1>2, <1>11, <1>12, <1>13 DEF StackOK
    <3> QED BY <1>14, <2>1, <3>1
  <2>2. CASE t # c
    <3>1. args'[t] = args[t] /\ calls'[t] = calls[t] /\ StackOK(args[t], calls[t])
      BY <1>3, <1>12, <1>14, <2>2 DEF SortData
    <3> QED BY <3>1
  <2> QED BY <2>1, <2>2
<1>19. Phases'
  <2>1. \A t \in Live' : pc'[t] = pc[t] /\ t \in Live /\ (t = current \/ calls'[t] = calls[t])
    BY <1>3, <1>5, <1>14
  <2> QED BY <1>1, <1>4, <2>1, PhasesKept
<1>20. SortTypes'
  BY <1>3, <1>4, <1>10, <1>12, <1>14 DEF SortTypes
<1>21. ~refused' => Ordered(nums', Todo')
  BY <1>4, <1>7, <1>16
<1> QED BY <1>16, <1>17, <1>18, <1>19, <1>20, <1>21 DEF SortData

(* GoOn(label) puts the innermost call back on the stack, at label. *)
LEMMA GoOnIs ==
  ASSUME SortInv, NEW l0, QuickAt(l0), NEW label \in {"right", "return"}
  PROVE  \E f \in Frame :
           /\ f.at = label
           /\ f.pos = Head(calls[current]).pos /\ f.end = Head(calls[current]).end
           /\ GoOn(label) = <<f>> \o Tail(calls[current])
           /\ GoOn(label) \in Seq(Frame) /\ GoOn(label) # <<>>
           /\ Tail(GoOn(label)) = Tail(calls[current]) /\ Head(GoOn(label)) = f
           /\ Suspended(GoOn(label))
           /\ \A r : StackOK(r, GoOn(label))
<1> DEFINE h == Head(calls[current])
           s == Tail(calls[current])
           f == [h EXCEPT !.at = label]
<1>1. h \in Frame /\ s \in Seq(Frame) /\ Suspended(s)
  BY TopCall
<1>2. f \in Frame /\ f.at = label /\ f.pos = h.pos /\ f.end = h.end
  BY <1>1 DEF Frame
<1> HIDE DEF h, s, f
<1>3. /\ <<f>> \o s \in Seq(Frame) /\ <<f>> \o s # <<>>
      /\ Head(<<f>> \o s) = f /\ Tail(<<f>> \o s) = s
      /\ Suspended(<<f>> \o s)
  BY <1>1, <1>2, PartsPush, HeadTailPush, SuspendedPush
<1>4. GoOn(label) = <<f>> \o s
  BY DEF GoOn, f, h, s
<1> DEFINE g == GoOn(label)
<1>5. /\ g \in Seq(Frame) /\ g # <<>> /\ Head(g) = f /\ Tail(g) = s /\ Suspended(g)
  BY ONLY <1>3, <1>4, Zenon
<1> HIDE DEF g
<1>6. \A r : StackOK(r, g)
  BY <1>1, <1>2, <1>5 DEF StackOK
<1> QED BY <1>2, <1>4, <1>5, <1>6 DEF g, s, h

(* A step of quick() that stays in its thread, up to what becomes of the   *)
(* parts and the array.                                                    *)
LEMMA StacksKept ==
  ASSUME SortInv, NEW label, QuickAt(label),
         NEW g \in Seq(Frame), NEW r \in Span, StackOK(r, g),
         calls' = [calls EXCEPT ![current] = g], args' = [args EXCEPT ![current] = r],
         Live' = Live, pc' = pc, joined' = joined
  PROVE  /\ args' \in [Thread -> Span] /\ calls' \in [Thread -> Seq(Frame)]
         /\ calls'[current] = g /\ args'[current] = r
         /\ \A u \in Live \ {current} : calls'[u] = calls[u] /\ args'[u] = args[u]
         /\ \A t \in Live' : StackOK(args'[t], calls'[t])
         /\ Phases'
<1>1. /\ current \in Thread /\ Live \subseteq Thread
      /\ args \in [Thread -> Span] /\ calls \in [Thread -> Seq(Frame)]
      /\ \A t \in Live : StackOK(args[t], calls[t])
  BY TopCall, LiveFinite DEF SortInv, SortData, SortTypes
<1>2. /\ args' \in [Thread -> Span] /\ calls' \in [Thread -> Seq(Frame)]
      /\ calls'[current] = g /\ args'[current] = r
      /\ \A u \in Thread \ {current} : calls'[u] = calls[u] /\ args'[u] = args[u]
  BY <1>1
<1>3. \A t \in Live' : StackOK(args'[t], calls'[t])
  <2> SUFFICES ASSUME NEW t \in Live PROVE StackOK(args'[t], calls'[t])
    OBVIOUS
  <2>1. CASE t = current
    BY <1>2, <2>1
  <2>2. CASE t # current
    <3>1. args'[t] = args[t] /\ calls'[t] = calls[t] /\ StackOK(args[t], calls[t])
      BY <1>1, <1>2, <2>2
    <3> QED BY <3>1
  <2> QED BY <2>1, <2>2
<1>4. \A t \in Live' : t \in Live /\ pc'[t] = pc[t] /\ (t = current \/ calls'[t] = calls[t])
  BY <1>1, <1>2
<1>5. Phases'
  BY <1>4, PhasesKept
<1> QED BY <1>1, <1>2, <1>3, <1>5

(* quick() of at most one element. *)
LEMMA QuickStops ==
  ASSUME SortInv, quick, ~(args[current].start < args[current].end)
  PROVE  SortData'
<1> DEFINE c == current
           n == Len(calls[c])
           A == args[c].start .. args[c].end
           p == <<c, n, A>>
           X == Rest(calls, args, Live, c)
           g == GoOn("return")
<1>1. QuickAt("quick")
  BY DEF quick
<1>2. /\ c \in Live /\ c \in Thread
      /\ calls[c] # <<>> /\ Head(calls[c]).at = "quick"
      /\ args[c] \in Span /\ StackOK(args[c], calls[c])
  BY <1>1, TopCall
<1>3. SortData /\ SortTypes
  BY DEF SortInv, SortData
<1>4. /\ calls' = [calls EXCEPT ![c] = g]
      /\ UNCHANGED threadVars /\ UNCHANGED <<nums, args, given, joined, refused>>
  BY DEF quick
<1>5. Live' = Live /\ pc' = pc
  BY <1>4 DEF threadVars, Live
<1>6. PICK f \in Frame : /\ f.at = "return"
                         /\ g = <<f>> \o Tail(calls[c]) /\ g \in Seq(Frame)
                         /\ \A r : StackOK(r, g)
  BY <1>1, GoOnIs
<1> HIDE DEF g
<1>7. args' = [args EXCEPT ![c] = args[c]]
  BY <1>3, <1>4 DEF SortTypes
<1>8. /\ args' \in [Thread -> Span] /\ calls' \in [Thread -> Seq(Frame)]
      /\ calls'[c] = g /\ args'[c] = args[c]
      /\ \A u \in Live \ {c} : calls'[u] = calls[u] /\ args'[u] = args[u]
      /\ \A t \in Live' : StackOK(args'[t], calls'[t])
      /\ Phases'
  <2>1. StackOK(args[c], g) /\ joined' = joined
    BY <1>4, <1>6
  <2> QED BY <1>1, <1>2, <1>4, <1>5, <1>6, <1>7, <2>1, StacksKept
<1>9. Todo = X \cup {p}
  <2>1. Todo = X \cup Layer(c, n, Ranges(args[c], Head(calls[c])))
    BY <1>1, TopParts
  <2>2. Ranges(args[c], Head(calls[c])) = {A}
    BY <1>2, RangesAt
  <2> HIDE DEF A
  <2>3. Layer(c, n, {A}) = {p}
    BY DEF Layer
  <2> HIDE DEF X, n, p
  <2> QED BY ONLY <2>1, <2>2, <2>3, Zenon
<1>10. Todo' = X
  <2>1. Work(calls', args', Live) = X \cup Layer(c, n, Ranges(args'[c], f))
    <3>1. \A u \in Live : calls[u] \in Seq(Frame)
      BY <1>3, LiveFinite DEF SortTypes
    <3>2. calls'[c] = <<f>> \o Tail(calls[c])
      BY <1>6, <1>8
    <3>3. \A u \in Live \ {c} : calls'[u] = calls[u] /\ args'[u] = args[u]
      BY <1>8
    <3> HIDE DEF c
    <3>4. c \in Live /\ calls[c] # <<>> /\ StackOK(args[c], calls[c])
      BY <1>2
    <3> QED BY <3>1, <3>2, <3>3, <3>4, WorkChanged
  <2>2. Ranges(args'[c], f) = {}
    BY <1>6, RangesAt
  <2>3. Layer(c, n, {}) = {}
    BY Layers
  <2>4. Todo' = Work(calls', args', Live)
    BY <1>5, Zenon DEF Todo
  <2> HIDE DEF X, n
  <2>5. Work(calls', args', Live) = X \cup {}
    BY ONLY <2>1, <2>2, <2>3, Zenon
  <2> QED BY <2>4, <2>5
<1>11. InArray(Todo) /\ Apart(Todo) /\ (~refused => Ordered(nums, Todo))
  BY <1>3 DEF SortData
<1>12. \A i, j \in p[3] : i = j
  <2>1. p[3] = A
    OBVIOUS
  <2>2. \A i, j \in A : i = j
    BY <1>2 DEF Span
  <2> HIDE DEF A, p
  <2> QED BY <2>1, <2>2
<1> HIDE DEF X, p
<1>13. /\ InArray(Todo') /\ Apart(Todo')
       /\ ~refused' => Ordered(nums', Todo')
  <2>1. InArray(X) /\ Apart(X)
    BY <1>9, <1>11, Dropped
  <2>2. ~refused => Ordered(nums, X)
    BY <1>9, <1>11, <1>12, Finished
  <2> QED BY <1>4, <1>10, <2>1, <2>2, Zenon
<1>14. \A v \in Value : Occurrences(nums', v) = Occurrences(given', v)
  BY <1>3, <1>4, Zenon DEF SortData
<1> QED BY <1>3, <1>4, <1>8, <1>13, <1>14 DEF SortData, SortTypes

(* The return of quick(). *)
LEMMA ReturnSteps ==
  ASSUME SortInv, quick_return
  PROVE  SortData'
<1> DEFINE c == current
           n == Len(calls[c])
           X == Rest(calls, args, Live, c)
           s == Tail(calls[c])
<1>1. QuickAt("return")
  BY DEF quick_return
<1>2. /\ c \in Live /\ c \in Thread
      /\ calls[c] # <<>> /\ Head(calls[c]).at = "return"
      /\ s \in Seq(Frame) /\ Suspended(s)
      /\ args[c] \in Span /\ StackOK(args[c], calls[c])
  BY <1>1, TopCall
<1>3. SortData /\ SortTypes
  BY DEF SortInv, SortData
<1>4. /\ calls' = [calls EXCEPT ![c] = s]
      /\ UNCHANGED threadVars /\ UNCHANGED <<nums, args, given, joined, refused>>
  BY <1>3 DEF quick_return, arrayVars, SortTypes
<1>5. Live' = Live /\ pc' = pc
  BY <1>4 DEF threadVars, Live
<1>6. StackOK(args[c], s)
  <2> HIDE DEF s
  <2> QED BY <1>2, SuspendedTail DEF StackOK
<1>7. args' = [args EXCEPT ![c] = args[c]]
  BY <1>3, <1>4 DEF SortTypes
<1>8. /\ args' \in [Thread -> Span] /\ calls' \in [Thread -> Seq(Frame)]
      /\ calls'[c] = s
      /\ \A u \in Live \ {c} : calls'[u] = calls[u] /\ args'[u] = args[u]
      /\ \A t \in Live' : StackOK(args'[t], calls'[t])
      /\ Phases'
  <2>1. joined' = joined
    BY <1>4
  <2> HIDE DEF s
  <2> QED BY <1>1, <1>2, <1>4, <1>5, <1>6, <1>7, <2>1, StacksKept
<1>9. Todo = X
  <2>1. Todo = X \cup Layer(c, n, Ranges(args[c], Head(calls[c])))
    BY <1>1, TopParts
  <2>2. Ranges(args[c], Head(calls[c])) = {}
    BY <1>2, RangesAt
  <2>3. Layer(c, n, {}) = {}
    BY Layers
  <2> HIDE DEF X, n
  <2>4. Todo = X \cup {}
    BY ONLY <2>1, <2>2, <2>3, Zenon
  <2> QED BY <2>4
<1>10. Todo' = X
  <2>1. Work(calls', args', Live) = X
    <3>1. \A u \in Live : calls[u] \in Seq(Frame)
      BY <1>3, LiveFinite DEF SortTypes
    <3>2. calls'[c] = Tail(calls[c])
      BY <1>8
    <3>3. \A u \in Live \ {c} : calls'[u] = calls[u] /\ args'[u] = args[u]
      BY <1>8
    <3> HIDE DEF c
    <3>4. c \in Live /\ calls[c] # <<>> /\ StackOK(args[c], calls[c])
      BY <1>2
    <3> QED BY <3>1, <3>2, <3>3, <3>4, WorkChanged
  <2>4. Todo' = Work(calls', args', Live)
    BY <1>5, Zenon DEF Todo
  <2> HIDE DEF X
  <2> QED BY <2>1, <2>4
<1>11. InArray(Todo) /\ Apart(Todo) /\ (~refused => Ordered(nums, Todo))
  BY <1>3 DEF SortData
<1> HIDE DEF X
<1>13. /\ InArray(Todo') /\ Apart(Todo')
       /\ ~refused' => Ordered(nums', Todo')
  BY <1>4, <1>9, <1>10, <1>11, Zenon
<1>14. \A v \in Value : Occurrences(nums', v) = Occurrences(given', v)
  BY <1>3, <1>4, Zenon DEF SortData
<1> QED BY <1>3, <1>4, <1>8, <1>13, <1>14 DEF SortData, SortTypes

(* A call of quick() has one part, the range in args. *)
LEMMA EntryParts ==
  ASSUME NEW t, NEW r
  PROVE  /\ Entry \in Frame /\ Entry.at = "quick" /\ <<Entry>> \in Seq(Frame)
         /\ StackOK(r, <<Entry>>)
         /\ Parts(t, r, <<Entry>>) = {<<t, 1, r.start .. r.end>>}
<1>1. Entry \in Frame /\ Entry.at = "quick"
  BY DEF Entry, Frame
<1> DEFINE e == Entry
<1> HIDE DEF e
<1>2. /\ e \in Frame /\ e.at = "quick" /\ <<e>> \in Seq(Frame) /\ <<>> \in Seq(Frame)
      /\ Len(<<e>>) = 1 /\ Head(<<e>>) = e
  BY <1>1, EmptySeq DEF e
<1>3. <<e>> \o <<>> = <<e>> /\ Len(<<>>) = 0
  BY <1>2, ConcatEmptySeq, EmptySeq
<1>4. StackOK(r, <<e>>)
  <2>1. Tail(<<e>> \o <<>>) = <<>>
    BY <1>2, HeadTailPush
  <2>2. Suspended(<<>>)
    BY DEF Suspended
  <2>3. Suspended(Tail(<<e>>))
    BY ONLY <1>3, <2>1, <2>2, Zenon
  <2> QED BY <1>2, <2>3 DEF StackOK
<1> DEFINE A == r.start .. r.end
<1>5. Ranges(r, e) = {A}
  BY <1>2, RangesAt
<1> HIDE DEF A
<1>6. Parts(t, r, <<e>> \o <<>>) = Layer(t, Len(<<>>) + 1, Ranges(r, e)) \cup Parts(t, r, <<>>)
  <2> DEFINE s == <<>>
  <2>1. s \in Seq(Frame)
    BY <1>2
  <2> HIDE DEF s
  <2>2. Parts(t, r, <<e>> \o s) = Layer(t, Len(s) + 1, Ranges(r, e)) \cup Parts(t, r, s)
    BY <1>2, <2>1, PartsPush
  <2> QED BY <2>2, Zenon DEF s
<1>7. Parts(t, r, <<>>) = {} /\ 0 + 1 = 1
  BY NoParts
<1>8. Parts(t, r, <<e>>) = Layer(t, 1, {A}) \cup {}
  <2>1. Parts(t, r, <<e>>) = Layer(t, 0 + 1, {A}) \cup {}
    BY ONLY <1>3, <1>5, <1>6, <1>7, Zenon
  <2> QED BY <2>1
<1>9. Parts(t, r, <<e>>) = {<<t, 1, A>>}
  BY <1>8 DEF Layer
<1> QED BY <1>2, <1>4, <1>9 DEF e, A

(* The range A is among those of the innermost call; when it goes on at    *)
(* label it has the others, R.                                             *)
GivesAway(range, label, A, R) ==
  /\ A = range.start .. range.end /\ (A \in R => A = {})
  /\ Ranges(args[current], Head(calls[current])) = R \cup {A}
  /\ \A f \in Frame : /\ f.at = label
                      /\ f.pos = Head(calls[current]).pos /\ f.end = Head(calls[current]).end
                      => \A r : Ranges(r, f) = R

(* A range goes to a new thread, to a call, or to nobody. *)
LEMMA DelegateSteps ==
  ASSUME SortInv, NEW l0, QuickAt(l0), NEW range \in Span, NEW label \in {"right", "return"},
         NEW A, NEW R, GivesAway(range, label, A, R),
         Delegate(range, label), UNCHANGED <<arrayVars, joined>>
  PROVE  SortData'
<1> USE DEF GivesAway
<1> DEFINE c == current
           n == Len(calls[c])
           X == Rest(calls, args, Live, c) \cup Layer(c, n, R)
           g == GoOn(label)
           p == <<c, n, A>>
<1>1. /\ c \in Live /\ c \in Thread /\ calls[c] # <<>> /\ StackOK(args[c], calls[c])
      /\ pc[c] = "user"
  BY TopCall
<1>2. /\ SortData /\ SortTypes /\ Live \subseteq Thread /\ ThreadsInv
      /\ pc \in [Thread -> Label]
  BY LiveFinite DEF SortInv, SortData, ThreadsInv, FieldsOK
<1>3. /\ InArray(Todo) /\ Apart(Todo) /\ (~refused => Ordered(nums, Todo))
      /\ \A v \in Value : Occurrences(nums, v) = Occurrences(given, v)
      /\ args \in [Thread -> Span] /\ calls \in [Thread -> Seq(Frame)]
      /\ \A u \in Live : calls[u] \in Seq(Frame) /\ StackOK(args[u], calls[u])
  BY <1>2 DEF SortData, SortTypes
<1>4. nums' = nums /\ given' = given /\ joined' = joined
  BY DEF arrayVars
<1>5. PICK f \in Frame :
        /\ f.at = label
        /\ f.pos = Head(calls[c]).pos /\ f.end = Head(calls[c]).end
        /\ g = <<f>> \o Tail(calls[c])
        /\ g \in Seq(Frame) /\ Suspended(g)
        /\ \A r : StackOK(r, g)
  BY GoOnIs
<1> HIDE DEF g
<1>6. \A r : Ranges(r, f) = R
  BY <1>5
<1>7. Todo = X \cup {p} /\ (p \notin X \/ p[3] = {})
  <2> DEFINE Y == Rest(calls, args, Live, c)
  <2>1. /\ Todo = Y \cup Layer(c, n, Ranges(args[c], Head(calls[c])))
        /\ p \notin Y
    BY TopParts
  <2>2. Ranges(args[c], Head(calls[c])) = R \cup {A}
    OBVIOUS
  <2> HIDE DEF Y, n, c
  <2>3. Layer(c, n, R \cup {A}) = Layer(c, n, R) \cup {p}
    BY DEF Layer
  <2>4. p \in Layer(c, n, R) => A \in R
    BY DEF Layer
  <2>5. p[3] = A
    OBVIOUS
  <2> HIDE DEF p
  <2>6. Todo = Y \cup (Layer(c, n, R) \cup {p})
    BY ONLY <2>1, <2>2, <2>3, Zenon
  <2>7. X = Y \cup Layer(c, n, R)
    BY DEF Y, X
  <2> HIDE DEF X
  <2>8. Todo = X \cup {p}
    BY <2>6, <2>7
  <2> QED BY <2>1, <2>4, <2>5, <2>7, <2>8
(* The parts without those of a new thread. *)
<1>8. ASSUME calls'[c] = <<f>> \o Tail(calls[c]),
             \A u \in Live \ {c} : calls'[u] = calls[u] /\ args'[u] = args[u]
      PROVE  Work(calls', args', Live) = X
  <2>1. \A u \in Live : calls[u] \in Seq(Frame)
    BY <1>3
  <2>2. c \in Live /\ calls[c] # <<>> /\ StackOK(args[c], calls[c]) /\ f \in Frame
    BY <1>1
  <2>5. \A u \in Live \ {c} : calls'[u] = calls[u] /\ args'[u] = args[u]
    BY <1>8
  <2>6. calls'[c] = <<f>> \o Tail(calls[c])
    BY <1>8
  <2> HIDE DEF c
  <2>3. Work(calls', args', Live) =
          Rest(calls, args, Live, c) \cup Layer(c, Len(calls[c]), Ranges(args'[c], f))
    BY ONLY <2>1, <2>2, <2>5, <2>6, WorkChanged
  <2>4. Ranges(args'[c], f) = R
    BY <1>6
  <2> QED BY ONLY <2>3, <2>4, Zenon DEF X, n
<1>9. \A v \in Value : Occurrences(nums', v) = Occurrences(given', v)
  BY <1>3, <1>4, Zenon
<1>10. range.end - range.start \in Int
  BY DEF Span
<1>11. ASSUME NEW t \in Thread, thread_new(t),
              args' = [args EXCEPT ![c] = range, ![t] = range],
              calls' = [calls EXCEPT ![c] = g, ![t] = <<Entry>>], refused' = refused
       PROVE  SortData'
  <2> DEFINE r == <<t, 1, A>>
  <2>1. t \notin Live /\ Live' = Live \cup {t} /\ t # c /\ pc' = [pc EXCEPT ![t] = "user"]
    BY <1>1, <1>2, <1>11, NewLive DEF thread_new
  <2>2. <<Entry>> \in Seq(Frame) /\ StackOK(range, <<Entry>>)
        /\ Parts(t, range, <<Entry>>) = {r}
    BY EntryParts
  <2> DEFINE e == <<Entry>>
  <2> HIDE DEF e, r
  <2>3. /\ args' \in [Thread -> Span] /\ calls' \in [Thread -> Seq(Frame)]
        /\ args'[c] = range /\ args'[t] = range /\ calls'[c] = g /\ calls'[t] = e
        /\ \A u \in Thread \ {c, t} : args'[u] = args[u] /\ calls'[u] = calls[u]
    <3>1. e \in Seq(Frame) /\ calls' = [calls EXCEPT ![c] = g, ![t] = e]
      BY <1>11, <2>2 DEF e
    <3> HIDE DEF c
    <3>2. /\ args' \in [Thread -> Span] /\ args'[c] = range /\ args'[t] = range
          /\ \A u \in Thread \ {c, t} : args'[u] = args[u]
      BY <1>1, <1>3, <1>11, <2>1
    <3>3. /\ calls' \in [Thread -> Seq(Frame)] /\ calls'[c] = g /\ calls'[t] = e
          /\ \A u \in Thread \ {c, t} : calls'[u] = calls[u]
      BY <1>1, <1>3, <1>5, <2>1, <3>1
    <3> QED BY <3>2, <3>3
  <2>4. \A u \in Live \ {c} : calls'[u] = calls[u] /\ args'[u] = args[u]
    BY <1>2, <2>1, <2>3
  <2>5. Work(calls', args', Live) = X
    <3>1. calls'[c] = <<f>> \o Tail(calls[c])
      BY <1>5, <2>3
    <3> QED BY <1>8, <2>4, <3>1
  <2>6. Todo' = X \cup {r}
    <3> DEFINE M == Live \cup {t}
    <3>1. t \in M /\ M \ {t} = Live
      BY <2>1
    <3>2. Todo' = Work(calls', args', M)
      BY <2>1, Zenon DEF Todo
    <3> HIDE DEF M
    <3>3. Work(calls', args', M) = Work(calls', args', M \ {t}) \cup Parts(t, args'[t], calls'[t])
      BY <3>1, WorkOf
    <3>4. Parts(t, args'[t], calls'[t]) = {r}
      BY ONLY <2>2, <2>3, Zenon DEF e
    <3> HIDE DEF X
    <3> QED BY ONLY <2>5, <3>1, <3>2, <3>3, <3>4, Zenon
  <2>7. /\ InArray(Todo') /\ Apart(Todo')
        /\ ~refused' => Ordered(nums', Todo')
    <3>1. r[3] = p[3]
      BY DEF r
    <3> HIDE DEF X, p
    <3>2. /\ InArray(X \cup {r}) /\ Apart(X \cup {r})
          /\ \A ns : Ordered(ns, X \cup {p}) => Ordered(ns, X \cup {r})
      <4>1. InArray(X \cup {p}) /\ Apart(X \cup {p})
        BY ONLY <1>3, <1>7, Zenon
      <4> QED BY <1>7, <3>1, <4>1, Handed
    <3>3. ~refused => Ordered(nums, X \cup {p})
      BY ONLY <1>3, <1>7, Zenon
    <3> QED BY ONLY <1>4, <1>11, <2>6, <3>2, <3>3, Zenon
  <2>8. \A u \in Live' : StackOK(args'[u], calls'[u])
    <3> SUFFICES ASSUME NEW u \in Live \cup {t} PROVE StackOK(args'[u], calls'[u])
      BY <2>1
    <3>1. CASE u = c
      BY <1>5, <2>3, <3>1
    <3>2. CASE u = t
      BY <2>2, <2>3, <3>2 DEF e
    <3>3. CASE u # c /\ u # t
      <4>1. args'[u] = args[u] /\ calls'[u] = calls[u] /\ StackOK(args[u], calls[u])
        BY <1>3, <2>4, <3>3
      <4> QED BY <4>1
    <3> QED BY <3>1, <3>2, <3>3
  <2>9. Phases'
    <3>1. \A u \in Live' :
            \/ pc'[u] = "user"
            \/ u \in Live /\ pc'[u] = pc[u] /\ (u = c \/ calls'[u] = calls[u])
      <4> HIDE DEF c
      <4>1. t \in Thread /\ pc' = [pc EXCEPT ![t] = "user"] /\ t \notin Live
        BY <2>1
      <4>2. pc'[t] = "user" /\ \A u \in Live : pc'[u] = pc[u]
        BY ONLY <1>2, <4>1
      <4>3. Live' = Live \cup {t}
        BY <2>1
      <4> QED BY ONLY <2>4, <4>2, <4>3
    <3> QED BY <1>4, <3>1, PhasesKept
  <2> QED BY <1>2, <1>4, <1>9, <2>3, <2>7, <2>8, <2>9 DEF SortData, SortTypes
(* What the other two cases have in common. *)
<1>12. ASSUME NEW h \in Seq(Frame), StackOK(range, h),
              args' = [args EXCEPT ![c] = range], calls' = [calls EXCEPT ![c] = h],
              Live' = Live, pc' = pc
       PROVE  /\ args' \in [Thread -> Span] /\ calls' \in [Thread -> Seq(Frame)]
              /\ calls'[c] = h /\ args'[c] = range
              /\ \A u \in Live \ {c} : calls'[u] = calls[u] /\ args'[u] = args[u]
              /\ \A u \in Live' : StackOK(args'[u], calls'[u])
              /\ Phases' /\ Todo' = Work(calls', args', Live)
  <2>1. Todo' = Work(calls', args', Live)
    BY <1>12, Zenon DEF Todo
  <2> QED BY <1>4, <1>12, <2>1, StacksKept
<1>13. ASSUME thread_new_fails, args' = [args EXCEPT ![c] = range],
              calls' = [calls EXCEPT ![c] = g], refused' = TRUE
       PROVE  SortData'
  <2>1. Live' = Live /\ pc' = pc
    BY <1>2, <1>13, NewFailsLive DEF thread_new_fails
  <2>2. g \in Seq(Frame) /\ StackOK(range, g)
    BY <1>5
  <2>3. /\ args' \in [Thread -> Span] /\ calls' \in [Thread -> Seq(Frame)]
        /\ calls'[c] = g
        /\ \A u \in Live \ {c} : calls'[u] = calls[u] /\ args'[u] = args[u]
        /\ \A u \in Live' : StackOK(args'[u], calls'[u])
        /\ Phases' /\ Todo' = Work(calls', args', Live)
    BY <1>12, <1>13, <2>1, <2>2
  <2>4. Todo' = X
    <3>1. calls'[c] = <<f>> \o Tail(calls[c])
      BY <1>5, <2>3
    <3>2. Work(calls', args', Live) = X
      BY <1>8, <2>3, <3>1
    <3> QED BY ONLY <2>3, <3>2, Zenon
  <2>5. InArray(Todo') /\ Apart(Todo')
    <3> HIDE DEF X, p
    <3>1. InArray(X) /\ Apart(X)
      BY <1>3, <1>7, Dropped
    <3> QED BY ONLY <2>4, <3>1, Zenon
  <2> QED BY <1>2, <1>4, <1>9, <1>13, <2>3, <2>5 DEF SortData, SortTypes
<1>14. ASSUME args' = [args EXCEPT ![c] = range],
              calls' = [calls EXCEPT ![c] = <<Entry>> \o g],
              UNCHANGED <<threadVars, refused>>
       PROVE  SortData'
  <2> DEFINE r == <<c, n + 1, A>>
             h == <<Entry>> \o g
  <2>1. Live' = Live /\ pc' = pc /\ refused' = refused
    BY <1>14 DEF threadVars, Live
  <2>2. Entry \in Frame /\ Entry.at = "quick"
    BY EntryParts
  <2>3. h \in Seq(Frame) /\ StackOK(range, h)
    <3> DEFINE e == Entry
    <3> HIDE DEF e
    <3>1. e \in Frame /\ e.at = "quick"
      BY <2>2 DEF e
    <3>2. <<e>> \o g \in Seq(Frame) /\ Head(<<e>> \o g) = e /\ Tail(<<e>> \o g) = g
      BY <1>5, <3>1, PartsPush, HeadTailPush
    <3>3. StackOK(range, <<e>> \o g)
      BY <1>5, <3>1, <3>2 DEF StackOK
    <3> QED BY <3>2, <3>3 DEF e
  <2> HIDE DEF h
  <2>4. /\ args' \in [Thread -> Span] /\ calls' \in [Thread -> Seq(Frame)]
        /\ calls'[c] = h /\ args'[c] = range
        /\ \A u \in Live \ {c} : calls'[u] = calls[u] /\ args'[u] = args[u]
        /\ \A u \in Live' : StackOK(args'[u], calls'[u])
        /\ Phases' /\ Todo' = Work(calls', args', Live)
    <3>1. calls' = [calls EXCEPT ![c] = h]
      BY <1>14 DEF h
    <3> QED BY <1>12, <1>14, <2>1, <2>3, <3>1
  <2>5. Todo' = X \cup {r}
    <3>1. \A u \in Live : calls[u] \in Seq(Frame)
      BY <1>3
    <3>2. c \in Live /\ calls[c] # <<>> /\ StackOK(args[c], calls[c])
      BY <1>1
    <3>3. \A u \in Live \ {c} : calls'[u] = calls[u] /\ args'[u] = args[u]
      BY <2>4
    <3>4. calls'[c] = <<Entry>> \o (<<f>> \o Tail(calls[c]))
      BY ONLY <1>5, <2>4, Zenon DEF h
    <3> DEFINE e == Entry
    <3>5. e \in Frame /\ calls'[c] = <<e>> \o (<<f>> \o Tail(calls[c]))
      BY <2>2, <3>4
    <3>6. Ranges(args'[c], e) = {A}
      BY <2>2, <2>4, RangesAt
    <3>7. Ranges(args'[c], f) = R
      BY <1>6
    <3> HIDE DEF c, e
    <3>8. Work(calls', args', Live) =
            Rest(calls, args, Live, c) \cup Layer(c, Len(calls[c]), Ranges(args'[c], f))
                                       \cup Layer(c, Len(calls[c]) + 1, Ranges(args'[c], e))
      <4>1. e \in Frame /\ f \in Frame
        BY <3>5
      <4>2. TwoMore(calls, calls', c, e, f)
        BY ONLY <3>5, Zenon DEF TwoMore
      <4> QED BY ONLY <3>1, <3>2, <3>3, <4>1, <4>2, WorkChanged
    <3>9. Layer(c, n + 1, {A}) = {r}
      BY DEF Layer
    <3>10. Work(calls', args', Live) = X \cup {r}
      BY ONLY <3>6, <3>7, <3>8, <3>9, Zenon DEF X, n
    <3> QED BY ONLY <2>4, <3>10, Zenon
  <2>7. /\ InArray(Todo') /\ Apart(Todo')
        /\ ~refused' => Ordered(nums', Todo')
    <3>1. r[3] = p[3]
      OBVIOUS
    <3> HIDE DEF X, p, r
    <3>2. /\ InArray(X \cup {r}) /\ Apart(X \cup {r})
          /\ \A ns : Ordered(ns, X \cup {p}) => Ordered(ns, X \cup {r})
      <4>1. InArray(X \cup {p}) /\ Apart(X \cup {p})
        BY ONLY <1>3, <1>7, Zenon
      <4> QED BY <1>7, <3>1, <4>1, Handed
    <3>3. ~refused => Ordered(nums, X \cup {p})
      BY ONLY <1>3, <1>7, Zenon
    <3> QED BY ONLY <1>4, <2>1, <2>5, <3>2, <3>3, Zenon
  <2> QED BY <1>2, <1>4, <1>9, <2>4, <2>7 DEF SortData, SortTypes
<1> QED BY <1>11, <1>13, <1>14 DEF Delegate, g

(* quick() hands on the part in front of the pivot. *)
LEMMA LeftSteps ==
  ASSUME SortInv, quick_left
  PROVE  SortData'
<1> DEFINE h == Head(calls[current])
           r == args[current]
           A == r.start .. r.end
           B == h.pos + 1 .. h.end
<1>1. QuickAt("left") /\ Delegate(r, "right") /\ UNCHANGED <<arrayVars, joined>>
  BY DEF quick_left
<1>2. /\ r \in Span /\ h \in Frame /\ h.at = "left"
      /\ r.end = h.pos - 1
  BY <1>1, TopCall DEF StackOK
<1>3. Ranges(r, h) = {A, B}
  BY <1>2, RangesAt
<1>4. A \in {B} => A = {}
  BY <1>2 DEF Span, Frame
<1>5. \A f \in Frame : f.at = "right" /\ f.pos = h.pos /\ f.end = h.end =>
        \A x : Ranges(x, f) = {B}
  BY RangesAt
<1>6. A = r.start .. r.end
  OBVIOUS
<1> HIDE DEF A, B
<1>7. Ranges(r, h) = {B} \cup {A}
  BY <1>3
<1>8. GivesAway(r, "right", A, {B})
  BY ONLY <1>4, <1>5, <1>6, <1>7 DEF GivesAway, r, h
<1> HIDE DEF r, h
<1>9. "right" \in {"right", "return"}
  OBVIOUS
<1> QED BY ONLY SortInv, <1>1, <1>2, <1>8, <1>9, DelegateSteps

(* quick() hands on the part behind the pivot. *)
LEMMA RightSteps ==
  ASSUME SortInv, quick_right
  PROVE  SortData'
<1> DEFINE h == Head(calls[current])
           r == [start |-> h.pos + 1, end |-> h.end]
           A == r.start .. r.end
<1>1. QuickAt("right") /\ Delegate(r, "return") /\ UNCHANGED <<arrayVars, joined>>
  BY DEF quick_right
<1>2. /\ h \in Frame /\ h.at = "right"
      /\ r \in Span
  BY <1>1, TopCall DEF Frame, Span
<1>3. Ranges(args[current], h) = {A}
  BY <1>2, RangesAt
<1>4. A \in {} => A = {}
  OBVIOUS
<1>5. \A f \in Frame : f.at = "return" /\ f.pos = h.pos /\ f.end = h.end =>
        \A x : Ranges(x, f) = {}
  BY RangesAt
<1>6. A = r.start .. r.end
  OBVIOUS
<1> HIDE DEF A, r
<1>7. Ranges(args[current], h) = {} \cup {A}
  BY <1>3
<1>8. GivesAway(r, "return", A, {})
  BY ONLY <1>4, <1>5, <1>6, <1>7 DEF GivesAway, h
<1> HIDE DEF h
<1>9. "return" \in {"right", "return"}
  OBVIOUS
<1> QED BY ONLY SortInv, <1>1, <1>2, <1>8, <1>9, DelegateSteps

(* A step that leaves the array and the calls as they are. *)
LEMMA SameParts ==
  ASSUME SortInv, UNCHANGED <<arrayVars, callVars, refused>>, Live' \subseteq Live,
         Todo' = Todo, Phases'
  PROVE  SortData'
<1>1. SortData /\ SortTypes
  BY DEF SortInv, SortData
<1>2. nums' = nums /\ given' = given /\ args' = args /\ calls' = calls /\ refused' = refused
  BY DEF arrayVars, callVars
<1>3. SortTypes'
  BY <1>1, <1>2 DEF SortTypes
<1>4. \A t \in Live' : StackOK(args'[t], calls'[t])
  <2> SUFFICES ASSUME NEW t \in Live PROVE StackOK(args'[t], calls'[t])
    OBVIOUS
  <2>1. StackOK(args[t], calls[t])
    BY <1>1 DEF SortData
  <2> QED BY <1>2, <2>1, Zenon
<1>5. InArray(Todo) /\ Apart(Todo) /\ (~refused => Ordered(nums, Todo))
      /\ \A v \in Value : Occurrences(nums, v) = Occurrences(given, v)
  BY <1>1 DEF SortData
<1>6. InArray(Todo') /\ Apart(Todo')
  BY <1>5, Zenon
<1>7. ASSUME ~refused' PROVE Ordered(nums', Todo')
  <2>1. Ordered(nums, Todo)
    BY <1>2, <1>5, <1>7
  <2> QED BY <1>2, <2>1, Zenon
<1>8. \A v \in Value : Occurrences(nums', v) = Occurrences(given', v)
  BY <1>2, <1>5, Zenon
<1> QED BY <1>3, <1>4, <1>6, <1>7, <1>8 DEF SortData

(* The exit of a thread that has nothing to do. *)
LEMMA FinishSteps ==
  ASSUME SortInv, finish
  PROVE  SortData' /\ \E c \in Code : thread_exit(c)
<1>1. 0 \in Code /\ thread_exit(0) /\ calls[current] = <<>> /\ UNCHANGED sortVars
  BY SortAssumption DEF finish
<1>2. ThreadsInv /\ Phases
  BY DEF SortInv, SortData
<1>3. Live' = Live \ {current} /\ pc' = pc
  BY <1>1, <1>2, ExitLive DEF thread_exit
<1>4. calls' = calls /\ args' = args /\ joined' = joined
      /\ UNCHANGED <<arrayVars, callVars, refused>>
  BY <1>1 DEF sortVars, callVars
<1>5. current \in Live
  BY <1>1, <1>2 DEF thread_exit, At, ThreadsInv, Scheduled
<1>6. Todo' = Todo
  <2> DEFINE M == Live \ {current}
             c == current
  <2>1. Todo' = Work(calls, args, M)
    BY <1>3, <1>4, Zenon DEF Todo
  <2>2. Parts(c, args[c], calls[c]) = {}
    <3> HIDE DEF c
    <3>1. \A r : Parts(c, r, <<>>) = {}
      BY NoParts
    <3>2. calls[c] = <<>>
      BY <1>1 DEF c
    <3> QED BY ONLY <3>1, <3>2, Zenon
  <2>3. Todo = Work(calls, args, M) \cup Parts(c, args[c], calls[c])
    BY <1>5, WorkOf DEF Todo
  <2> HIDE DEF M, c
  <2>4. Todo = Work(calls, args, M) \cup {}
    BY ONLY <2>2, <2>3, Zenon
  <2> QED BY <2>1, <2>4
<1>7. Phases'
  BY <1>2, <1>3, <1>4 DEF Phases
<1> QED BY <1>1, <1>3, <1>4, <1>6, <1>7, SameParts

(* Root waits for all, or returns at once when it is alone. *)
LEMMA JoinSteps ==
  ASSUME SortInv, sort_join
  PROVE  SortData'
<1>1. /\ current = root /\ calls[root] = <<>> /\ ~joined
      /\ At("user") /\ joined' = (num_thrs = 1)
      /\ IF num_thrs > 1 THEN Block(join_list, "join_all") ELSE UNCHANGED threadVars
      /\ UNCHANGED <<arrayVars, callVars, refused>>
  BY DEF sort_join, thread_join_all
<1>2. ThreadsInv /\ Phases /\ pc \in [Thread -> Label]
  BY DEF SortInv, SortData, ThreadsInv, FieldsOK
<1>3. Live' = Live
  BY <1>1, BlockLive DEF threadVars, Live
<1>4. calls' = calls /\ args' = args
  BY <1>1 DEF callVars
<1>5. Todo' = Todo
  BY <1>3, <1>4, Zenon DEF Todo
<1>6. \A t \in Thread \ {root} : pc'[t] = pc[t]
  BY <1>1, <1>2 DEF Block, threadVars
<1>7. Phases'
  <2>1. num_thrs = Cardinality(Live) /\ root \in Live /\ num_thrs \in Nat
        /\ Live \subseteq Thread
    BY <1>1, <1>2, LiveFinite DEF ThreadsInv, Scheduled, At
  <2>2. CASE num_thrs > 1
    <3>1. pc'[root] = "join_all"
      BY <1>1, <1>2, <2>1, <2>2 DEF Block
    <3>2. num_thrs # 1
      BY <2>2
    <3>3. ~joined'
      BY ONLY <1>1, <3>2, Zenon
    <3> QED BY <1>1, <1>2, <1>3, <1>4, <1>6, <2>1, <3>1, <3>3 DEF Phases
  <2>3. CASE ~(num_thrs > 1)
    <3>1. pc' = pc /\ pc[root] = "user"
      BY <1>1, <2>3 DEF threadVars, At
    <3>2. num_thrs = 1 \/ ~joined'
      <4> SUFFICES ASSUME num_thrs # 1 PROVE ~joined'
        OBVIOUS
      <4> QED BY ONLY <1>1, num_thrs # 1, Zenon
    <3>3. num_thrs = 1 => Live = {root}
      <4>1. IsFiniteSet(Live)
        BY LiveFinite
      <4>2. num_thrs = 1 => \E t : Live = {t}
        BY ONLY <2>1, <4>1, FS_Singleton, Zenon
      <4> QED BY ONLY <2>1, <4>2
    <3> QED BY <1>1, <1>2, <1>3, <1>4, <1>6, <2>1, <3>1, <3>2, <3>3 DEF Phases
  <2> QED BY <2>2, <2>3
<1> QED BY <1>1, <1>3, <1>5, <1>7, SameParts

(* Root goes on when it is alone. *)
LEMMA JoinReturnSteps ==
  ASSUME SortInv, sort_join_return
  PROVE  SortData'
<1>1. /\ status = "running" /\ pc[current] = "join_all"
      /\ pc' = [pc EXCEPT ![current] = "user"] /\ joined' = TRUE
      /\ handle' = handle
      /\ UNCHANGED <<arrayVars, callVars, refused>>
  BY DEF sort_join_return, thread_join_all_return, At
<1>2. ThreadsInv /\ LastOne /\ Phases /\ pc \in [Thread -> Label]
  BY DEF SortInv, SortData, ThreadsInv, FieldsOK
<1>3. Live' = Live
  BY <1>1 DEF Live
<1>4. calls' = calls /\ args' = args
  BY <1>1 DEF callVars
<1>5. Todo' = Todo
  BY <1>3, <1>4, Zenon DEF Todo
<1>6. current \in Live /\ q.in_list[current] # join_list
  BY <1>1, <1>2, Names DEF ThreadsInv, Scheduled
<1>7. current = root /\ calls[root] = <<>> /\ Live = {root}
  BY <1>1, <1>2, <1>6 DEF Phases, LastOne
<1>8. Phases'
  BY <1>1, <1>2, <1>3, <1>4, <1>7, ThreadsAssumption DEF Phases
<1> QED BY <1>1, <1>3, <1>5, <1>8, SameParts

(* To the scheduler every step of the program is a step of its client. *)
LEMMA StepsOfScheduler ==
  ASSUME SortInv, [SortNext]_allVars
  PROVE  [ThreadsNext]_threadVars
<1>1. ASSUME NEW range, NEW label, Delegate(range, label) PROVE [ThreadsNext]_threadVars
  BY <1>1 DEF Delegate, ThreadsNext
<1>2. CASE quick \/ quick_return \/ UNCHANGED allVars
  BY <1>2 DEF quick, quick_return, allVars
<1>3. CASE quick_left \/ quick_right
  BY <1>1, <1>3 DEF quick_left, quick_right
<1>4. CASE finish
  BY <1>4, FinishSteps DEF ThreadsNext
<1>5. CASE sort_join \/ sort_join_return
  BY <1>5 DEF sort_join, sort_join_return, ThreadsNext
<1> QED BY <1>2, <1>3, <1>4, <1>5 DEF SortNext

(* Every step keeps the invariant. *)
LEMMA SortNextInv ==
  ASSUME SortInv, [SortNext]_allVars
  PROVE  SortInv'
<1>1. ThreadsInv /\ LastOne /\ [ThreadsNext]_threadVars
  BY StepsOfScheduler DEF SortInv
<1>2. ThreadsInv' /\ LastOne'
  BY <1>1, ThreadsNextInv, ThreadsStutterInv, LastOneStep
<1>3. SortData'
  <2>1. CASE quick
    BY <2>1, QuickPartitions, QuickStops
  <2>2. CASE quick_left
    BY <2>2, LeftSteps
  <2>3. CASE quick_right
    BY <2>3, RightSteps
  <2>4. CASE quick_return
    BY <2>4, ReturnSteps
  <2>5. CASE finish
    BY <2>5, FinishSteps
  <2>6. CASE sort_join
    BY <2>6, JoinSteps
  <2>7. CASE sort_join_return
    BY <2>7, JoinReturnSteps
  <2>8. CASE UNCHANGED allVars
    <3>1. UNCHANGED <<arrayVars, callVars, refused>> /\ joined' = joined
      BY <2>8 DEF allVars, sortVars
    <3>2. calls' = calls /\ args' = args /\ pc' = pc /\ Live' = Live
      BY <2>8, <3>1 DEF allVars, threadVars, callVars, Live
    <3>3. Todo' = Todo
      BY <3>2, Zenon DEF Todo
    <3>4. Phases'
      BY <3>1, <3>2 DEF SortInv, SortData, Phases
    <3> QED BY <3>1, <3>2, <3>3, <3>4, SameParts
  <2> QED BY <2>1, <2>2, <2>3, <2>4, <2>5, <2>6, <2>7, <2>8 DEF SortNext
<1> QED BY <1>2, <1>3 DEF SortInv

(* At first the only part is the array. *)
LEMMA SortInitInv == SortInit => SortInv
<1> SUFFICES ASSUME SortInit PROVE SortInv
  OBVIOUS
<1> DEFINE r == [start |-> 0, end |-> N - 1]
           p == <<root, 1, 0 .. N - 1>>
<1>1. /\ ThreadsInit /\ nums \in Array /\ given = nums
      /\ args = [t \in Thread |-> r]
      /\ calls = [t \in Thread |-> IF t = root THEN <<Entry>> ELSE <<>>]
      /\ joined = FALSE
  BY DEF SortInit, Array
<1>2. /\ ThreadsInv /\ root \in Thread
      /\ Live = {root} /\ pc = [t \in Thread |-> "user"]
  BY <1>1, ThreadsInitInv, Names DEF ThreadsInit, ThreadsStart, Live
<1>3. LastOne
  BY <1>2 DEF LastOne
<1>4. r \in Span /\ N \in Nat
  BY SortAssumption DEF Span
<1>5. <<Entry>> \in Seq(Frame) /\ StackOK(r, <<Entry>>) /\ Parts(root, r, <<Entry>>) = {p}
  BY EntryParts
<1> DEFINE e == <<Entry>>
<1>6. e \in Seq(Frame) /\ StackOK(r, e) /\ Parts(root, r, e) = {p}
      /\ calls = [t \in Thread |-> IF t = root THEN e ELSE <<>>]
  BY <1>1, <1>5
<1> HIDE DEF e, r, p
<1>7. SortTypes
  <2>1. <<>> \in Seq(Frame)
    BY EmptySeq
  <2>2. calls \in [Thread -> Seq(Frame)]
    BY <1>6, <2>1
  <2> QED BY <1>1, <1>4, <2>2 DEF SortTypes
<1>8. args[root] = r /\ calls[root] = e
  BY <1>1, <1>2, <1>6
<1>9. Todo = {p}
  <2>1. Todo = Work(calls, args, {root})
    BY <1>2, Zenon DEF Todo
  <2>2. Work(calls, args, {root}) = Parts(root, args[root], calls[root])
    BY DEF Work
  <2> QED BY ONLY <1>6, <1>8, <2>1, <2>2, Zenon
<1>10. p[3] = Index
  BY DEF p, Index
<1>11. InArray({p}) /\ Apart({p}) /\ Ordered(nums, {p})
  BY <1>10 DEF InArray, Apart, Ordered
<1>12. InArray(Todo) /\ Apart(Todo) /\ Ordered(nums, Todo)
  BY ONLY <1>9, <1>11, Zenon
<1>13. \A t \in Live : StackOK(args[t], calls[t])
  BY ONLY <1>2, <1>6, <1>8
<1>14. \A v \in Value : Occurrences(nums, v) = Occurrences(given, v)
  BY <1>1, Zenon
<1>15. Phases
  BY <1>1, <1>2 DEF Phases
<1> QED BY <1>2, <1>3, <1>7, <1>12, <1>13, <1>14, <1>15 DEF SortInv, SortData

(* For any number of threads, any array and any cutoff, in any order of    *)
(* the threads: each element of a part still to be sorted belongs to       *)
(* one call of quick(), and elements of no common part are in order.       *)
THEOREM SortInvariantHolds == SortSpec => []SortInv
<1>1. SortInv /\ [SortNext]_allVars => SortInv'
  BY SortNextInv
<1> QED BY SortInitInv, <1>1, PTL DEF SortSpec

---------------------------------------------------------------------------
(* What the invariant implies: the properties the runs check. *)

(* The elements a thread may touch are those of its parts. *)
LEMMA MineIs ==
  ASSUME NEW t, calls[t] \in Seq(Frame)
  PROVE  \A i : i \in Mine(t) <=> \E p \in Parts(t, args[t], calls[t]) : i \in p[3]
<1> DEFINE s == calls[t]
           r == args[t]
<1>1. \A frame \in Frame : \A i :
        i \in Pending(t, frame) <=> \E S \in Ranges(r, frame) : i \in S
  BY DEF Pending, Ranges, Frame
<1>2. s \in Seq(Frame) /\ Len(s) \in Nat /\ DOMAIN s = 1 .. Len(s)
      /\ \A k \in 1 .. Len(s) : s[k] \in Frame
  BY LenProperties, ElementOfSeq
<1>3. \A i : i \in Mine(t) <=> \E k \in 1 .. Len(s) : i \in Pending(t, s[k])
  BY <1>2 DEF Mine, Range
<1> HIDE DEF s, r
<1>4. \A i : i \in Mine(t) <=> \E k \in 1 .. Len(s) : \E S \in Ranges(r, s[k]) : i \in S
  BY <1>1, <1>2, <1>3
<1>5. \A p : p \in Parts(t, r, s) <=>
        \E n \in 1 .. Len(s) : \E S \in Ranges(r, s[Len(s) + 1 - n]) : p = <<t, n, S>>
  BY <1>2, PartsAre
<1>6. ASSUME NEW i, i \in Mine(t) PROVE \E p \in Parts(t, r, s) : i \in p[3]
  <2>1. PICK k \in 1 .. Len(s) : \E S \in Ranges(r, s[k]) : i \in S
    BY <1>4, <1>6
  <2>2. PICK S \in Ranges(r, s[k]) : i \in S
    BY <2>1
  <2> DEFINE n == Len(s) + 1 - k
  <2>3. n \in 1 .. Len(s) /\ Len(s) + 1 - n = k
    BY <1>2
  <2> HIDE DEF n
  <2>4. <<t, n, S>> \in Parts(t, r, s)
    BY <1>5, <2>2, <2>3
  <2> QED BY <2>2, <2>4
<1>7. ASSUME NEW i, NEW p \in Parts(t, r, s), i \in p[3] PROVE i \in Mine(t)
  <2>1. PICK n \in 1 .. Len(s) : \E S \in Ranges(r, s[Len(s) + 1 - n]) : p = <<t, n, S>>
    BY <1>5
  <2>2. PICK S \in Ranges(r, s[Len(s) + 1 - n]) : p = <<t, n, S>>
    BY <2>1
  <2>3. Len(s) + 1 - n \in 1 .. Len(s) /\ i \in S
    BY <1>2, <1>7, <2>2
  <2> QED BY <1>4, <2>3
<1> QED BY <1>6, <1>7 DEF s, r

(* The parts and the indices of the threads are the same. *)
LEMMA MineAndTodo ==
  ASSUME SortInv
  PROVE  /\ \A t \in Live : \A i \in Mine(t) : \E p \in Todo : p[1] = t /\ i \in p[3]
         /\ \A p \in Todo : \A i \in p[3] : \E t \in Live : i \in Mine(t)
<1>1. \A t \in Live : calls[t] \in Seq(Frame)
  BY LiveFinite DEF SortInv, SortData, SortTypes
<1>2. ASSUME NEW t \in Live, NEW i \in Mine(t)
      PROVE  \E p \in Todo : p[1] = t /\ i \in p[3]
  <2>1. PICK p \in Parts(t, args[t], calls[t]) : i \in p[3]
    BY <1>1, <1>2, MineIs
  <2>2. p[1] = t
    BY <1>1, <2>1, PartsBelow
  <2>3. p \in Todo
    BY <2>1 DEF Todo, Work
  <2> QED BY <2>1, <2>2, <2>3
<1>3. ASSUME NEW p \in Todo, NEW i \in p[3] PROVE \E t \in Live : i \in Mine(t)
  <2>1. PICK t \in Live : p \in Parts(t, args[t], calls[t])
    BY DEF Todo, Work
  <2>2. i \in Mine(t)
    BY <1>1, <2>1, MineIs
  <2> QED BY <2>2
<1> QED BY <1>2, <1>3

(* The three properties of the run follow from the invariant. *)
LEMMA SortConsequences ==
  ASSUME SortInv
  PROVE  RangesDisjoint /\ FinalPlaces /\ SortTestPasses
<1>1. /\ SortData /\ SortTypes /\ Phases
      /\ Apart(Todo) /\ (~refused => Ordered(nums, Todo))
      /\ \A v \in Value : Occurrences(nums, v) = Occurrences(given, v)
  BY DEF SortInv, SortData
<1>2. RangesDisjoint
  <2> SUFFICES ASSUME NEW t \in Live, NEW u \in Live, t # u,
                      NEW i \in Mine(t), i \in Mine(u)
               PROVE  FALSE
    BY DEF RangesDisjoint
  <2>1. PICK p \in Todo : p[1] = t /\ i \in p[3]
    BY MineAndTodo
  <2>2. PICK r \in Todo : r[1] = u /\ i \in r[3]
    BY MineAndTodo
  <2> QED BY <1>1, <2>1, <2>2 DEF Apart
<1>3. FinalPlaces
  <2> SUFFICES ASSUME ~refused,
                      NEW i \in Index \ UNION {Mine(t) : t \in Live}, NEW j \in Index
               PROVE  (i < j => nums[i] <= nums[j]) /\ (j < i => nums[j] <= nums[i])
    BY DEF FinalPlaces
  <2>1. \A p \in Todo : i \notin p[3]
    BY MineAndTodo
  <2> QED BY <1>1, <2>1 DEF Ordered
<1>4. SortTestPasses
  <2> SUFFICES ASSUME joined, ~refused, NEW i \in 0 .. N - 2 PROVE nums[i] <= nums[i + 1]
    BY <1>1 DEF SortTestPasses
  <2>1. Live \subseteq {root} /\ calls[root] = <<>>
    BY <1>1 DEF Phases
  <2>2. Todo = {}
    <3>1. \A t \in Live : calls[t] = <<>>
      BY <2>1
    <3>2. \A t \in Live : Parts(t, args[t], calls[t]) = {}
      BY ONLY <3>1, NoParts, Zenon
    <3> QED BY <3>2 DEF Todo, Work
  <2>3. i \in Index /\ i + 1 \in Index /\ i < i + 1
    BY SortAssumption DEF Index
  <2> QED BY <1>1, <2>2, <2>3 DEF Ordered
<1> QED BY <1>2, <1>3, <1>4

(* No two threads work on the same element, although a thread changes its  *)
(* args after it has given them to another.                                *)
THEOREM SortRangesDisjoint == SortSpec => []RangesDisjoint
BY SortInvariantHolds, SortConsequences, PTL

(* What no thread will touch any more is where it belongs. *)
THEOREM SortFinalPlaces == SortSpec => []FinalPlaces
BY SortInvariantHolds, SortConsequences, PTL

(* When sort() returns the array is sorted, and a rearrangement of the one *)
(* it was given, even if threads could not be created.                     *)
THEOREM SortIsRight == SortSpec => []SortTestPasses
BY SortInvariantHolds, SortConsequences, PTL

============================================================================
