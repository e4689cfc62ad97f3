--------------------------- MODULE StringsProofs ---------------------------
(***************************************************************************)
(* The functions of lib/string.c on memories of any size: what is copied,  *)
(* found, compared and broken into tokens, for every client of theirs.     *)
(***************************************************************************)
EXTENDS StringsClient, FiniteSetTheorems, SequenceTheorems, WellFoundedInduction, TLAPS

---------------------------------------------------------------------------
(* The least of a set of numbers. *)

(* A set of naturals has a member in front of which there is none. *)
LEMMA LeastBy ==
  ASSUME NEW R, NEW S \in SUBSET Nat, S # {}, IsWellFoundedOn(R, Nat),
         \A x, y \in Nat : x < y => <<x, y>> \in R
  PROVE  \E n \in S : \A m \in S : n <= m
<1>1. PICK x \in S : \A y \in S : ~(<<y, x>> \in R)
  <2>1. S \subseteq Nat
    OBVIOUS
  <2> QED BY ONLY <2>1, S # {}, IsWellFoundedOn(R, Nat), WFMin, Zenon
<1>2. \A y \in S : ~(y < x)
  BY <1>1
<1>3. \A y \in S : x \in Nat /\ y \in Nat
  OBVIOUS
<1> QED BY <1>2, <1>3

(* The least of a set of naturals. *)
LEMMA MinIsLeast ==
  ASSUME NEW S \in SUBSET Nat, S # {}
  PROVE  Min(S) \in S /\ \A m \in S : Min(S) <= m
<1> DEFINE R == OpToRel(<, Nat)
<1>1. IsWellFoundedOn(R, Nat)
  BY NatLessThanWellFounded
<1>2. \A x, y \in Nat : x < y => <<x, y>> \in R
  BY DEF OpToRel
<1> HIDE DEF R
<1>3. \E n \in S : \A m \in S : n <= m
  BY <1>1, <1>2, LeastBy
<1> QED BY <1>3 DEF Min

---------------------------------------------------------------------------
(* Blocks of memory. *)

(* What holds at 0 and at each number after one where it holds, up to n. *)
LEMMA HoldsUpTo ==
  ASSUME NEW n \in Nat, NEW S, 0 \in S,
         \A k \in 0 .. n - 1 : k \in S => k + 1 \in S
  PROVE  n \in S
<1> DEFINE B == {k \in 0 .. n : k \notin S}
<1> SUFFICES ASSUME B # {} PROVE FALSE
  OBVIOUS
<1>1. B \in SUBSET Nat
  OBVIOUS
<1>2. Min(B) \in B /\ \A m \in B : Min(B) <= m
  BY <1>1, MinIsLeast
<1>3. PICK k \in B : \A m \in B : k <= m
  BY <1>2
<1>4. k \in 0 .. n /\ k \notin S /\ k # 0
  BY <1>3
<1>5. k - 1 \in 0 .. n - 1 /\ k - 1 \in S
  <2>1. k - 1 \in 0 .. n /\ ~(k <= k - 1)
    BY <1>4
  <2> QED BY <1>3, <1>4, <2>1
<1>6. (k - 1) + 1 = k
  BY <1>4
<1> QED BY <1>4, <1>5, <1>6

(* The function f is defined as the loop of CopyBytes is. *)
IsCopyLoop(f, n, m, dst, src, order) ==
  f = [k \in 0 .. n |-> IF k = 0 THEN m ELSE CopyByte(f[k - 1], dst, src, order[k])]

(* There is such a function. *)
LEMMA CopyLoopExists ==
  ASSUME NEW n \in Nat, NEW m, NEW dst, NEW src, NEW order
  PROVE  \E f : IsCopyLoop(f, n, m, dst, src, order)
<1> DEFINE After(r, k) == CopyByte(r, dst, src, order[k])
           P(f, b) == f = [k \in 0 .. b |-> IF k = 0 THEN m ELSE After(f[k - 1], k)]
           S == {b \in Nat : \E f : P(f, b)}
<1>1. 0 \in S
  <2>1. P([k \in 0 .. 0 |-> m], 0)
    OBVIOUS
  <2> QED BY <2>1
<1>2. ASSUME NEW b \in 0 .. n - 1, b \in S PROVE b + 1 \in S
  <2>1. PICK f : P(f, b)
    BY <1>2
  <2> HIDE DEF After
  <2> DEFINE g == [k \in 0 .. b + 1 |-> IF k = b + 1 THEN After(f[b], b + 1) ELSE f[k]]
  <2>2. \A k \in 0 .. b : f[k] = IF k = 0 THEN m ELSE After(f[k - 1], k)
    BY <2>1
  <2>3. \A k \in 0 .. b + 1 : g[k] = IF k = 0 THEN m ELSE After(g[k - 1], k)
    <3> SUFFICES ASSUME NEW k \in 0 .. b + 1
                 PROVE  g[k] = IF k = 0 THEN m ELSE After(g[k - 1], k)
      OBVIOUS
    <3>1. CASE k = b + 1
      BY <3>1
    <3>2. CASE k \in 0 .. b
      <4>1. g[k] = f[k] /\ (k # 0 => g[k - 1] = f[k - 1])
        BY <3>2
      <4> HIDE DEF g
      <4> QED BY <2>2, <3>2, <4>1
    <3> QED BY <3>1, <3>2
  <2>4. g = [k \in 0 .. b + 1 |-> g[k]]
    OBVIOUS
  <2> HIDE DEF g
  <2>5. P(g, b + 1)
    BY <2>3, <2>4
  <2> QED BY <2>5
<1> HIDE DEF S
<1>3. n \in S
  BY <1>1, <1>2, HoldsUpTo
<1> QED BY <1>3 DEF S, IsCopyLoop

(* The offsets of a block, in an order in which no byte is read after it   *)
(* has been overwritten.                                                   *)
GoodOrder(order, dst, src, size) ==
  /\ Len(order) = size
  /\ \A k \in 1 .. size : order[k] \in 0 .. size - 1
  /\ \A i \in 0 .. size - 1 : \E k \in 1 .. size : order[k] = i
  /\ \A k \in 1 .. size : \A j \in 1 .. k - 1 : src + order[k] # dst + order[j]

(* r is m with the block at src copied to dst. *)
Copied(m, r, dst, src, size) ==
  /\ r \in [Addr -> Nat]
  /\ \A i \in 0 .. size - 1 : r[dst + i] = m[src + i]
  /\ \A a \in Addr \ (dst .. dst + size - 1) : r[a] = m[a]

InMemory(a, size) == a \in Nat /\ size \in Nat /\ a + size <= Top + 1

(* In such an order the block is copied as it was. *)
LEMMA CopyBytesCopies ==
  ASSUME NEW m \in [Addr -> Nat], NEW dst, NEW src, NEW size, NEW order,
         InMemory(dst, size), InMemory(src, size), GoodOrder(order, dst, src, size)
  PROVE  Copied(m, CopyBytes(m, dst, src, order), dst, src, size)
<1> DEFINE P(g) == g = [k \in 0 .. Len(order) |->
                          IF k = 0 THEN m ELSE CopyByte(g[k - 1], dst, src, order[k])]
           f == CHOOSE g : P(g)
           Part(k, r) ==
             /\ r \in [Addr -> Nat]
             /\ \A j \in 1 .. k : r[dst + order[j]] = m[src + order[j]]
             /\ \A a \in Addr : (\A j \in 1 .. k : a # dst + order[j]) => r[a] = m[a]
           S == {k \in 0 .. size : Part(k, f[k])}
<1>1. /\ dst \in Nat /\ src \in Nat /\ size \in Nat /\ Top \in Nat /\ Len(order) = size
      /\ \A i \in 0 .. size - 1 : dst + i \in Addr /\ src + i \in Addr
  BY StringsClientAssumption DEF InMemory, GoodOrder, Addr
<1>2. P(f)
  <2>1. \E g : P(g)
    <3>1. Len(order) \in Nat
      BY <1>1
    <3>2. \E g : IsCopyLoop(g, Len(order), m, dst, src, order)
      BY ONLY <3>1, CopyLoopExists, Zenon
    <3> QED BY <3>2, Zenon DEF IsCopyLoop
  <2> HIDE DEF P
  <2> QED BY <2>1
<1>3. CopyBytes(m, dst, src, order) = f[size]
  BY <1>1 DEF CopyBytes
<1> HIDE DEF f
<1>4. \A k \in 0 .. size : f[k] = IF k = 0 THEN m ELSE CopyByte(f[k - 1], dst, src, order[k])
  BY <1>1, <1>2
<1>5. 0 \in S
  BY <1>1, <1>4
<1>6. ASSUME NEW k \in 0 .. size - 1, k \in S PROVE k + 1 \in S
  <2> DEFINE r == f[k]
             i == order[k + 1]
  <2>1. k + 1 \in 1 .. size /\ k + 1 \in 0 .. size /\ k + 1 # 0 /\ (k + 1) - 1 = k
    BY <1>1
  <2>2. f[k + 1] = [r EXCEPT ![dst + i] = r[src + i]]
    BY <1>4, <2>1 DEF CopyByte
  <2>3. i \in 0 .. size - 1 /\ \A j \in 1 .. k : src + i # dst + order[j]
    BY <2>1 DEF GoodOrder
  <2>4. Part(k, r) /\ dst + i \in Addr /\ src + i \in Addr
    BY <1>1, <1>6, <2>3
  <2>5. r[src + i] = m[src + i]
    BY <2>3, <2>4
  <2> HIDE DEF r, i
  <2>6. \A j \in 1 .. k : order[j] \in 0 .. size - 1 /\ dst + order[j] \in Addr
    <3>1. \A j \in 1 .. k : j \in 1 .. size
      BY <1>1
    <3>2. \A j \in 1 .. k : order[j] \in 0 .. size - 1
      BY <3>1 DEF GoodOrder
    <3> QED BY <1>1, <3>2
  <2>7. f[k + 1] \in [Addr -> Nat]
    BY <2>2, <2>4
  <2>8. \A j \in 1 .. k + 1 : f[k + 1][dst + order[j]] = m[src + order[j]]
    <3> SUFFICES ASSUME NEW j \in 1 .. k + 1
                 PROVE  f[k + 1][dst + order[j]] = m[src + order[j]]
      OBVIOUS
    <3>1. CASE j = k + 1
      BY <2>2, <2>4, <2>5, <3>1 DEF i
    <3>2. CASE j \in 1 .. k
      <4>1. CASE order[j] = i
        BY <2>2, <2>4, <2>5, <4>1
      <4>2. CASE order[j] # i
        <5>1. dst + order[j] # dst + i
          BY <1>1, <2>3, <2>6, <3>2, <4>2
        <5> QED BY <2>2, <2>4, <2>6, <3>2, <5>1
      <4> QED BY <4>1, <4>2
    <3> QED BY <3>1, <3>2
  <2>9. \A a \in Addr : (\A j \in 1 .. k + 1 : a # dst + order[j]) => f[k + 1][a] = m[a]
    <3> SUFFICES ASSUME NEW a \in Addr, \A j \in 1 .. k + 1 : a # dst + order[j]
                 PROVE  f[k + 1][a] = m[a]
      OBVIOUS
    <3>1. a # dst + i /\ \A j \in 1 .. k : a # dst + order[j]
      BY <2>1 DEF i
    <3> QED BY <2>2, <2>4, <3>1
  <2> QED BY <2>1, <2>7, <2>8, <2>9
<1>7. size \in S
  <2> HIDE DEF S
  <2> QED BY <1>1, <1>5, <1>6, HoldsUpTo
<1>8. Part(size, f[size])
  BY <1>7
<1>9. \A i \in 0 .. size - 1 : f[size][dst + i] = m[src + i]
  <2> SUFFICES ASSUME NEW i \in 0 .. size - 1 PROVE f[size][dst + i] = m[src + i]
    OBVIOUS
  <2>1. PICK k \in 1 .. size : order[k] = i
    BY DEF GoodOrder
  <2> QED BY <1>8, <2>1
<1>10. \A a \in Addr \ (dst .. dst + size - 1) : f[size][a] = m[a]
  <2> SUFFICES ASSUME NEW a \in Addr, a \notin dst .. dst + size - 1
               PROVE  f[size][a] = m[a]
    OBVIOUS
  <2>1. \A j \in 1 .. size : a # dst + order[j]
    BY <1>1 DEF GoodOrder
  <2> QED BY <1>8, <2>1
<1> QED BY <1>3, <1>8, <1>9, <1>10 DEF Copied

(* From the low end up is such an order if the target is not higher or the *)
(* blocks do not overlap, ...                                              *)
LEMMA UpwardIsGood ==
  ASSUME NEW size \in Nat, NEW dst \in Nat, NEW src \in Nat,
         dst <= src \/ src + size <= dst
  PROVE  GoodOrder(Upward(size), dst, src, size)
<1>1. Len(Upward(size)) = size /\ \A k \in 1 .. size : Upward(size)[k] = k - 1
  BY DEF Upward
<1>2. \A i \in 0 .. size - 1 : i + 1 \in 1 .. size /\ Upward(size)[i + 1] = i
  BY <1>1
<1> DEFINE order == Upward(size)
<1>3. \A k \in 1 .. size : order[k] = k - 1 /\ order[k] \in 0 .. size - 1
  BY <1>1
<1>4. \A i \in 0 .. size - 1 : \E k \in 1 .. size : order[k] = i
  BY <1>2
<1>5. ASSUME NEW k \in 1 .. size, NEW j \in 1 .. k - 1
      PROVE  src + order[k] # dst + order[j]
  <2>1. order[k] = k - 1 /\ order[j] = j - 1
    BY <1>3
  <2> HIDE DEF order
  <2>2. src + (k - 1) # dst + (j - 1)
    OBVIOUS
  <2> QED BY <2>1, <2>2
<1>6. Len(order) = size
  BY <1>1
<1> HIDE DEF order
<1>7. GoodOrder(order, dst, src, size)
  BY <1>3, <1>4, <1>5, <1>6 DEF GoodOrder
<1> QED BY <1>7 DEF order

(* ... and from the high end down if the target is not lower. *)
LEMMA DownwardIsGood ==
  ASSUME NEW size \in Nat, NEW dst \in Nat, NEW src \in Nat, src <= dst
  PROVE  GoodOrder(Downward(size), dst, src, size)
<1>1. Len(Upward(size)) = size /\ \A k \in 1 .. size : Upward(size)[k] = k - 1
  BY DEF Upward
<1>2. Len(Downward(size)) = size /\ \A k \in 1 .. size : Downward(size)[k] = size - k
  BY <1>1 DEF Downward, Reverse
<1>3. \A i \in 0 .. size - 1 : size - i \in 1 .. size /\ Downward(size)[size - i] = i
  BY <1>2
<1> QED BY <1>2, <1>3 DEF GoodOrder

(* memcpy copies a block onto one that it does not overlap, or that starts *)
(* no higher.                                                              *)
LEMMA MemcpyCopies ==
  ASSUME NEW m \in [Addr -> Nat], NEW dst, NEW src, NEW size,
         InMemory(dst, size), InMemory(src, size), dst <= src \/ src + size <= dst
  PROVE  Copied(m, memcpy(m, dst, src, size).mem, dst, src, size)
<1>1. dst \in Nat /\ src \in Nat /\ size \in Nat
  BY DEF InMemory
<1>2. GoodOrder(Upward(size), dst, src, size)
  BY <1>1, UpwardIsGood
<1>3. Copied(m, CopyBytes(m, dst, src, Upward(size)), dst, src, size)
  BY <1>2, CopyBytesCopies
<1> QED BY <1>3 DEF memcpy

(* memmove copies a block onto any other. *)
LEMMA MemmoveCopies ==
  ASSUME NEW m \in [Addr -> Nat], NEW dst, NEW src, NEW size,
         InMemory(dst, size), InMemory(src, size)
  PROVE  Copied(m, memmove(m, dst, src, size).mem, dst, src, size)
<1>1. dst \in Nat /\ src \in Nat /\ size \in Nat
  BY DEF InMemory
<1>2. CASE dst < src
  <2>1. GoodOrder(Upward(size), dst, src, size)
    BY <1>1, <1>2, UpwardIsGood
  <2>2. Copied(m, CopyBytes(m, dst, src, Upward(size)), dst, src, size)
    BY <2>1, CopyBytesCopies
  <2> QED BY <1>2, <2>2 DEF memmove
<1>3. CASE ~(dst < src)
  <2>1. GoodOrder(Downward(size), dst, src, size)
    BY <1>1, <1>3, DownwardIsGood
  <2>2. Copied(m, CopyBytes(m, dst, src, Downward(size)), dst, src, size)
    BY <2>1, CopyBytesCopies
  <2> QED BY <1>3, <2>2 DEF memmove
<1> QED BY <1>2, <1>3

(* The calls: none yet, one of the first two clients, any of strtok_r. *)
Starts == {Start("move"), Start("copy"), Start("tokens")}

CallInv ==
  /\ \/ call \in Starts \cup {[op |-> "tokens", first |-> FALSE]}
     \/ call.op \in {"moved", "filled", "copied", "no_tokens"}
  /\ call \in Starts => mem = before
  /\ call = Start("move") => mem \in [Addr -> Nat]
  /\ call \in {Start("copy"), Start("tokens")} => mem \in Memory

LEMMA OpOfStart ==
  /\ \A op : Start(op).op = op
  /\ \A c : c \in Starts => c.op \in {"move", "copy", "tokens"}
  /\ \A c : c \in Starts \cup {[op |-> "tokens", first |-> FALSE]} =>
              c.op \in {"move", "copy", "tokens"}
BY DEF Start, Starts

(* A call of Tokenize leaves the client that breaks up a string at work. *)
LEMMA TokenizeCall ==
  ASSUME Tokenize
  PROVE  \/ call' = [op |-> "no_tokens"]
         \/ call' = [op |-> "tokens", first |-> FALSE]
BY DEF Tokenize

LEMMA CallInvInit == StringsInit => CallInv
<1> SUFFICES ASSUME StringsInit PROVE CallInv
  OBVIOUS
<1>1. call \in Starts /\ mem = before
  BY DEF StringsInit, Starts
<1>2. call = Start("move") => mem \in [Addr -> Nat]
  <2>1. Start("copy") # Start("move") /\ Start("tokens") # Start("move")
    BY OpOfStart
  <2> QED BY <2>1, StringsClientAssumption DEF StringsInit
<1>3. call \in {Start("copy"), Start("tokens")} => mem \in Memory
  <2>1. Start("copy") # Start("move") /\ Start("tokens") # Start("move")
    BY OpOfStart
  <2> QED BY <2>1 DEF StringsInit
<1> QED BY <1>1, <1>2, <1>3 DEF CallInv

LEMMA CallInvNext ==
  ASSUME CallInv, [StringsNext]_stringVars
  PROVE  CallInv'
<1>1. ASSUME call'.op \in {"moved", "filled", "copied", "no_tokens"}
      PROVE  CallInv'
  <2>1. call' \notin Starts /\ Start("move") \in Starts
        /\ Start("copy") \in Starts /\ Start("tokens") \in Starts
    BY <1>1, OpOfStart DEF Starts
  <2> QED BY <1>1, <2>1 DEF CallInv
<1>2. CASE Move
  BY <1>1, <1>2 DEF Move
<1>3. CASE Fill
  BY <1>1, <1>3 DEF Fill
<1>4. CASE Copy
  <2>1. call'.op = "copied"
    BY <1>4 DEF Copy
  <2> QED BY <1>1, <2>1
<1>5. CASE Tokenize
  <2>1. CASE call' = [op |-> "no_tokens"]
    BY <1>1, <2>1
  <2>2. CASE call' = [op |-> "tokens", first |-> FALSE]
    <3>1. call' \notin Starts
      BY <2>2, OpOfStart DEF Start, Starts
    <3> QED BY <2>2, <3>1 DEF CallInv, Starts
  <2> QED BY <1>5, <2>1, <2>2, TokenizeCall
<1>6. CASE UNCHANGED stringVars
  BY <1>6 DEF CallInv, stringVars, Starts
<1> QED BY <1>2, <1>3, <1>4, <1>5, <1>6 DEF StringsNext

(* A block that has been moved or filled is as MovesBytes wants it. *)
LEMMA MovesBytesNext ==
  ASSUME CallInv, MovesBytes, [StringsNext]_stringVars
  PROVE  MovesBytes'
<1>1. CASE Move
  <2>1. PICK m, dst, src, size :
          /\ m = mem /\ dst \in Addr /\ src \in Addr /\ size \in 0 .. Top + 1
          /\ dst + size <= Top + 1 /\ src + size <= Top + 1
          /\ \/ mem' = memmove(m, dst, src, size).mem
             \/ /\ dst + size <= src \/ src + size <= dst
                /\ mem' = memcpy(m, dst, src, size).mem
          /\ call' = [op |-> "moved", dst |-> dst, src |-> src, size |-> size]
    BY <1>1 DEF Move
  <2>2. m \in [Addr -> Nat] /\ m = before /\ before' = m
    BY <1>1, <2>1 DEF Move, CallInv, Starts
  <2>3. dst \in Nat /\ src \in Nat /\ size \in Nat
    BY <2>1, StringsClientAssumption DEF Addr
  <2>4. InMemory(dst, size) /\ InMemory(src, size)
    BY <2>1, <2>3 DEF InMemory
  <2>5. Copied(m, mem', dst, src, size)
    <3>1. CASE mem' = memmove(m, dst, src, size).mem
      <4>1. Copied(m, memmove(m, dst, src, size).mem, dst, src, size)
        BY ONLY <2>2, <2>4, MemmoveCopies
      <4> QED BY <3>1, <4>1, Zenon
    <3>2. CASE /\ dst + size <= src \/ src + size <= dst
               /\ mem' = memcpy(m, dst, src, size).mem
      <4>1. dst <= src \/ src + size <= dst
        BY <2>3, <3>2
      <4>2. Copied(m, memcpy(m, dst, src, size).mem, dst, src, size)
        BY ONLY <2>2, <2>4, <4>1, MemcpyCopies
      <4> QED BY <3>2, <4>2, Zenon
    <3> QED BY <2>1, <3>1, <3>2
  <2>6. /\ call'.op = "moved" /\ call'.dst = dst /\ call'.src = src /\ call'.size = size
    BY <2>1
  <2>7. ASSUME NEW a \in Addr
        PROVE  mem'[a] = IF a \notin dst .. dst + size - 1 THEN m[a] ELSE m[src + (a - dst)]
    <3>1. CASE a \in dst .. dst + size - 1
      <4>1. a - dst \in 0 .. size - 1 /\ dst + (a - dst) = a
        BY <2>3, <3>1
      <4> QED BY <2>5, <3>1, <4>1 DEF Copied
    <3> QED BY <2>5, <3>1 DEF Copied
  <2> QED BY <2>2, <2>6, <2>7 DEF MovesBytes
<1>2. CASE Fill
  <2>1. PICK dst, value, size :
          /\ mem' = memset(mem, dst, value, size).mem
          /\ call' = [op |-> "filled", dst |-> dst, value |-> value, size |-> size]
    BY <1>2 DEF Fill
  <2>2. DOMAIN mem = Addr /\ mem = before /\ before' = mem
    BY <1>2 DEF Fill, CallInv, Starts
  <2>3. mem' = [a \in Addr |-> IF a \in dst .. dst + size - 1 THEN value ELSE before[a]]
    BY <2>1, <2>2 DEF memset
  <2>4. call'.op = "filled" /\ call'.dst = dst /\ call'.value = value /\ call'.size = size
    BY <2>1
  <2> QED BY <2>2, <2>3, <2>4 DEF MovesBytes
<1>3. CASE Copy
  <2>1. call'.op = "copied"
    BY <1>3 DEF Copy
  <2> QED BY <2>1 DEF MovesBytes
<1>4. CASE Tokenize
  <2>1. call'.op \in {"tokens", "no_tokens"}
    BY <1>4, TokenizeCall
  <2> QED BY <2>1 DEF MovesBytes
<1>5. CASE UNCHANGED stringVars
  BY <1>5 DEF MovesBytes, stringVars
<1> QED BY <1>1, <1>2, <1>3, <1>4, <1>5 DEF StringsNext

---------------------------------------------------------------------------
(* Strings. *)

(* The lesser of two numbers. *)
LEMMA MinOfTwo ==
  ASSUME NEW a \in Int, NEW b \in Int
  PROVE  Min({a, b}) = IF a <= b THEN a ELSE b
<1>1. \A x : x \in {a, b} /\ (\A y \in {a, b} : x <= y) <=> x = IF a <= b THEN a ELSE b
  OBVIOUS
<1> QED BY <1>1 DEF Min

(* At s there is a string of n characters. *)
IsString(m, s, n) ==
  /\ n \in Nat /\ s \in Addr /\ s + n \in Addr
  /\ m[s + n] = 0 /\ \A a \in s .. s + n - 1 : m[a] # 0

LEMMA StrlenIs ==
  ASSUME NEW m \in [Addr -> Nat], NEW s, NEW n, IsString(m, s, n)
  PROVE  strlen(m, s) = n
<1> DEFINE Ends == {a \in Addr : a >= s /\ m[a] = 0}
<1>1. s \in Nat /\ n \in Nat /\ Addr \subseteq Nat /\ Ends \in SUBSET Nat
  BY StringsClientAssumption DEF IsString, Addr
<1>2. s + n \in Ends /\ \A a \in Ends : a >= s + n
  BY <1>1 DEF IsString
<1>3. Min(Ends) \in Ends /\ \A a \in Ends : Min(Ends) <= a
  BY <1>1, <1>2, MinIsLeast
<1>4. strlen(m, s) = Min(Ends) - s
  BY DEF strlen
<1> HIDE DEF Ends
<1>5. PICK k \in Nat : k = Min(Ends)
  BY <1>1, <1>3
<1>6. k = s + n
  <2>1. k >= s + n /\ k <= s + n
    BY <1>2, <1>3, <1>5
  <2> QED BY <1>1, <1>5, <2>1
<1> QED BY <1>1, <1>4, <1>5, <1>6

(* In a memory that ends in a null byte every address is a string. *)
LEMMA StringAt ==
  ASSUME NEW m \in [Addr -> Nat], m[Top] = 0, NEW s \in Addr
  PROVE  IsString(m, s, strlen(m, s))
<1> DEFINE Ends == {a \in Addr : a >= s /\ m[a] = 0}
<1>1. s \in Nat /\ Addr \subseteq Nat /\ Ends \in SUBSET Nat /\ Top \in Nat /\ Top >= s
  BY StringsClientAssumption DEF Addr
<1>2. Top \in Ends
  BY <1>1 DEF Addr
<1>3. Min(Ends) \in Ends /\ \A a \in Ends : Min(Ends) <= a
  BY <1>1, <1>2, MinIsLeast
<1>4. strlen(m, s) = Min(Ends) - s
  BY DEF strlen
<1>5. PICK k \in Ends : k = Min(Ends) /\ \A a \in Ends : k <= a
  BY <1>3
<1>6. k \in Nat /\ k \in Addr /\ k >= s /\ m[k] = 0
  BY <1>1, <1>5
<1>7. ASSUME NEW a \in s .. k - 1 PROVE m[a] # 0
  <2>1. a \in Addr /\ a >= s /\ ~(k <= a)
    BY <1>1, <1>6, <1>7 DEF Addr
  <2> QED BY <1>5, <2>1
<1>8. k - s \in Nat /\ s + (k - s) = k
  BY <1>1, <1>6
<1>9. strlen(m, s) = k - s
  BY <1>4, <1>5
<1> QED BY <1>6, <1>7, <1>8, <1>9 DEF IsString

(* The text of a string. *)
LEMMA TextOf ==
  ASSUME NEW m \in [Addr -> Nat], NEW s, NEW n, IsString(m, s, n)
  PROVE  /\ Text(m, s) = [i \in 1 .. n |-> m[s + i - 1]]
         /\ Text(m, s) \in Seq(Nat) /\ Len(Text(m, s)) = n
         /\ Chars(m, s) = s .. s + n - 1
<1>1. strlen(m, s) = n
  BY StrlenIs
<1>2. \A i \in 1 .. n : s + i - 1 \in Addr
  BY StringsClientAssumption DEF IsString, Addr
<1>3. Text(m, s) = [i \in 1 .. n |-> m[s + i - 1]] /\ Chars(m, s) = s .. s + n - 1
  BY <1>1 DEF Text, Chars
<1>4. n \in Nat /\ \A i \in 1 .. n : m[s + i - 1] \in Nat
  BY <1>2 DEF IsString
<1>5. /\ [i \in 1 .. n |-> m[s + i - 1]] \in Seq(Nat)
      /\ Len([i \in 1 .. n |-> m[s + i - 1]]) = n
  BY <1>4
<1> QED BY ONLY <1>3, <1>5, Zenon

(* The same, character by character. *)
TextAt(t, m, s, n) ==
  /\ t \in Seq(Nat) /\ Len(t) = n /\ n \in Nat /\ s \in Nat
  /\ \A i \in 1 .. n : t[i] = m[s + i - 1]

LEMMA TextIs ==
  ASSUME NEW m \in [Addr -> Nat], NEW s, NEW n, IsString(m, s, n)
  PROVE  TextAt(Text(m, s), m, s, n)
<1>1. n \in Nat /\ s \in Nat
  BY StringsClientAssumption DEF IsString, Addr
<1>2. Text(m, s) = [i \in 1 .. n |-> m[s + i - 1]]
  BY TextOf
<1>3. Text(m, s) \in Seq(Nat) /\ Len(Text(m, s)) = n
  BY TextOf
<1> QED BY <1>1, <1>2, <1>3 DEF TextAt

LEMMA MemoryIs ==
  ASSUME NEW m \in Memory
  PROVE  /\ m \in [Addr -> Nat] /\ m[Top] = 0
         /\ \A a \in Addr : m[a] \in Byte \cup {0}
<1>1. m \in [Addr -> Byte \cup {0}] /\ m[Top] = 0
  BY DEF Memory
<1>2. Byte \cup {0} \subseteq Nat
  BY StringsClientAssumption
<1> QED BY <1>1, <1>2

(* What strlcpy and strlcat write: characters and a null byte behind them. *)
Ended(m, dst, src, len) == [memcpy(m, dst, src, len).mem EXCEPT ![dst + len] = 0]

IsEnded(m, r, dst, src, len) ==
  /\ r \in [Addr -> Nat]
  /\ \A i \in 0 .. len - 1 : r[dst + i] = m[src + i]
  /\ r[dst + len] = 0
  /\ \A a \in Addr \ (dst .. dst + len) : r[a] = m[a]

LEMMA CopiesText ==
  ASSUME NEW m \in [Addr -> Nat], NEW dst \in Nat, NEW src \in Nat, NEW len \in Nat,
         dst + len < src, src + len <= Top
  PROVE  IsEnded(m, Ended(m, dst, src, len), dst, src, len)
<1> DEFINE c == memcpy(m, dst, src, len).mem
           r == [c EXCEPT ![dst + len] = 0]
<1>1. InMemory(dst, len) /\ InMemory(src, len) /\ dst <= src
  BY StringsClientAssumption DEF InMemory
<1>2. Copied(m, c, dst, src, len)
  BY <1>1, MemcpyCopies
<1> HIDE DEF c
<1>3. dst + len \in Addr /\ \A i \in 0 .. len - 1 : dst + i \in Addr /\ dst + i # dst + len
  BY StringsClientAssumption DEF Addr
<1>4. r \in [Addr -> Nat] /\ r[dst + len] = 0
      /\ \A a \in Addr : a # dst + len => r[a] = c[a]
  BY <1>2, <1>3 DEF Copied
<1> HIDE DEF r
<1>5. \A i \in 0 .. len - 1 : r[dst + i] = m[src + i]
  BY <1>2, <1>3, <1>4 DEF Copied
<1>6. ASSUME NEW a \in Addr \ (dst .. dst + len)
      PROVE  r[a] = m[a]
  <2>1. a \notin dst .. dst + len - 1 /\ a # dst + len
    BY <1>3
  <2> QED BY <1>2, <1>4, <2>1 DEF Copied
<1>7. IsEnded(m, r, dst, src, len)
  BY <1>4, <1>5, <1>6 DEF IsEnded
<1> QED BY <1>7 DEF Ended, r, c

(* strlcpy leaves as much of the string as fits. *)
LEMMA StrlcpyCopies ==
  ASSUME NEW m \in Memory, NEW dst \in Addr, NEW src \in Addr, NEW size \in Nat,
         dst + size <= src
  PROVE  LET r   == strlcpy(m, dst, src, size)
             n   == strlen(m, src)
             len == IF n <= size - 1 THEN n ELSE size - 1
         IN /\ r.ret = n
            /\ size = 0 => r.mem = m
            /\ size > 0 => /\ r.mem \in [Addr -> Nat]
                           /\ IsString(r.mem, dst, len)
                           /\ \A i \in 0 .. len - 1 : r.mem[dst + i] = m[src + i]
                           /\ \A a \in Addr \ (dst .. dst + size - 1) : r.mem[a] = m[a]
<1> DEFINE r   == strlcpy(m, dst, src, size)
           n   == strlen(m, src)
           len == IF n <= size - 1 THEN n ELSE size - 1
           c   == Ended(m, dst, src, len)
<1>1. m \in [Addr -> Nat] /\ IsString(m, src, n)
  BY MemoryIs, StringAt
<1> HIDE DEF n
<1>2. n \in Nat /\ src \in Nat /\ dst \in Nat /\ src + n <= Top
  BY <1>1, StringsClientAssumption DEF IsString, Addr
<1>3. Min({n, size - 1}) = len
  BY <1>2, MinOfTwo, size - 1 \in Int
<1>4. r.ret = n /\ r.mem = IF size = 0 THEN m ELSE c
  BY <1>3 DEF strlcpy, Ended, n
<1>5. CASE size = 0
  BY <1>4, <1>5 DEF n
<1>6. CASE size > 0
  <2>1. len \in Nat /\ dst + len < src /\ src + len <= Top /\ len <= n /\ len < size
    <3>1. len \in Nat /\ len <= n /\ len < size
      BY <1>2, <1>6
    <3> HIDE DEF len, c
    <3> QED BY <1>2, <3>1, StringsClientAssumption
  <2> HIDE DEF len
  <2>2. /\ c \in [Addr -> Nat]
        /\ \A i \in 0 .. len - 1 : c[dst + i] = m[src + i]
        /\ c[dst + len] = 0
        /\ \A a \in Addr \ (dst .. dst + len) : c[a] = m[a]
    <3>1. m \in [Addr -> Nat] /\ dst \in Nat /\ src \in Nat /\ len \in Nat
          /\ dst + len < src /\ src + len <= Top
      BY <1>1, <1>2, <2>1
    <3> HIDE DEF c, r
    <3>2. IsEnded(m, Ended(m, dst, src, len), dst, src, len)
      BY ONLY <3>1, CopiesText
    <3> QED BY <3>2 DEF c, IsEnded
  <2> HIDE DEF c
  <2>3. \A a \in dst .. dst + len - 1 : c[a] # 0
    <3> SUFFICES ASSUME NEW a \in dst .. dst + len - 1 PROVE c[a] # 0
      OBVIOUS
    <3>1. a - dst \in 0 .. len - 1 /\ dst + (a - dst) = a
      BY <1>2, <2>1
    <3>2. src + (a - dst) \in src .. src + n - 1
      BY <1>2, <2>1, <3>1
    <3> QED BY <1>1, <2>2, <3>1, <3>2 DEF IsString
  <2>4. dst + len \in Addr
    BY <1>2, <2>1, StringsClientAssumption DEF Addr
  <2>5. IsString(c, dst, len)
    BY <2>1, <2>2, <2>3, <2>4 DEF IsString
  <2>6. \A a \in Addr \ (dst .. dst + size - 1) : c[a] = m[a]
    <3>1. \A a \in Addr : a \in dst .. dst + len => a \in dst .. dst + size - 1
      BY <1>2, <2>1
    <3> QED BY <2>2, <3>1
  <2>7. r.mem = c
    BY <1>4, <1>6
  <2> HIDE DEF r
  <2> QED BY <1>4, <1>6, <2>2, <2>5, <2>6, <2>7 DEF len, n, r
<1> QED BY <1>5, <1>6

(* strlcat leaves the string that was there and as much of the other as    *)
(* fits behind it.                                                         *)
LEMMA StrlcatCopies ==
  ASSUME NEW m \in Memory, NEW dst \in Addr, NEW src \in Addr, NEW size \in Nat,
         dst + size <= src, dst + strlen(m, dst) < src
  PROVE  LET r   == strlcat(m, dst, src, size)
             d   == strlen(m, dst)
             n   == strlen(m, src)
             len == IF n <= size - d - 1 THEN n ELSE size - d - 1
         IN /\ r.ret = n + d
            /\ size <= d => r.mem = m
            /\ size > d => /\ r.mem \in [Addr -> Nat]
                           /\ IsString(r.mem, dst, d + len)
                           /\ \A i \in 0 .. d - 1 : r.mem[dst + i] = m[dst + i]
                           /\ \A i \in 0 .. len - 1 : r.mem[dst + d + i] = m[src + i]
                           /\ \A a \in Addr \ (dst .. dst + size - 1) : r.mem[a] = m[a]
<1> DEFINE r   == strlcat(m, dst, src, size)
           d   == strlen(m, dst)
           n   == strlen(m, src)
           end == dst + d
           len == IF n <= size - d - 1 THEN n ELSE size - d - 1
           c   == Ended(m, end, src, len)
<1>1. m \in [Addr -> Nat] /\ IsString(m, src, n) /\ IsString(m, dst, d) /\ end < src
  BY MemoryIs, StringAt
<1> HIDE DEF n, d
<1>2. /\ n \in Nat /\ src \in Nat /\ dst \in Nat /\ src + n <= Top
      /\ d \in Nat /\ end \in Nat
  BY <1>1, StringsClientAssumption DEF IsString, Addr
<1>3. Min({n, dst + size - end - 1}) = len
  <2>1. dst + size - end - 1 = size - d - 1 /\ size - d - 1 \in Int
    BY <1>2
  <2> QED BY <1>2, <2>1, MinOfTwo
<1>4. r.ret = n + d /\ r.mem = IF dst + size <= end THEN m ELSE c
  BY <1>3 DEF strlcat, Ended, n, d
<1>5. CASE size <= d
  <2>1. dst + size <= end /\ ~(size > d)
    BY <1>2, <1>5
  <2> QED BY <1>4, <2>1 DEF n, d
<1>6. CASE size > d
  <2>1. /\ len \in Nat /\ end + len < src /\ src + len <= Top /\ len <= n
        /\ d + len < size /\ ~(dst + size <= end) /\ ~(size <= d)
    <3>1. len \in Nat /\ len <= n /\ d + len < size
      BY <1>2, <1>6
    <3> HIDE DEF len, c
    <3> QED BY <1>2, <1>6, <3>1, StringsClientAssumption
  <2> HIDE DEF len
  <2>2. /\ c \in [Addr -> Nat]
        /\ \A i \in 0 .. len - 1 : c[end + i] = m[src + i]
        /\ c[end + len] = 0
        /\ \A a \in Addr \ (end .. end + len) : c[a] = m[a]
    <3> HIDE DEF end
    <3>1. m \in [Addr -> Nat] /\ end \in Nat /\ src \in Nat /\ len \in Nat
          /\ end + len < src /\ src + len <= Top
      BY <1>1, <1>2, <2>1
    <3> HIDE DEF c, r
    <3>2. IsEnded(m, Ended(m, end, src, len), end, src, len)
      BY ONLY <3>1, CopiesText
    <3> QED BY <3>2 DEF c, IsEnded
  <2> HIDE DEF c
  <2>3. \A a \in dst .. end - 1 : a \in Addr /\ c[a] = m[a] /\ c[a] # 0
    <3> SUFFICES ASSUME NEW a \in dst .. end - 1
                 PROVE  a \in Addr /\ c[a] = m[a] /\ c[a] # 0
      OBVIOUS
    <3>1. a \in Addr /\ a \notin end .. end + len
      BY <1>1, <1>2, <2>1, StringsClientAssumption DEF IsString, Addr
    <3> QED BY <1>1, <2>2, <3>1 DEF IsString
  <2>4. \A a \in end .. end + len - 1 : c[a] # 0
    <3> SUFFICES ASSUME NEW a \in end .. end + len - 1 PROVE c[a] # 0
      OBVIOUS
    <3>1. a - end \in 0 .. len - 1 /\ end + (a - end) = a
      BY <1>2, <2>1
    <3>2. src + (a - end) \in src .. src + n - 1
      BY <1>2, <2>1, <3>1
    <3> QED BY <1>1, <2>2, <3>1, <3>2 DEF IsString
  <2>5. IsString(c, dst, d + len)
    <3>1. dst + (d + len) = end + len /\ end + len \in Addr /\ d + len \in Nat
          /\ dst + (d + len) - 1 = end + len - 1
      BY <1>2, <2>1, StringsClientAssumption DEF Addr
    <3> HIDE DEF end
    <3>2. \A a \in dst .. end + len - 1 : c[a] # 0
      <4> SUFFICES ASSUME NEW a \in dst .. end + len - 1 PROVE c[a] # 0
        OBVIOUS
      <4>1. a \in dst .. end - 1 \/ a \in end .. end + len - 1
        BY <1>2, <2>1
      <4> QED BY <2>3, <2>4, <4>1
    <3> QED BY <2>2, <3>1, <3>2 DEF IsString
  <2>6. \A a \in Addr \ (dst .. dst + size - 1) : c[a] = m[a]
    <3>1. \A a \in Addr : a \in end .. end + len => a \in dst .. dst + size - 1
      BY <1>2, <2>1
    <3> QED BY <2>2, <3>1
  <2>7. \A i \in 0 .. d - 1 : c[dst + i] = m[dst + i]
    <3>1. \A i \in 0 .. d - 1 : dst + i \in dst .. end - 1
      BY <1>2
    <3> QED BY <2>3, <3>1
  <2>8. r.mem = c
    BY <1>4, <2>1
  <2> HIDE DEF r
  <2> QED BY <1>4, <1>6, <2>1, <2>2, <2>5, <2>6, <2>7, <2>8 DEF len, n, d, r, end
<1> QED BY <1>2, <1>5, <1>6

(* A string whose characters are the first k of a text. *)
LEMMA PrefixText ==
  ASSUME NEW m \in [Addr -> Nat], NEW s, NEW k, IsString(m, s, k),
         NEW w \in Seq(Nat), k <= Len(w), \A i \in 0 .. k - 1 : m[s + i] = w[i + 1]
  PROVE  Text(m, s) = SubSeq(w, 1, k)
<1>1. k \in Nat /\ s \in Nat
  BY StringsClientAssumption DEF IsString, Addr
<1>2. /\ Text(m, s) \in Seq(Nat) /\ Len(Text(m, s)) = k
      /\ \A i \in 1 .. k : Text(m, s)[i] = m[s + i - 1]
  BY TextOf
<1>3. \A i \in 1 .. k : w[i] \in Nat
  BY <1>1
<1>4. /\ SubSeq(w, 1, k) \in Seq(Nat) /\ Len(SubSeq(w, 1, k)) = k
      /\ \A i \in 1 .. k : SubSeq(w, 1, k)[i] = w[i]
  BY <1>1, <1>3, SubSeqProperties
<1>5. \A i \in 1 .. k : Text(m, s)[i] = w[i]
  <2> SUFFICES ASSUME NEW i \in 1 .. k PROVE Text(m, s)[i] = w[i]
    OBVIOUS
  <2>1. i - 1 \in 0 .. k - 1 /\ s + (i - 1) = s + i - 1 /\ (i - 1) + 1 = i
    BY <1>1
  <2> QED BY <1>2, <2>1
<1> QED BY <1>2, <1>4, <1>5, SeqEqual

(* BoundedCopies of one call, from the memory m to the memory r. *)
CopiedAs(m, r, ret, append, dst, src, size) ==
  LET old   == IF append THEN Text(m, dst) ELSE <<>>
      whole == old \o Text(m, src)
  IN /\ ret = Len(whole)
     /\ \A a \in Addr \ (dst .. dst + size - 1) : r[a] = m[a]
     /\ size > Len(old) => Text(r, dst) = SubSeq(whole, 1, Min({Len(whole), size - 1}))

LEMMA StrlcpyBounded ==
  ASSUME NEW m \in Memory, NEW dst \in Addr, NEW src \in Addr, NEW size \in Nat,
         dst + size <= src
  PROVE  LET c == strlcpy(m, dst, src, size)
         IN CopiedAs(m, c.mem, c.ret, FALSE, dst, src, size)
<1> DEFINE c     == strlcpy(m, dst, src, size)
           r     == c.mem
           n     == strlen(m, src)
           len   == IF n <= size - 1 THEN n ELSE size - 1
           whole == Text(m, src)
<1> SUFFICES CopiedAs(m, r, c.ret, FALSE, dst, src, size)
  OBVIOUS
<1>1. m \in [Addr -> Nat] /\ IsString(m, src, n)
  BY MemoryIs, StringAt
<1>2. /\ c.ret = n
      /\ size = 0 => r = m
      /\ size > 0 => /\ r \in [Addr -> Nat]
                     /\ IsString(r, dst, len)
                     /\ \A i \in 0 .. len - 1 : r[dst + i] = m[src + i]
                     /\ \A a \in Addr \ (dst .. dst + size - 1) : r[a] = m[a]
  BY StrlcpyCopies
<1> HIDE DEF n, c, r
<1>3. /\ whole \in Seq(Nat) /\ Len(whole) = n /\ n \in Nat /\ src \in Nat
      /\ \A i \in 1 .. n : whole[i] = m[src + i - 1]
  BY <1>1, TextIs DEF TextAt
<1> HIDE DEF whole
<1>4. <<>> \o whole = whole
  BY <1>3, ConcatEmptySeq
<1>5. Min({Len(whole), size - 1}) = len
  BY <1>3, MinOfTwo, size - 1 \in Int
<1>6. CASE size = 0
  BY <1>2, <1>3, <1>4, <1>6 DEF CopiedAs, whole
<1>7. CASE size > 0
  <2>1. len \in Nat /\ len <= n
    BY <1>3, <1>7
  <2> HIDE DEF len
  <2>2. \A i \in 0 .. len - 1 : r[dst + i] = whole[i + 1]
    <3> SUFFICES ASSUME NEW i \in 0 .. len - 1 PROVE r[dst + i] = whole[i + 1]
      OBVIOUS
    <3>1. i + 1 \in 1 .. n /\ src + (i + 1) - 1 = src + i
      BY <1>3, <2>1
    <3> QED BY <1>2, <1>3, <1>7, <3>1 DEF len
  <2>3. Text(r, dst) = SubSeq(whole, 1, len)
    <3>1. r \in [Addr -> Nat] /\ IsString(r, dst, len)
      BY <1>2, <1>7 DEF len
    <3>2. whole \in Seq(Nat) /\ len <= Len(whole)
      BY <1>3, <2>1
    <3> QED BY ONLY <2>2, <3>1, <3>2, PrefixText
  <2>4. size > Len(<<>>)
    BY <1>7
  <2>5. /\ c.ret = Len(<<>> \o whole)
        /\ \A a \in Addr \ (dst .. dst + size - 1) : r[a] = m[a]
        /\ Text(r, dst) = SubSeq(<<>> \o whole, 1, Min({Len(<<>> \o whole), size - 1}))
    BY <1>2, <1>3, <1>4, <1>5, <1>7, <2>3
  <2> QED BY <2>4, <2>5, Zenon DEF CopiedAs, whole
<1>8. size = 0 \/ size > 0
  OBVIOUS
<1> QED BY <1>6, <1>7, <1>8, Zenon

LEMMA StrlcatBounded ==
  ASSUME NEW m \in Memory, NEW dst \in Addr, NEW src \in Addr, NEW size \in Nat,
         dst + size <= src, dst + strlen(m, dst) < src
  PROVE  LET c == strlcat(m, dst, src, size)
         IN CopiedAs(m, c.mem, c.ret, TRUE, dst, src, size)
<1> DEFINE c     == strlcat(m, dst, src, size)
           r     == c.mem
           d     == strlen(m, dst)
           n     == strlen(m, src)
           len   == IF n <= size - d - 1 THEN n ELSE size - d - 1
           old   == Text(m, dst)
           tail  == Text(m, src)
           whole == old \o tail
<1> SUFFICES CopiedAs(m, r, c.ret, TRUE, dst, src, size)
  OBVIOUS
<1>1. m \in [Addr -> Nat] /\ IsString(m, src, n) /\ IsString(m, dst, d)
  BY MemoryIs, StringAt
<1>2. /\ c.ret = n + d
      /\ size <= d => r = m
      /\ size > d => /\ r \in [Addr -> Nat]
                     /\ IsString(r, dst, d + len)
                     /\ \A i \in 0 .. d - 1 : r[dst + i] = m[dst + i]
                     /\ \A i \in 0 .. len - 1 : r[dst + d + i] = m[src + i]
                     /\ \A a \in Addr \ (dst .. dst + size - 1) : r[a] = m[a]
  BY StrlcatCopies
<1> HIDE DEF n, d, c, r
<1>3. /\ old \in Seq(Nat) /\ Len(old) = d /\ d \in Nat /\ dst \in Nat
      /\ \A i \in 1 .. d : old[i] = m[dst + i - 1]
  BY <1>1, TextIs DEF TextAt
<1>4. /\ tail \in Seq(Nat) /\ Len(tail) = n /\ n \in Nat /\ src \in Nat
      /\ \A i \in 1 .. n : tail[i] = m[src + i - 1]
  BY <1>1, TextIs DEF TextAt
<1> HIDE DEF old, tail
<1>5. /\ whole \in Seq(Nat) /\ Len(whole) = n + d
      /\ \A i \in 1 .. n + d : whole[i] = IF i <= d THEN old[i] ELSE tail[i - d]
  <2>1. /\ old \o tail \in Seq(Nat)
        /\ Len(old \o tail) = Len(old) + Len(tail)
        /\ \A i \in 1 .. Len(old) + Len(tail) :
             (old \o tail)[i] = IF i <= Len(old) THEN old[i] ELSE tail[i - Len(old)]
    BY <1>3, <1>4, ConcatProperties
  <2>2. Len(old) + Len(tail) = n + d
    BY <1>3, <1>4
  <2> QED BY <1>3, <2>1, <2>2
<1> HIDE DEF whole
<1>6. CASE size <= d
  <2>1. ~(size > Len(old))
    BY <1>3, <1>6
  <2> QED BY <1>2, <1>5, <1>6, <2>1 DEF CopiedAs, whole, old, tail
<1>7. CASE size > d
  <2>1. len \in Nat /\ len <= n /\ size > Len(old)
    BY <1>3, <1>4, <1>7
  <2>2. Min({Len(whole), size - 1}) = d + len
    <3>1. Len(whole) \in Int /\ size - 1 \in Int
      BY <1>3, <1>4, <1>5
    <3>2. Min({Len(whole), size - 1}) = IF Len(whole) <= size - 1 THEN Len(whole) ELSE size - 1
      BY <3>1, MinOfTwo
    <3> QED BY <1>3, <1>4, <1>5, <3>2
  <2>3. /\ r \in [Addr -> Nat]
        /\ IsString(r, dst, d + len)
        /\ \A i \in 0 .. d - 1 : r[dst + i] = m[dst + i]
        /\ \A i \in 0 .. len - 1 : r[dst + d + i] = m[src + i]
        /\ \A a \in Addr \ (dst .. dst + size - 1) : r[a] = m[a]
    BY <1>2, <1>7
  <2> HIDE DEF len
  <2>4. ASSUME NEW i \in 0 .. d + len - 1 PROVE r[dst + i] = whole[i + 1]
    <3>0. i + 1 \in 1 .. n + d
      BY <1>3, <1>4, <2>1
    <3>1. CASE i < d
      <4>1. i \in 0 .. d - 1 /\ i + 1 \in 1 .. d /\ dst + (i + 1) - 1 = dst + i /\ i + 1 <= d
        BY <1>3, <3>1
      <4>2. r[dst + i] = m[dst + i]
        BY <2>3, <4>1
      <4>3. whole[i + 1] = old[i + 1]
        BY <1>5, <3>0, <4>1
      <4>4. old[i + 1] = m[dst + i]
        <5>1. old[i + 1] = m[dst + (i + 1) - 1]
          BY <1>3, <4>1
        <5> QED BY <4>1, <5>1
      <4> QED BY <4>2, <4>3, <4>4
    <3>2. CASE ~(i < d)
      <4>1. /\ i - d \in 0 .. len - 1 /\ dst + d + (i - d) = dst + i
            /\ (i + 1) - d \in 1 .. n /\ src + ((i + 1) - d) - 1 = src + (i - d)
            /\ ~(i + 1 <= d)
        BY <1>3, <1>4, <2>1, <3>2
      <4>2. r[dst + i] = m[src + (i - d)]
        BY <2>3, <4>1
      <4>3. whole[i + 1] = tail[(i + 1) - d]
        BY <1>5, <3>0, <4>1
      <4>4. tail[(i + 1) - d] = m[src + (i - d)]
        BY <1>4, <4>1
      <4> QED BY <4>2, <4>3, <4>4
    <3> QED BY <3>1, <3>2
  <2>5. Text(r, dst) = SubSeq(whole, 1, d + len)
    <3>1. d + len <= Len(whole)
      BY <1>3, <1>4, <1>5, <2>1
    <3>2. r \in [Addr -> Nat] /\ IsString(r, dst, d + len) /\ whole \in Seq(Nat)
      BY <1>5, <2>3
    <3>3. PICK k : k = d + len
      OBVIOUS
    <3>4. \A i \in 0 .. k - 1 : r[dst + i] = whole[i + 1]
      <4> SUFFICES ASSUME NEW i \in 0 .. k - 1 PROVE r[dst + i] = whole[i + 1]
        OBVIOUS
      <4>1. i \in 0 .. d + len - 1
        BY <1>3, <2>1, <3>3
      <4> QED BY <2>4, <4>1
    <3>5. /\ r \in [Addr -> Nat] /\ IsString(r, dst, k) /\ whole \in Seq(Nat)
          /\ k <= Len(whole) /\ \A i \in 0 .. k - 1 : r[dst + i] = whole[i + 1]
      BY <3>1, <3>2, <3>3, <3>4, Zenon
    <3>6. PICK w : w = whole
      OBVIOUS
    <3>7. Text(r, dst) = SubSeq(w, 1, k)
      BY ONLY <3>5, <3>6, PrefixText
    <3> QED BY <3>3, <3>6, <3>7, Zenon
  <2> QED BY <1>2, <1>5, <2>1, <2>2, <2>3, <2>5 DEF CopiedAs, whole, old, tail
<1>8. size <= d \/ size > d
  BY <1>3
<1> QED BY <1>6, <1>7, <1>8, Zenon

(* A string that has been copied is as BoundedCopies wants it. *)
LEMMA BoundedCopiesNext ==
  ASSUME CallInv, BoundedCopies, [StringsNext]_stringVars
  PROVE  BoundedCopies'
<1>1. CASE Copy
  <2>1. PICK dst \in Addr, src \in Addr, size \in 0 .. Top + 1, append \in BOOLEAN :
          LET r == IF append THEN strlcat(mem, dst, src, size)
                             ELSE strlcpy(mem, dst, src, size)
          IN /\ dst + size <= src /\ dst + strlen(mem, dst) < src
             /\ mem' = r.mem
             /\ call' = [op |-> "copied", append |-> append, dst |-> dst,
                         src |-> src, size |-> size, ret |-> r.ret]
    BY <1>1, Zenon DEF Copy
  <2>2. PICK m, c :
          /\ m = mem
          /\ c = IF append THEN strlcat(m, dst, src, size) ELSE strlcpy(m, dst, src, size)
    OBVIOUS
  <2>3. /\ m = mem /\ dst + size <= src /\ dst + strlen(m, dst) < src
        /\ mem' = c.mem
        /\ call' = [op |-> "copied", append |-> append, dst |-> dst,
                    src |-> src, size |-> size, ret |-> c.ret]
    BY ONLY <2>1, <2>2, Zenon
  <2>4. m \in Memory /\ before' = m
    <3>1. call = Start("copy") /\ before' = before
      BY <1>1 DEF Copy
    <3> QED BY <2>3, <3>1 DEF CallInv, Starts
  <2>5. size \in Nat
    BY StringsClientAssumption
  <2>6. CopiedAs(m, c.mem, c.ret, append, dst, src, size)
    <3>1. CASE append = TRUE
      <4>1. dst \in Addr /\ src \in Addr /\ dst + size <= src /\ dst + strlen(m, dst) < src
        BY <2>3
      <4>2. LET k == strlcat(m, dst, src, size)
            IN CopiedAs(m, k.mem, k.ret, TRUE, dst, src, size)
        BY ONLY <2>4, <2>5, <4>1, StrlcatBounded
      <4> QED BY <2>2, <3>1, <4>2, Zenon
    <3>2. CASE append = FALSE
      <4>1. dst \in Addr /\ src \in Addr /\ dst + size <= src
        BY <2>3
      <4>2. LET k == strlcpy(m, dst, src, size)
            IN CopiedAs(m, k.mem, k.ret, FALSE, dst, src, size)
        BY ONLY <2>4, <2>5, <4>1, StrlcpyBounded
      <4> QED BY <2>2, <3>2, <4>2, Zenon
    <3> QED BY <3>1, <3>2
  <2>7. /\ call'.op = "copied" /\ call'.append = append /\ call'.dst = dst
        /\ call'.src = src /\ call'.size = size /\ call'.ret = c.ret
    BY <2>3
  <2>8. CopiedAs(before', mem', call'.ret, call'.append, call'.dst, call'.src, call'.size)
    BY <2>3, <2>4, <2>6, <2>7, Zenon
  <2> QED BY <2>8, Zenon DEF CopiedAs, BoundedCopies
<1>2. ASSUME call'.op # "copied" PROVE BoundedCopies'
  BY <1>2 DEF BoundedCopies
<1>3. CASE Move
  BY <1>2, <1>3 DEF Move
<1>4. CASE Fill
  BY <1>2, <1>4 DEF Fill
<1>5. CASE Tokenize
  <2>1. call'.op \in {"tokens", "no_tokens"}
    BY <1>5, TokenizeCall
  <2> QED BY <1>2, <2>1
<1>6. CASE UNCHANGED stringVars
  <2>1. mem' = mem /\ before' = before /\ call' = call
    BY <1>6 DEF stringVars
  <2>2. ASSUME call.op = "copied"
        PROVE  CopiedAs(before, mem, call.ret, call.append, call.dst, call.src, call.size)
    BY <2>2, Zenon DEF BoundedCopies, CopiedAs
  <2>3. ASSUME call'.op = "copied"
        PROVE  CopiedAs(before', mem', call'.ret, call'.append, call'.dst, call'.src, call'.size)
    BY <2>1, <2>2, <2>3, Zenon
  <2> QED BY <2>3, Zenon DEF BoundedCopies, CopiedAs
<1> QED BY <1>1, <1>3, <1>4, <1>5, <1>6 DEF StringsNext

---------------------------------------------------------------------------
(* Searches. *)

(* A loop stops at the first of the places there are. *)
LEMMA FirstOfIs ==
  ASSUME NEW S \in SUBSET Nat, NEW otherwise
  PROVE  /\ S = {} => FirstOf(S, otherwise) = otherwise
         /\ S # {} => /\ FirstOf(S, otherwise) \in S
                      /\ \A a \in S : FirstOf(S, otherwise) <= a
<1>1. CASE S = {}
  BY <1>1 DEF FirstOf
<1>2. CASE S # {}
  <2>1. Min(S) \in S /\ \A a \in S : Min(S) <= a
    BY <1>2, MinIsLeast
  <2>2. FirstOf(S, otherwise) = Min(S)
    BY <1>2, Zenon DEF FirstOf
  <2> QED BY <1>2, <2>1, <2>2
<1> QED BY <1>1, <1>2

(* The greatest of a set of naturals below a bound is the one Max picks. *)
LEMMA MaxIsGreatest ==
  ASSUME NEW n \in Nat, NEW S \in SUBSET (0 .. n), S # {}
  PROVE  Max(S) \in S /\ \A a \in S : a <= Max(S)
<1> DEFINE T == {n - a : a \in S}
<1>1. T \in SUBSET Nat /\ T # {}
  <2>1. PICK e \in S : TRUE
    OBVIOUS
  <2>2. n - e \in T
    BY <2>1
  <2>3. \A a \in S : n - a \in Nat
    OBVIOUS
  <2> QED BY <2>2, <2>3
<1>2. Min(T) \in T /\ \A b \in T : Min(T) <= b
  BY <1>1, MinIsLeast
<1>3. PICK x \in S : \A b \in T : n - x <= b
  BY <1>2
<1>4. \A a \in S : x >= a
  <2> SUFFICES ASSUME NEW a \in S PROVE x >= a
    OBVIOUS
  <2>1. n - x <= n - a
    BY <1>3
  <2> QED BY <2>1
<1>5. \E y \in S : \A a \in S : y >= a
  BY <1>4
<1>6. Max(S) \in S /\ \A a \in S : Max(S) >= a
  BY <1>5 DEF Max
<1> QED BY <1>6

(* What is known of the string at an address. *)
LEMMA At ==
  ASSUME NEW m \in Memory, NEW s \in Addr, NEW n, n = strlen(m, s)
  PROVE  /\ m \in [Addr -> Nat] /\ IsString(m, s, n)
         /\ n \in Nat /\ s \in Nat /\ s + n \in Addr /\ s + n <= Top
         /\ Chars(m, s) = s .. s + n - 1
         /\ \A a \in s .. s + n - 1 : a \in Addr /\ a \in Nat /\ m[a] # 0
         /\ m[s + n] = 0
<1>1. m \in [Addr -> Nat] /\ IsString(m, s, n)
  BY MemoryIs, StringAt
<1>2. n \in Nat /\ s \in Nat /\ s + n \in Addr /\ s + n <= Top /\ m[s + n] = 0
      /\ \A a \in s .. s + n - 1 : m[a] # 0
  BY <1>1, StringsClientAssumption DEF IsString, Addr
<1>3. \A a \in s .. s + n - 1 : a \in Addr /\ a \in Nat
  BY <1>2, StringsClientAssumption DEF Addr
<1>4. Chars(m, s) = s .. s + n - 1
  BY DEF Chars
<1> QED BY <1>1, <1>2, <1>3, <1>4

(* The rest of a string is a string. *)
LEMMA RestOf ==
  ASSUME NEW m \in [Addr -> Nat], NEW s, NEW n, IsString(m, s, n), NEW a \in s .. s + n
  PROVE  IsString(m, a, s + n - a) /\ strlen(m, a) = s + n - a
<1>1. n \in Nat /\ s \in Nat /\ s + n \in Addr /\ s + n <= Top
  BY StringsClientAssumption DEF IsString, Addr
<1>2. a \in Addr /\ s + n - a \in Nat /\ a + (s + n - a) = s + n
  BY <1>1, StringsClientAssumption DEF Addr
<1>3. \A b \in a .. s + n - 1 : b \in s .. s + n - 1
  BY <1>1
<1>4. IsString(m, a, s + n - a)
  <2>1. a + (s + n - a) - 1 = s + n - 1
    BY <1>1
  <2> QED BY <1>2, <1>3, <2>1 DEF IsString
<1> QED BY <1>4, StrlenIs

(* The set of the characters of a string. *)
LEMMA CharSet ==
  ASSUME NEW m \in Memory, NEW s \in Addr
  PROVE  /\ \A x : x \in ToSet(Text(m, s)) <=> \E a \in Chars(m, s) : m[a] = x
         /\ 0 \notin ToSet(Text(m, s))
<1> DEFINE t == Text(m, s)
<1>1. PICK n : n = strlen(m, s)
  OBVIOUS
<1>2. /\ m \in [Addr -> Nat] /\ IsString(m, s, n)
      /\ n \in Nat /\ s \in Nat /\ Chars(m, s) = s .. s + n - 1
      /\ \A a \in s .. s + n - 1 : m[a] # 0
  BY <1>1, At
<1>3. Len(t) = n /\ t \in Seq(Nat) /\ \A i \in 1 .. n : t[i] = m[s + i - 1]
  <2>1. TextAt(t, m, s, n)
    BY <1>2, TextIs
  <2> HIDE DEF t
  <2> QED BY <2>1 DEF TextAt
<1> HIDE DEF t
<1>4. ToSet(t) = {t[i] : i \in 1 .. n}
  <2>1. DOMAIN t = 1 .. n
    BY <1>3
  <2> QED BY <2>1, Zenon DEF ToSet
<1>5. ASSUME NEW x, x \in ToSet(t) PROVE \E a \in Chars(m, s) : m[a] = x
  <2>1. PICK i \in 1 .. n : x = t[i]
    BY <1>4, <1>5
  <2>2. s + i - 1 \in s .. s + n - 1
    BY <1>2
  <2> QED BY <1>2, <1>3, <2>1, <2>2
<1>6. ASSUME NEW a \in Chars(m, s) PROVE m[a] \in ToSet(t)
  <2>1. a - s + 1 \in 1 .. n /\ s + (a - s + 1) - 1 = a
    BY <1>2
  <2>2. t[a - s + 1] = m[a]
    BY <1>3, <2>1
  <2> QED BY <1>4, <2>1, <2>2
<1>7. 0 \notin ToSet(t)
  BY <1>2, <1>5
<1> QED BY <1>5, <1>6, <1>7 DEF t

(* strchr finds a character if it is in the string, the null byte at its end.*)
LEMMA StrchrFinds ==
  ASSUME NEW m \in Memory, NEW s \in Addr, NEW c
  PROVE  strchr(m, s, c) = NULL <=> c # 0 /\ c \notin ToSet(Text(m, s))
<1>1. PICK n : n = strlen(m, s)
  OBVIOUS
<1>2. /\ n \in Nat /\ s \in Nat /\ Chars(m, s) = s .. s + n - 1 /\ m[s + n] = 0
  BY <1>1, At
<1> DEFINE S == {a \in (s .. s + n - 1) \cup {s + n} : m[a] = c}
<1>3. strchr(m, s, c) = FirstOf(S, NULL)
  BY <1>1, <1>2 DEF strchr
<1>4. S \in SUBSET Nat
  BY <1>2
<1>5. S = {} <=> c # 0 /\ c \notin ToSet(Text(m, s))
  BY <1>2, CharSet
<1>6. CASE S = {}
  <2>1. FirstOf(S, NULL) = NULL
    BY <1>6 DEF FirstOf
  <2> QED BY <1>3, <1>5, <1>6, <2>1
<1>7. CASE S # {}
  <2>1. FirstOf(S, NULL) \in S
    BY <1>4, <1>7, FirstOfIs
  <2> HIDE DEF S
  <2>2. FirstOf(S, NULL) # NULL
    BY <1>4, <2>1, StringsAssumption
  <2> QED BY <1>3, <1>5, <1>7, <2>2
<1> QED BY <1>6, <1>7

(* Where the first character of s is that is in the string t, or is not.   *)
LEMMA SpansStop ==
  ASSUME NEW m \in Memory, NEW s \in Addr, NEW t \in Addr
  PROVE  /\ SpansEnd(m, s, t)
         /\ strspn(m, s, t) \in 0 .. strlen(m, s) /\ strcspn(m, s, t) \in 0 .. strlen(m, s)
<1>1. PICK n, chars, stop, skipped :
        /\ n = strlen(m, s) /\ chars = ToSet(Text(m, t))
        /\ stop = s + strcspn(m, s, t) /\ skipped = s + strspn(m, s, t)
  OBVIOUS
<1>2. /\ n \in Nat /\ s \in Nat /\ Chars(m, s) = s .. s + n - 1 /\ m[s + n] = 0
      /\ \A a \in s .. s + n - 1 : m[a] # 0
  BY <1>1, At
<1> DEFINE In  == {a \in Chars(m, s) : strchr(m, t, m[a]) # NULL}
           Out == {a \in Chars(m, s) : strchr(m, t, m[a]) = NULL}
<1>3. /\ \A a : a \in In <=> a \in s .. s + n - 1 /\ m[a] \in chars
      /\ \A a : a \in Out <=> a \in s .. s + n - 1 /\ m[a] \notin chars
  BY <1>1, <1>2, StrchrFinds
<1>4. In \in SUBSET Nat /\ Out \in SUBSET Nat /\ 0 \notin chars
  BY <1>1, <1>2, CharSet
<1>5. /\ stop = s + (FirstOf(In, s + n) - s) /\ skipped = s + (FirstOf(Out, s + n) - s)
      /\ strpbrk(m, s, t) = FirstOf(In, NULL)
  BY <1>1 DEF strcspn, strspn, strpbrk
<1> HIDE DEF In, Out
<1>6. /\ m[stop] \in chars \cup {0}
      /\ \A a \in s .. stop - 1 : m[a] \notin chars
      /\ strpbrk(m, s, t) = IF m[stop] = 0 THEN NULL ELSE stop
  <2>1. CASE In = {}
    <3>1. stop = s + n /\ strpbrk(m, s, t) = NULL
      BY <1>2, <1>5, <2>1 DEF FirstOf
    <3> QED BY <1>2, <1>3, <2>1, <3>1
  <2>2. CASE In # {}
    <3>1. /\ FirstOf(In, s + n) \in In /\ \A a \in In : FirstOf(In, s + n) <= a
          /\ FirstOf(In, NULL) = FirstOf(In, s + n)
      <4>1. FirstOf(In, NULL) = FirstOf(In, s + n)
        BY <2>2 DEF FirstOf
      <4> QED BY <1>4, <2>2, <4>1, FirstOfIs
    <3>2. FirstOf(In, s + n) \in Nat
      BY <1>4, <3>1
    <3>3. stop = FirstOf(In, s + n)
      BY <1>2, <1>5, <3>2
    <3>4. stop \in s .. s + n - 1 /\ m[stop] \in chars /\ strpbrk(m, s, t) = stop
      BY <1>3, <1>5, <3>1, <3>3
    <3>5. \A a \in s .. stop - 1 : a \notin In /\ a \in s .. s + n - 1
      BY <1>2, <3>1, <3>3, <3>4
    <3> QED BY <1>2, <1>3, <3>4, <3>5
  <2> QED BY <2>1, <2>2
<1>7. /\ m[skipped] \notin chars
      /\ \A a \in s .. skipped - 1 : m[a] \in chars
  <2>1. CASE Out = {}
    <3>1. skipped = s + n
      BY <1>2, <1>5, <2>1 DEF FirstOf
    <3> QED BY <1>2, <1>3, <1>4, <2>1, <3>1
  <2>2. CASE Out # {}
    <3>1. FirstOf(Out, s + n) \in Out /\ \A a \in Out : FirstOf(Out, s + n) <= a
      BY <1>4, <2>2, FirstOfIs
    <3>2. FirstOf(Out, s + n) \in Nat
      BY <1>4, <3>1
    <3>3. skipped = FirstOf(Out, s + n)
      BY <1>2, <1>5, <3>2
    <3>4. skipped \in s .. s + n - 1 /\ m[skipped] \notin chars
      BY <1>3, <3>1, <3>3
    <3>5. \A a \in s .. skipped - 1 : a \notin Out /\ a \in s .. s + n - 1
      BY <1>2, <3>1, <3>3, <3>4
    <3> QED BY <1>3, <3>4, <3>5
  <2> QED BY <2>1, <2>2
<1>8. SpansEnd(m, s, t)
  BY <1>1, <1>6, <1>7, Zenon DEF SpansEnd
<1>9. stop \in s .. s + n /\ skipped \in s .. s + n
  <2>1. FirstOf(In, s + n) \in s .. s + n
    <3>1. CASE In = {}
      BY <1>2, <3>1 DEF FirstOf
    <3>2. CASE In # {}
      BY <1>2, <1>3, <1>4, <3>2, FirstOfIs
    <3> QED BY <3>1, <3>2
  <2>2. FirstOf(Out, s + n) \in s .. s + n
    <3>1. CASE Out = {}
      BY <1>2, <3>1 DEF FirstOf
    <3>2. CASE Out # {}
      BY <1>2, <1>3, <1>4, <3>2, FirstOfIs
    <3> QED BY <3>1, <3>2
  <2> QED BY <1>2, <1>5, <2>1, <2>2
<1>10. strcspn(m, s, t) = FirstOf(In, s + n) - s /\ strspn(m, s, t) = FirstOf(Out, s + n) - s
  BY <1>1 DEF strcspn, strspn, In, Out
<1>11. strspn(m, s, t) \in Int /\ strcspn(m, s, t) \in Int
  <2>1. FirstOf(In, s + n) \in Nat
    <3>1. CASE In = {}
      BY <1>2, <3>1 DEF FirstOf
    <3>2. CASE In # {}
      BY <1>4, <3>2, FirstOfIs
    <3> QED BY <3>1, <3>2
  <2>2. FirstOf(Out, s + n) \in Nat
    <3>1. CASE Out = {}
      BY <1>2, <3>1 DEF FirstOf
    <3>2. CASE Out # {}
      BY <1>4, <3>2, FirstOfIs
    <3> QED BY <3>1, <3>2
  <2> QED BY <1>2, <1>10, <2>1, <2>2
<1>12. strspn(m, s, t) \in 0 .. n /\ strcspn(m, s, t) \in 0 .. n
  BY ONLY <1>1, <1>2, <1>9, <1>11
<1> QED BY <1>1, <1>8, <1>12, Zenon

(* strrchr finds the last place of a character, or strchr finds none. *)
LEMMA StrrchrLast ==
  ASSUME NEW m \in Memory, NEW s \in Addr, NEW c \in Byte
  PROVE  LastFound(m, s, c)
<1>1. PICK n, last : n = strlen(m, s) /\ last = strrchr(m, s, c)
  OBVIOUS
<1>2. /\ m \in [Addr -> Nat] /\ IsString(m, s, n)
      /\ n \in Nat /\ s \in Nat /\ Chars(m, s) = s .. s + n - 1 /\ m[s + n] = 0
      /\ s + n \in Addr /\ s + n <= Top /\ Top \in Nat /\ c # 0
  BY <1>1, At, StringsClientAssumption
<1> DEFINE S == {a \in Chars(m, s) : m[a] = c}
<1>3. last = IF S = {} THEN NULL ELSE Max(S)
  BY <1>1 DEF strrchr
<1>4. S \in SUBSET (0 .. Top) /\ \A a : a \in S <=> a \in s .. s + n - 1 /\ m[a] = c
  BY <1>2
<1> HIDE DEF S
<1>5. CASE S = {}
  <2>1. c \notin ToSet(Text(m, s))
    BY <1>2, <1>4, <1>5, CharSet
  <2>2. strchr(m, s, c) = NULL /\ last = NULL
    BY <1>2, <1>3, <1>5, <2>1, StrchrFinds
  <2> QED BY <1>1, <2>2, Zenon DEF LastFound
<1>6. CASE S # {}
  <2>1. last \in S /\ \A a \in S : a <= last
    BY <1>2, <1>3, <1>4, <1>6, MaxIsGreatest
  <2>2. last \in s .. s + n - 1 /\ m[last] = c /\ last \in Nat /\ last # NULL
    BY <1>2, <1>4, <2>1, StringsAssumption
  <2>3. PICK next : next = last + 1
    OBVIOUS
  <2>4. next \in s .. s + n /\ next \in Addr
    BY <1>2, <2>2, <2>3, StringsClientAssumption DEF Addr
  <2>5. strlen(m, next) = s + n - next
    <3>1. m \in [Addr -> Nat] /\ IsString(m, s, n)
      BY <1>2
    <3>2. next \in s .. s + n
      BY <2>4
    <3>3. IsString(m, next, s + n - next) /\ strlen(m, next) = s + n - next
      BY ONLY <3>1, <3>2, RestOf
    <3> QED BY <3>3
  <2>6. Chars(m, next) = next .. s + n - 1
    <3>1. next + (s + n - next) - 1 = s + n - 1
      BY <1>2, <2>4
    <3> QED BY <2>5, <3>1 DEF Chars
  <2>7. \A a \in Chars(m, next) : m[a] # c
    <3>1. \A a \in next .. s + n - 1 : a \in s .. s + n - 1 /\ ~(a <= last)
      BY <1>2, <2>2, <2>3, <2>4
    <3> QED BY <1>4, <2>1, <2>6, <3>1
  <2>8. c \notin ToSet(Text(m, next))
    BY <2>4, <2>7, CharSet
  <2>9. strchr(m, next, c) = NULL
    BY <1>2, <2>4, <2>8, StrchrFinds
  <2> QED BY <1>1, <2>2, <2>3, <2>9, Zenon DEF LastFound
<1> QED BY <1>5, <1>6

(* strchr looks at the bytes memchr does. *)
LEMMA StrchrIsMemchr ==
  ASSUME NEW m \in Memory, NEW s \in Addr, NEW c
  PROVE  strchr(m, s, c) = memchr(m, s, c, strlen(m, s) + 1)
<1>1. PICK n : n = strlen(m, s)
  OBVIOUS
<1>2. n \in Nat /\ s \in Nat /\ Chars(m, s) = s .. s + n - 1
  BY <1>1, At
<1>3. (s .. s + n - 1) \cup {s + n} = s .. s + (n + 1) - 1
  BY <1>2
<1>4. strchr(m, s, c) = FirstOf({a \in (s .. s + n - 1) \cup {s + n} : m[a] = c}, NULL)
  BY <1>1, <1>2 DEF strchr
<1>5. memchr(m, s, c, n + 1) = FirstOf({a \in s .. s + (n + 1) - 1 : m[a] = c}, NULL)
  BY DEF memchr
<1> QED BY <1>1, <1>3, <1>4, <1>5

(* strnlen is strlen up to its bound. *)
LEMMA StrnlenBounded ==
  ASSUME NEW m \in Memory, NEW s \in Addr, NEW k \in Nat
  PROVE  strnlen(m, s, k) = Min({strlen(m, s), k})
<1>1. PICK n : n = strlen(m, s)
  OBVIOUS
<1>2. /\ n \in Nat /\ s \in Nat /\ m[s + n] = 0 /\ s + n \in Addr
      /\ \A a \in s .. s + n - 1 : m[a] # 0
      /\ DOMAIN m = Addr
  BY <1>1, At
<1> DEFINE S == {i \in 0 .. k - 1 : s + i \in DOMAIN m /\ m[s + i] = 0}
<1>3. strnlen(m, s, k) = FirstOf(S, k)
  BY DEF strnlen
<1>4. S \in SUBSET Nat
  OBVIOUS
<1>5. \A i \in S : i >= n
  <2> SUFFICES ASSUME NEW i \in S, i < n PROVE FALSE
    BY <1>2
  <2>1. s + i \in s .. s + n - 1
    BY <1>2
  <2> QED BY <1>2, <2>1
<1>6. Min({n, k}) = IF n <= k THEN n ELSE k
  BY <1>2, MinOfTwo
<1>7. CASE k <= n
  <2>1. S = {}
    BY <1>2, <1>5, <1>7
  <2>2. FirstOf(S, k) = k
    BY <2>1 DEF FirstOf
  <2> QED BY <1>1, <1>2, <1>3, <1>6, <1>7, <2>2
<1>8. CASE n < k
  <2>1. n \in S
    BY <1>2, <1>8
  <2>2. FirstOf(S, k) \in S /\ FirstOf(S, k) <= n
    BY <1>4, <2>1, FirstOfIs
  <2> HIDE DEF S
  <2>3. FirstOf(S, k) \in Nat /\ FirstOf(S, k) >= n
    BY <1>4, <1>5, <2>2
  <2>4. FirstOf(S, k) = n
    BY <1>2, <2>2, <2>3
  <2> QED BY <1>1, <1>2, <1>3, <1>6, <1>8, <2>4
<1> QED BY <1>2, <1>7, <1>8

(* Two blocks are the same if all their bytes are; otherwise memcmp gives  *)
(* the order of the first two that differ.                                 *)
LEMMA MemcmpIs ==
  ASSUME NEW m, NEW a, NEW b, NEW size \in Nat,
         \A i \in 0 .. size - 1 : m[a + i] \in Int /\ m[b + i] \in Int
  PROVE  /\ (\A i \in 0 .. size - 1 : m[a + i] = m[b + i]) => memcmp(m, a, b, size) = 0
         /\ \A i \in 0 .. size - 1 :
              m[a + i] # m[b + i] /\ (\A j \in 0 .. i - 1 : m[a + j] = m[b + j])
                => /\ memcmp(m, a, b, size) = Order(m[a + i], m[b + i])
                   /\ memcmp(m, a, b, size) # 0
         /\ memcmp(m, a, b, size) = 0 => \A i \in 0 .. size - 1 : m[a + i] = m[b + i]
<1> DEFINE D == {j \in 0 .. size - 1 : m[a + j] # m[b + j]}
           first == FirstOf(D, size)
<1>1. memcmp(m, a, b, size) = IF first = size THEN 0 ELSE Order(m[a + first], m[b + first])
  BY DEF memcmp
<1>2. D \in SUBSET Nat
  OBVIOUS
<1>3. /\ D = {} => first = size
      /\ D # {} => first \in D /\ \A j \in D : first <= j
  BY <1>2, FirstOfIs
<1>4. \A j : j \in D <=> j \in 0 .. size - 1 /\ m[a + j] # m[b + j]
  OBVIOUS
<1> HIDE DEF D, first
<1>5. ASSUME D # {}
      PROVE  /\ memcmp(m, a, b, size) = Order(m[a + first], m[b + first])
             /\ memcmp(m, a, b, size) # 0
  <2>1. first \in 0 .. size - 1 /\ m[a + first] # m[b + first]
    BY <1>3, <1>4, <1>5
  <2>2. memcmp(m, a, b, size) = Order(m[a + first], m[b + first])
    BY <1>1, <2>1
  <2>3. Order(m[a + first], m[b + first]) # 0
    BY <2>1 DEF Order
  <2> QED BY <2>2, <2>3
<1>6. (\A i \in 0 .. size - 1 : m[a + i] = m[b + i]) => memcmp(m, a, b, size) = 0
  BY <1>1, <1>3, <1>4
<1>7. ASSUME NEW i \in 0 .. size - 1, m[a + i] # m[b + i],
             \A j \in 0 .. i - 1 : m[a + j] = m[b + j]
      PROVE  /\ memcmp(m, a, b, size) = Order(m[a + i], m[b + i])
             /\ memcmp(m, a, b, size) # 0
  <2>1. i \in D
    BY <1>4, <1>7
  <2>2. first \in 0 .. size - 1 /\ first <= i /\ m[a + first] # m[b + first]
    BY <1>3, <1>4, <2>1
  <2>3. ~(first < i)
    BY <1>7, <2>2
  <2>4. first = i
    BY <2>2, <2>3
  <2> QED BY <1>5, <2>1, <2>4
<1>8. memcmp(m, a, b, size) = 0 => \A i \in 0 .. size - 1 : m[a + i] = m[b + i]
  BY <1>4, <1>5
<1> QED BY <1>6, <1>7, <1>8

(* The offset at which strcmp stops: the first one at which either string  *)
(* ends or they differ.                                                    *)
StopsAt(m, a, b, i) ==
  /\ i \in Nat /\ i <= strlen(m, a) /\ i <= strlen(m, b)
  /\ m[a + i] = 0 \/ m[a + i] # m[b + i]
  /\ \A j \in 0 .. i - 1 : m[a + j] # 0 /\ m[a + j] = m[b + j]

LEMMA StrcmpStops ==
  ASSUME NEW m \in Memory, NEW a \in Addr, NEW b \in Addr
  PROVE  \E i : StopsAt(m, a, b, i) /\ strcmp(m, a, b) = Order(m[a + i], m[b + i])
<1>1. PICK n, k, least : n = strlen(m, a) /\ k = strlen(m, b)
                         /\ least = IF n <= k THEN n ELSE k
  OBVIOUS
<1>2. /\ n \in Nat /\ a \in Nat /\ m[a + n] = 0
      /\ \A c \in a .. a + n - 1 : m[c] # 0
  BY <1>1, At
<1>3. /\ k \in Nat /\ b \in Nat /\ m[b + k] = 0
      /\ \A c \in b .. b + k - 1 : m[c] # 0
  BY <1>1, At
<1>4. Min({n, k}) = least /\ least \in Nat /\ least <= n /\ least <= k
  BY <1>1, <1>2, <1>3, MinOfTwo
<1> DEFINE S == {j \in 0 .. least : m[a + j] = 0 \/ m[a + j] # m[b + j]}
<1>5. strcmp(m, a, b) = Order(m[a + Min(S)], m[b + Min(S)])
  BY <1>1, <1>4 DEF strcmp
<1>6. least \in S
  <2>1. CASE n <= k
    BY <1>1, <1>2, <1>4, <2>1
  <2>2. CASE ~(n <= k)
    <3>1. least = k /\ b + k \in Nat /\ a + k \in a .. a + n - 1
      BY <1>1, <1>2, <1>3, <2>2
    <3>2. m[a + k] # m[b + k]
      BY <1>2, <1>3, <3>1
    <3> QED BY <1>4, <3>1, <3>2
  <2> QED BY <2>1, <2>2
<1>7. S \in SUBSET Nat
  BY <1>4
<1>8. Min(S) \in S /\ \A j \in S : Min(S) <= j
  BY <1>6, <1>7, MinIsLeast
<1>9. PICK i : i = Min(S)
  OBVIOUS
<1>10. /\ i \in 0 .. least /\ (m[a + i] = 0 \/ m[a + i] # m[b + i])
       /\ \A j \in 0 .. least : (m[a + j] = 0 \/ m[a + j] # m[b + j]) => i <= j
  BY <1>8, <1>9
<1>11. \A j \in 0 .. i - 1 : m[a + j] # 0 /\ m[a + j] = m[b + j]
  BY <1>4, <1>10
<1>12. StopsAt(m, a, b, i)
  BY <1>1, <1>4, <1>10, <1>11 DEF StopsAt
<1> QED BY <1>5, <1>9, <1>12

(* There is no other such offset. *)
LEMMA StopsOnce ==
  ASSUME NEW m \in Memory, NEW a \in Addr, NEW b \in Addr,
         NEW i, NEW j, StopsAt(m, a, b, i), StopsAt(m, b, a, j)
  PROVE  i = j
<1>1. i \in Nat /\ j \in Nat
  BY DEF StopsAt
<1>2. ~(i < j)
  <2> SUFFICES ASSUME i < j PROVE FALSE
    OBVIOUS
  <2>1. i \in 0 .. j - 1
    BY <1>1
  <2> QED BY <2>1 DEF StopsAt
<1>3. ~(j < i)
  <2> SUFFICES ASSUME j < i PROVE FALSE
    OBVIOUS
  <2>1. j \in 0 .. i - 1
    BY <1>1
  <2> QED BY <2>1 DEF StopsAt
<1> QED BY <1>1, <1>2, <1>3

(* The bytes that strcmp compares are numbers. *)
LEMMA BytesAreNumbers ==
  ASSUME NEW m \in Memory, NEW a \in Addr, NEW i \in Nat, i <= strlen(m, a)
  PROVE  a + i \in Addr /\ m[a + i] \in Nat
<1>1. PICK n : n = strlen(m, a)
  OBVIOUS
<1>2. n \in Nat /\ a \in Nat /\ a + n \in Addr /\ m \in [Addr -> Nat]
  BY <1>1, At
<1>3. a + i \in Addr
  BY <1>1, <1>2, StringsClientAssumption DEF Addr
<1> QED BY <1>2, <1>3

(* Strings have the same text if they have the same characters. *)
LEMMA SameText ==
  ASSUME NEW m \in Memory, NEW a \in Addr, NEW b \in Addr
  PROVE  Text(m, a) = Text(m, b) <=>
           /\ strlen(m, a) = strlen(m, b)
           /\ \A j \in 0 .. strlen(m, a) - 1 : m[a + j] = m[b + j]
<1>1. PICK n, k : n = strlen(m, a) /\ k = strlen(m, b)
  OBVIOUS
<1>2. TextAt(Text(m, a), m, a, n) /\ TextAt(Text(m, b), m, b, k)
  <2>1. m \in [Addr -> Nat] /\ IsString(m, a, n) /\ IsString(m, b, k)
    BY <1>1, At
  <2> QED BY <2>1, TextIs
<1>3. PICK v, w : v = Text(m, a) /\ w = Text(m, b)
  OBVIOUS
<1>4. /\ v \in Seq(Nat) /\ Len(v) = n /\ n \in Nat /\ a \in Nat
      /\ \A i \in 1 .. n : v[i] = m[a + i - 1]
      /\ w \in Seq(Nat) /\ Len(w) = k /\ k \in Nat /\ b \in Nat
      /\ \A i \in 1 .. k : w[i] = m[b + i - 1]
  BY <1>2, <1>3 DEF TextAt
<1>5. ASSUME v = w PROVE n = k /\ \A j \in 0 .. n - 1 : m[a + j] = m[b + j]
  <2>1. n = k
    BY <1>4, <1>5
  <2>2. ASSUME NEW j \in 0 .. n - 1 PROVE m[a + j] = m[b + j]
    <3>1. j + 1 \in 1 .. n /\ a + (j + 1) - 1 = a + j /\ b + (j + 1) - 1 = b + j
      BY <1>4
    <3> QED BY <1>4, <1>5, <2>1, <3>1
  <2> QED BY <2>1, <2>2
<1>6. ASSUME n = k, \A j \in 0 .. n - 1 : m[a + j] = m[b + j] PROVE v = w
  <2>1. ASSUME NEW i \in 1 .. n PROVE v[i] = w[i]
    <3>1. i - 1 \in 0 .. n - 1 /\ a + (i - 1) = a + i - 1 /\ b + (i - 1) = b + i - 1
      BY <1>4
    <3> QED BY <1>4, <1>6, <3>1
  <2> QED BY <1>4, <1>6, <2>1, SeqEqual
<1> QED BY <1>1, <1>3, <1>5, <1>6

(* A text begins another if it is no longer and has the same characters.   *)
LEMMA PrefixOf ==
  ASSUME NEW m \in Memory, NEW t \in Addr, NEW a \in Addr
  PROVE  IsPrefix(Text(m, t), Text(m, a)) <=>
           /\ strlen(m, t) <= strlen(m, a)
           /\ \A j \in 0 .. strlen(m, t) - 1 : m[a + j] = m[t + j]
<1>1. PICK k, n : k = strlen(m, t) /\ n = strlen(m, a)
  OBVIOUS
<1>2. TextAt(Text(m, t), m, t, k) /\ TextAt(Text(m, a), m, a, n)
  <2>1. m \in [Addr -> Nat] /\ IsString(m, t, k) /\ IsString(m, a, n)
    BY <1>1, At
  <2> QED BY <2>1, TextIs
<1>3. PICK v, w : v = Text(m, t) /\ w = Text(m, a)
  OBVIOUS
<1>4. /\ v \in Seq(Nat) /\ Len(v) = k /\ k \in Nat /\ t \in Nat
      /\ \A i \in 1 .. k : v[i] = m[t + i - 1]
      /\ w \in Seq(Nat) /\ Len(w) = n /\ n \in Nat /\ a \in Nat
      /\ \A i \in 1 .. n : w[i] = m[a + i - 1]
  BY <1>2, <1>3 DEF TextAt
<1>5. SubSeq(v, 1, k) = v
  BY <1>4, SubSeqFull
<1>6. IsPrefix(v, w) <=> k <= n /\ v = SubSeq(w, 1, k)
  BY <1>4, <1>5 DEF IsPrefix
<1>7. ASSUME k <= n
      PROVE  /\ SubSeq(w, 1, k) \in Seq(Nat) /\ Len(SubSeq(w, 1, k)) = k
             /\ \A i \in 1 .. k : SubSeq(w, 1, k)[i] = w[i]
  <2>1. \A i \in 1 .. k : w[i] \in Nat
    BY <1>4, <1>7
  <2> QED BY <1>4, <2>1, SubSeqProperties
<1>8. ASSUME k <= n, v = SubSeq(w, 1, k), NEW j \in 0 .. k - 1
      PROVE  m[a + j] = m[t + j]
  <2>1. j + 1 \in 1 .. k /\ j + 1 \in 1 .. n
        /\ a + (j + 1) - 1 = a + j /\ t + (j + 1) - 1 = t + j
    BY <1>4, <1>8
  <2>2. v[j + 1] = w[j + 1]
    BY <1>7, <1>8, <2>1
  <2> QED BY <1>4, <2>1, <2>2
<1>9. ASSUME k <= n, \A j \in 0 .. k - 1 : m[a + j] = m[t + j]
      PROVE  v = SubSeq(w, 1, k)
  <2>1. ASSUME NEW i \in 1 .. k PROVE v[i] = SubSeq(w, 1, k)[i]
    <3>1. i - 1 \in 0 .. k - 1 /\ i \in 1 .. n
          /\ a + (i - 1) = a + i - 1 /\ t + (i - 1) = t + i - 1
      BY <1>4, <1>9
    <3> QED BY <1>4, <1>7, <1>9, <3>1
  <2> QED BY <1>4, <1>7, <1>9, <2>1, SeqEqual
<1> QED BY <1>1, <1>3, <1>6, <1>8, <1>9

(* strcmp gives the order in which two strings differ first. *)
LEMMA StrcmpOrders ==
  ASSUME NEW m \in Memory, NEW a \in Addr, NEW b \in Addr
  PROVE  StringsCompared(m, a, b)
<1>1. PICK i : StopsAt(m, a, b, i) /\ strcmp(m, a, b) = Order(m[a + i], m[b + i])
  BY StrcmpStops
<1>2. PICK j : StopsAt(m, b, a, j) /\ strcmp(m, b, a) = Order(m[b + j], m[a + j])
  BY StrcmpStops
<1>3. PICK n, k : n = strlen(m, a) /\ k = strlen(m, b)
  OBVIOUS
<1>4. /\ n \in Nat /\ a \in Nat /\ m[a + n] = 0 /\ \A c \in a .. a + n - 1 : m[c] # 0
      /\ k \in Nat /\ b \in Nat /\ m[b + k] = 0 /\ \A c \in b .. b + k - 1 : m[c] # 0
  BY <1>3, At
<1>5. /\ i \in Nat /\ i <= n /\ i <= k
      /\ m[a + i] = 0 \/ m[a + i] # m[b + i]
      /\ \A c \in 0 .. i - 1 : m[a + c] # 0 /\ m[a + c] = m[b + c]
  BY <1>1, <1>3 DEF StopsAt
<1>6. m[a + i] \in Nat /\ m[b + i] \in Nat
  BY <1>3, <1>5, BytesAreNumbers
<1>7. strcmp(m, a, b) = -strcmp(m, b, a)
  <2>1. i = j
    BY <1>1, <1>2, StopsOnce
  <2> QED BY <1>1, <1>2, <1>6, <2>1 DEF Order
<1>8. strcmp(m, a, b) = 0 <=> m[a + i] = m[b + i]
  BY <1>1, <1>6 DEF Order
<1>9. ASSUME m[a + i] = 0 PROVE i = n
  <2>1. ~(i < n)
    <3>1. i < n => a + i \in a .. a + n - 1
      BY <1>4, <1>5
    <3> QED BY <1>4, <1>9, <3>1
  <2> QED BY <1>4, <1>5, <2>1
<1>10. ASSUME m[b + i] = 0 PROVE i = k
  <2>1. ~(i < k)
    <3>1. i < k => b + i \in b .. b + k - 1
      BY <1>4, <1>5
    <3> QED BY <1>4, <1>10, <3>1
  <2> QED BY <1>4, <1>5, <2>1
<1>11. strcmp(m, a, b) = 0 <=> Text(m, a) = Text(m, b)
  <2>1. ASSUME m[a + i] = m[b + i] PROVE Text(m, a) = Text(m, b)
    <3>1. m[a + i] = 0 /\ m[b + i] = 0
      BY <1>5, <2>1
    <3>2. n = i /\ k = i
      BY <1>9, <1>10, <3>1
    <3>3. strlen(m, a) = strlen(m, b) /\ strlen(m, a) = i
      BY <1>3, <3>2
    <3>4. \A c \in 0 .. strlen(m, a) - 1 : m[a + c] = m[b + c]
      BY <1>5, <3>3
    <3> QED BY ONLY <3>3, <3>4, m \in Memory, a \in Addr, b \in Addr, SameText
  <2>2. ASSUME Text(m, a) = Text(m, b) PROVE m[a + i] = m[b + i]
    <3>0. /\ strlen(m, a) = strlen(m, b)
          /\ \A c \in 0 .. strlen(m, a) - 1 : m[a + c] = m[b + c]
      BY ONLY <2>2, m \in Memory, a \in Addr, b \in Addr, SameText
    <3>1. n = k /\ \A c \in 0 .. n - 1 : m[a + c] = m[b + c]
      BY <1>3, <3>0
    <3>2. CASE i < n
      <4>1. i \in 0 .. n - 1
        BY <1>4, <1>5, <3>2
      <4> QED BY <3>1, <4>1
    <3>3. CASE i = n
      BY <1>4, <3>1, <3>3
    <3> QED BY <1>4, <1>5, <3>2, <3>3
  <2> QED BY <1>8, <2>1, <2>2
<1>12. PICK size : size = 1 + Min({strlen(m, a), strlen(m, b)})
  OBVIOUS
<1>13. size = 1 + (IF n <= k THEN n ELSE k)
  BY <1>3, <1>4, <1>12, MinOfTwo
<1>14. size \in Nat /\ i \in 0 .. size - 1 /\ \A c \in 0 .. size - 1 : c \in Nat /\ c <= n /\ c <= k
  BY <1>4, <1>5, <1>13
<1>15. \A c \in 0 .. size - 1 : m[a + c] \in Int /\ m[b + c] \in Int
  BY <1>3, <1>14, BytesAreNumbers
<1>16. strcmp(m, a, b) = memcmp(m, a, b, size)
  <2>1. CASE m[a + i] = m[b + i]
    <3>1. m[a + i] = 0
      BY <1>5, <2>1
    <3>2. i = n
      BY <1>9, <3>1
    <3>3. \A c \in 0 .. size - 1 : m[a + c] = m[b + c]
      <4>1. \A c \in 0 .. size - 1 : c \in 0 .. i - 1 \/ c = i
        BY <1>5, <1>14, <3>2
      <4> QED BY <1>5, <2>1, <4>1
    <3> QED BY <1>8, <1>14, <1>15, <2>1, <3>3, MemcmpIs
  <2>2. CASE m[a + i] # m[b + i]
    <3>1. memcmp(m, a, b, size) = Order(m[a + i], m[b + i])
      BY <1>5, <1>14, <1>15, <2>2, MemcmpIs
    <3> QED BY <1>1, <3>1
  <2> QED BY <2>1, <2>2
<1> QED BY <1>7, <1>11, <1>12, <1>16, Zenon DEF StringsCompared

(* strstr finds the first place where the needle begins. *)
LEMMA StrstrFinds ==
  ASSUME NEW m \in Memory, NEW s \in Addr, NEW t \in Addr
  PROVE  NeedleFound(m, s, t)
<1>1. PICK n, k, found : n = strlen(m, s) /\ k = strlen(m, t) /\ found = strstr(m, s, t)
  OBVIOUS
<1>2. /\ m \in [Addr -> Nat] /\ IsString(m, s, n)
      /\ n \in Nat /\ s \in Nat /\ Chars(m, s) = s .. s + n - 1
      /\ s + n \in Addr /\ s + n <= Top /\ Top \in Nat
  BY <1>1, At, StringsClientAssumption
<1>3. k \in Nat /\ t \in Nat /\ \A j \in 0 .. k - 1 : m[t + j] \in Nat
  <2>1. k \in Nat /\ t \in Nat
    BY <1>1, At
  <2> QED BY <1>1, <2>1, BytesAreNumbers
<1> DEFINE S == {a \in s .. s + n - k : memcmp(m, a, t, k) = 0}
<1>4. found = FirstOf(S, NULL)
  BY <1>1 DEF strstr
<1>5. S \in SUBSET Nat /\ \A a \in S : a \in s .. s + n - k
  BY <1>2, <1>3
<1>6. ASSUME NEW a \in s .. s + n
      PROVE  IsPrefix(Text(m, t), Text(m, a)) <=> a \in S
  <2>1. a \in Addr /\ strlen(m, a) = s + n - a
    <3>1. a \in Addr
      BY <1>2, StringsClientAssumption DEF Addr
    <3>2. strlen(m, a) = s + n - a
      <4>1. a \in s .. s + n
        OBVIOUS
      <4>0. m \in [Addr -> Nat] /\ IsString(m, s, n)
        BY <1>2
      <4>2. IsString(m, a, s + n - a) /\ strlen(m, a) = s + n - a
        BY ONLY <4>0, <4>1, RestOf
      <4> QED BY <4>2
    <3> QED BY <3>1, <3>2
  <2>2. k <= s + n - a <=> a \in s .. s + n - k
    BY <1>2, <1>3
  <2>3. ASSUME k <= s + n - a
        PROVE  memcmp(m, a, t, k) = 0 <=> \A j \in 0 .. k - 1 : m[a + j] = m[t + j]
    <3>1. \A j \in 0 .. k - 1 : j \in Nat /\ j <= strlen(m, a)
      BY <1>2, <1>3, <2>1, <2>3
    <3>2. \A j \in 0 .. k - 1 : m[a + j] \in Int /\ m[t + j] \in Int
      <4>1. \A j \in 0 .. k - 1 : m[a + j] \in Nat
        BY <2>1, <3>1, BytesAreNumbers
      <4> QED BY <1>3, <4>1
    <3>3. k \in Nat
      BY <1>3
    <3> QED BY ONLY <3>2, <3>3, MemcmpIs
  <2>4. IsPrefix(Text(m, t), Text(m, a)) <=>
          k <= s + n - a /\ \A j \in 0 .. k - 1 : m[a + j] = m[t + j]
    BY <1>1, <2>1, PrefixOf
  <2> QED BY <2>2, <2>3, <2>4
<1> HIDE DEF S
<1>7. CASE S = {}
  <2>1. found = NULL
    BY <1>4, <1>7 DEF FirstOf
  <2>2. \A a \in Chars(m, s) : ~IsPrefix(Text(m, t), Text(m, a))
    BY <1>2, <1>6, <1>7
  <2> QED BY <1>1, <2>1, <2>2 DEF NeedleFound
<1>8. CASE S # {}
  <2>1. found \in S /\ \A a \in S : found <= a
    BY <1>4, <1>5, <1>8, FirstOfIs
  <2>2. found \in Nat /\ found # NULL /\ found \in s .. s + n
    BY <1>2, <1>3, <1>5, <2>1, StringsAssumption
  <2>3. IsPrefix(Text(m, t), Text(m, found))
    BY <1>6, <2>1, <2>2
  <2>4. ASSUME NEW a \in Chars(m, s), found = NULL \/ a < found
        PROVE  ~IsPrefix(Text(m, t), Text(m, a))
    <3>1. a \in s .. s + n /\ a \in Nat /\ ~(found <= a)
      BY <1>2, <2>2, <2>4
    <3> QED BY <1>6, <2>1, <3>1
  <2> QED BY <1>1, <2>3, <2>4 DEF NeedleFound
<1> QED BY <1>7, <1>8

(* The searches agree before any call of strtok_r. *)
LEMMA SearchesAgreeAlways == CallInv => SearchesAgree
<1> SUFFICES ASSUME CallInv, call = Start("tokens") PROVE SearchesAgree
  BY DEF SearchesAgree
<1>1. PICK m : m = mem
  OBVIOUS
<1>2. m \in Memory
  BY <1>1 DEF CallInv
<1>3. \A n \in 0 .. Top + 1 : n \in Nat
  BY StringsClientAssumption
<1>4. \A s, t \in Addr : NeedleFound(m, s, t)
  BY ONLY <1>2, StrstrFinds
<1>5. \A s, t \in Addr : SpansEnd(m, s, t)
  BY ONLY <1>2, SpansStop, Zenon
<1>6. \A s \in Addr : \A c \in Byte : LastFound(m, s, c)
  BY ONLY <1>2, StrrchrLast
<1>7. \A s, t \in Addr : StringsCompared(m, s, t)
  BY ONLY <1>2, StrcmpOrders
<1>8. \A s \in Addr : \A c \in Byte \cup {0} :
        strchr(m, s, c) = memchr(m, s, c, strlen(m, s) + 1)
  BY ONLY <1>2, StrchrIsMemchr
<1>9. \A s \in Addr : \A n \in 0 .. Top + 1 : strnlen(m, s, n) = Min({strlen(m, s), n})
  BY ONLY <1>2, <1>3, StrnlenBounded
<1> QED BY ONLY <1>1, <1>4, <1>5, <1>6, <1>7, <1>8, <1>9, Zenon DEF SearchesAgree

---------------------------------------------------------------------------
(* Tokens. *)

(* A string where two memories are the same is one in both. *)
LEMMA SameString ==
  ASSUME NEW b \in Memory, NEW m \in Memory, NEW s \in Addr,
         \A a \in Addr : a >= s => m[a] = b[a]
  PROVE  strlen(m, s) = strlen(b, s) /\ Text(m, s) = Text(b, s)
<1>1. PICK n : n = strlen(b, s)
  OBVIOUS
<1>2. /\ m \in [Addr -> Nat] /\ b \in [Addr -> Nat] /\ IsString(b, s, n)
      /\ n \in Nat /\ s \in Nat
      /\ \A a \in s .. s + n - 1 : a \in Addr
  BY <1>1, At, MemoryIs
<1>3. IsString(m, s, n)
  <2>1. s + n \in Addr /\ s + n >= s
    BY <1>2 DEF IsString
  <2>2. \A a \in s .. s + n - 1 : m[a] = b[a]
    BY <1>2
  <2> QED BY <1>2, <2>1, <2>2 DEF IsString
<1>4. strlen(m, s) = n
  BY <1>2, <1>3, StrlenIs
<1>5. TextAt(Text(m, s), m, s, n) /\ TextAt(Text(b, s), b, s, n)
  BY <1>2, <1>3, TextIs
<1>6. PICK v, w : v = Text(m, s) /\ w = Text(b, s)
  OBVIOUS
<1>7. /\ v \in Seq(Nat) /\ w \in Seq(Nat) /\ Len(v) = n /\ Len(w) = n
      /\ \A i \in 1 .. n : v[i] = m[s + i - 1] /\ w[i] = b[s + i - 1]
  BY <1>5, <1>6 DEF TextAt
<1>8. \A i \in 1 .. n : v[i] = w[i]
  <2> SUFFICES ASSUME NEW i \in 1 .. n PROVE v[i] = w[i]
    OBVIOUS
  <2>1. s + i - 1 \in s .. s + n - 1 /\ s + i - 1 >= s
    BY <1>2
  <2> QED BY <1>2, <1>7, <2>1
<1>9. v = w
  BY <1>7, <1>8, SeqEqual
<1> QED BY <1>1, <1>4, <1>6, <1>9

(* The token that is returned: it begins at the first character that is    *)
(* kept and ends in front of the next that is not.                         *)
FoundToken(b, m, r, pos, n, kept, token, end) ==
  /\ token \in pos .. n - 1 /\ end \in token + 1 .. n
  /\ r.ret = token /\ r.mem = [m EXCEPT ![end] = 0] /\ r.mem \in Memory
  /\ r.save_ptr = IF end = n THEN n ELSE end + 1
  /\ \A a \in token .. end - 1 : a \in kept
  /\ end \notin kept
  /\ \A a \in kept : a >= pos => a >= token
  /\ token > pos => token - 1 \notin kept
  /\ TextAt(Text(r.mem, token), b, token, end - token)

(* A call of strtok_r on the rest of the string, from pos on. *)
LEMMA StrtokFinds ==
  ASSUME NEW b \in Memory, NEW m \in Memory, NEW n, n = strlen(b, 0), n < Delimiters,
         NEW pos \in 0 .. n, \A a \in Addr : a >= pos => m[a] = b[a],
         NEW kept, kept = {a \in 0 .. n - 1 : b[a] \notin ToSet(Text(b, Delimiters))},
         NEW r, r = strtok_r(m, pos, Delimiters)
  PROVE  \/ r.ret = NULL /\ r.mem = m /\ \A a \in kept : a < pos
         \/ \E token, end : FoundToken(b, m, r, pos, n, kept, token, end)
<1>1. PICK chars : chars = ToSet(Text(b, Delimiters))
  OBVIOUS
<1>2. /\ n \in Nat /\ n \in Addr /\ Top \in Nat /\ 0 \in Addr /\ pos \in Addr /\ pos \in Nat
      /\ Delimiters \in Addr /\ Delimiters \in Nat /\ n < Top
      /\ b[n] = 0 /\ \A a \in 0 .. n - 1 : b[a] # 0 /\ a \in Addr
      /\ IsString(b, 0, n) /\ b \in [Addr -> Nat] /\ m \in [Addr -> Nat]
  <2>1. 0 \in Addr /\ Top \in Nat /\ Delimiters \in Nat /\ Delimiters \in Addr /\ Delimiters <= Top
    BY StringsClientAssumption DEF Addr
  <2>2. /\ n \in Nat /\ 0 + n \in Addr /\ IsString(b, 0, n) /\ b \in [Addr -> Nat]
        /\ b[0 + n] = 0 /\ \A a \in 0 .. 0 + n - 1 : b[a] # 0 /\ a \in Addr
    <3>1. PICK s : s = 0
      OBVIOUS
    <3>2. s \in Addr /\ n = strlen(b, s)
      BY <2>1, <3>1
    <3>3. /\ b \in [Addr -> Nat] /\ IsString(b, s, n) /\ n \in Nat /\ s + n \in Addr
          /\ \A a \in s .. s + n - 1 : a \in Addr /\ a \in Nat /\ b[a] # 0
          /\ b[s + n] = 0
      BY ONLY b \in Memory, <3>2, At
    <3> QED BY <3>1, <3>3
  <2>3. pos \in Addr /\ pos \in Nat
    BY <2>1, <2>2 DEF Addr
  <2> QED BY <2>1, <2>2, <2>3, MemoryIs
<1>3. ToSet(Text(m, Delimiters)) = chars /\ 0 \notin chars
  <2>1. \A a \in Addr : a >= Delimiters => m[a] = b[a]
    BY <1>2, StringsClientAssumption DEF Addr
  <2>2. Text(m, Delimiters) = Text(b, Delimiters)
    BY <1>2, <2>1, SameString
  <2> QED BY <1>1, <1>2, <2>2, CharSet
<1>4. ASSUME NEW s \in pos .. n PROVE s \in Addr /\ strlen(m, s) = n - s
  <2>1. s \in Addr /\ s \in Nat
    BY <1>2 DEF Addr
  <2>2. \A a \in Addr : a >= s => m[a] = b[a]
    BY <1>2 DEF Addr
  <2>3. strlen(m, s) = strlen(b, s)
    BY <2>1, <2>2, SameString
  <2>4. s \in 0 .. 0 + n
    BY <1>2
  <2>5. strlen(b, s) = 0 + n - s
    BY <1>2, <2>4, RestOf
  <2> QED BY <1>2, <2>1, <2>3, <2>5
<1>5. PICK token : token = pos + strspn(m, pos, Delimiters)
  OBVIOUS
<1>6. /\ token \in pos .. n /\ m[token] \notin chars
      /\ \A a \in pos .. token - 1 : m[a] \in chars
  <2>1. pos \in pos .. n
    BY <1>2
  <2>2. strlen(m, pos) = n - pos
    BY <1>4, <2>1
  <2>3. SpansEnd(m, pos, Delimiters) /\ strspn(m, pos, Delimiters) \in 0 .. strlen(m, pos)
    BY <1>2, SpansStop
  <2>4. token \in pos .. n
    BY <1>2, <1>5, <2>2, <2>3
  <2> QED BY <1>3, <1>5, <2>3, <2>4 DEF SpansEnd
<1>7. \A a \in pos .. n : m[a] = b[a] /\ a \in Addr
  BY <1>2 DEF Addr
<1>8. \A a : a \in kept <=> a \in 0 .. n - 1 /\ b[a] \notin chars
  BY <1>1
<1>9. \A a \in kept : a >= pos => a >= token
  <2> SUFFICES ASSUME NEW a \in kept, a >= pos, ~(a >= token) PROVE FALSE
    OBVIOUS
  <2>1. a \in pos .. token - 1 /\ a \in pos .. n
    BY <1>2, <1>6, <1>8
  <2> QED BY <1>6, <1>7, <1>8, <2>1
<1>10. CASE m[token] = 0
  <2>1. token = n
    BY <1>2, <1>6, <1>7, <1>10
  <2>2. \A a \in kept : a < pos
    BY <1>2, <1>8, <1>9, <2>1
  <2>3. r = [mem |-> m, save_ptr |-> token, ret |-> NULL]
    BY <1>5, <1>10, Zenon DEF strtok_r
  <2> QED BY <2>2, <2>3
<1>11. CASE m[token] # 0
  <2>1. token \in pos .. n - 1 /\ token \in Addr /\ token \in 0 .. n - 1
    BY <1>2, <1>6, <1>7, <1>11
  <2>2. PICK end : end = token + strcspn(m, token, Delimiters)
    OBVIOUS
  <2>3. /\ end \in token .. n /\ m[end] \in chars \cup {0}
        /\ \A a \in token .. end - 1 : m[a] \notin chars
    <3>1. strlen(m, token) = n - token
      BY <1>4, <1>6
    <3>2. SpansEnd(m, token, Delimiters) /\ strcspn(m, token, Delimiters) \in 0 .. strlen(m, token)
      BY <1>2, <2>1, SpansStop
    <3>3. end \in token .. n
      BY <1>2, <2>1, <2>2, <3>1, <3>2
    <3> QED BY <1>3, <2>2, <3>2, <3>3 DEF SpansEnd
  <2>4. end # token
    BY <1>6, <1>11, <2>3
  <2>5. end \in token + 1 .. n /\ end \in Addr /\ end \in pos .. n
    BY <1>2, <1>7, <2>1, <2>3, <2>4
  <2>6. m[end] = 0 <=> end = n
    BY <1>2, <1>7, <2>5
  <2>7. end \notin kept
    <3>1. end = n => end \notin 0 .. n - 1
      BY <1>2
    <3> QED BY <1>7, <1>8, <2>3, <2>5, <2>6, <3>1
  <2>8. \A a \in token .. end - 1 : a \in kept
    <3>1. \A a \in token .. end - 1 : a \in 0 .. n - 1 /\ a \in pos .. n
      BY <1>2, <2>1, <2>5
    <3> QED BY <1>7, <1>8, <2>3, <3>1
  <2>9. token > pos => token - 1 \notin kept
    <3> SUFFICES ASSUME token > pos PROVE token - 1 \notin kept
      OBVIOUS
    <3>1. token - 1 \in pos .. token - 1 /\ token - 1 \in pos .. n
      BY <1>2, <2>1
    <3> QED BY <1>6, <1>7, <1>8, <3>1
  <2>10. r = [mem |-> [m EXCEPT ![end] = 0],
              save_ptr |-> IF m[end] = 0 THEN end ELSE end + 1, ret |-> token]
    BY <1>5, <1>11, <2>2, Zenon DEF strtok_r
  <2>11. PICK w : w = [m EXCEPT ![end] = 0]
    OBVIOUS
  <2>12. r.mem = w /\ r.ret = token /\ r.save_ptr = IF end = n THEN n ELSE end + 1
    BY <2>6, <2>10, <2>11
  <2>13. w \in Memory /\ w \in [Addr -> Nat]
    <3>1. m \in [Addr -> Byte \cup {0}] /\ m[Top] = 0
      BY DEF Memory
    <3>2. w \in [Addr -> Byte \cup {0}] /\ w[Top] = 0
      BY <2>5, <2>11, <3>1
    <3> QED BY <3>2, MemoryIs DEF Memory
  <2>14. w[end] = 0 /\ \A a \in token .. end - 1 : w[a] = b[a] /\ b[a] # 0
    <3>1. \A a \in token .. end - 1 : a \in pos .. n /\ a \in 0 .. n - 1 /\ a # end
      BY <1>2, <2>1, <2>5
    <3> QED BY <1>2, <1>7, <2>5, <2>11, <3>1
  <2>15. PICK len : len = end - token
    OBVIOUS
  <2>16. len \in Nat /\ token \in Nat /\ token + len = end
    BY <1>2, <2>1, <2>5, <2>15
  <2>17. IsString(w, token, len)
    BY <2>1, <2>5, <2>14, <2>16 DEF IsString
  <2>18. TextAt(Text(w, token), w, token, len)
    BY <2>13, <2>17, TextIs
  <2>19. TextAt(Text(w, token), b, token, len)
    <3>1. \A i \in 1 .. len : w[token + i - 1] = b[token + i - 1]
      <4> SUFFICES ASSUME NEW i \in 1 .. len PROVE w[token + i - 1] = b[token + i - 1]
        OBVIOUS
      <4>1. token + i - 1 \in token .. end - 1
        BY <2>16
      <4> QED BY <2>14, <4>1
    <3> QED BY <2>18, <3>1 DEF TextAt
  <2>20. FoundToken(b, m, r, pos, n, kept, token, end)
    BY <1>9, <2>1, <2>5, <2>7, <2>8, <2>9, <2>11, <2>12, <2>13, <2>15, <2>19 DEF FoundToken
  <2> QED BY <2>20
<1> QED BY <1>10, <1>11

(* The token at place k is a field of the string b, whose characters that  *)
(* are kept are at the places kept, with all that is kept up to its end.   *)
GoodToken(toks, k, b, kept) ==
  LET first == toks[k].first
      next  == first + Len(toks[k].text)
  IN /\ first < next /\ first .. next - 1 \subseteq kept
     /\ first - 1 \notin kept /\ next \notin kept
     /\ \A a \in first .. next - 1 : toks[k].text[a - first + 1] = b[a]
     /\ \A a \in kept : a < next => \E j \in 1 .. k : a \in Run(toks[j])
     /\ \A j \in 1 .. k - 1 : toks[j].first < first

(* What strtok_r has done when it is to go on from pos: the tokens are     *)
(* fields, with all that is kept in front of pos, the string is as it was  *)
(* from pos on, and only delimiters are overwritten.                       *)
TokensSeen(toks, m, b, n, kept, pos) ==
  /\ toks \in Seq([first : Nat, text : Seq(Nat)])
  /\ m \in Memory /\ pos \in 0 .. n
  /\ \A a \in Addr : a >= pos => m[a] = b[a]
  /\ pos < n => pos - 1 \notin kept
  /\ \A k \in 1 .. Len(toks) : /\ GoodToken(toks, k, b, kept)
                               /\ toks[k].first + Len(toks[k].text) <= pos
  /\ \A a \in kept : a < pos => \E k \in 1 .. Len(toks) : a \in Run(toks[k])
  /\ \A a \in Addr : m[a] # b[a] => m[a] = 0 /\ a \in (0 .. n - 1) \ kept

(* The token found is appended to those there were. *)
LEMMA AnotherToken ==
  ASSUME NEW b \in Memory, NEW m, NEW toks, NEW n, n = strlen(b, 0), n < Delimiters,
         NEW kept, kept \subseteq 0 .. n - 1, NEW pos, TokensSeen(toks, m, b, n, kept, pos),
         NEW r, NEW token, NEW end, FoundToken(b, m, r, pos, n, kept, token, end),
         NEW new, new = [first |-> token, text |-> Text(r.mem, token)]
  PROVE  TokensSeen(Append(toks, new), r.mem, b, n, kept, r.save_ptr)
<1>1. PICK w, next, text, Token :
         /\ w = r.mem /\ next = r.save_ptr /\ text = Text(r.mem, token)
         /\ Token = [first : Nat, text : Seq(Nat)]
  OBVIOUS
<1>2. /\ token \in pos .. n - 1 /\ end \in token + 1 .. n
      /\ w = [m EXCEPT ![end] = 0] /\ w \in Memory
      /\ next = IF end = n THEN n ELSE end + 1
      /\ \A a \in token .. end - 1 : a \in kept
      /\ end \notin kept
      /\ \A a \in kept : a >= pos => a >= token
      /\ token > pos => token - 1 \notin kept
      /\ TextAt(text, b, token, end - token)
  BY <1>1 DEF FoundToken
<1>3. /\ toks \in Seq(Token) /\ m \in Memory /\ pos \in 0 .. n
      /\ \A a \in Addr : a >= pos => m[a] = b[a]
      /\ pos < n => pos - 1 \notin kept
      /\ \A k \in 1 .. Len(toks) : /\ GoodToken(toks, k, b, kept)
                                   /\ toks[k].first + Len(toks[k].text) <= pos
      /\ \A a \in kept : a < pos => \E k \in 1 .. Len(toks) : a \in Run(toks[k])
      /\ \A a \in Addr : m[a] # b[a] => m[a] = 0 /\ a \in (0 .. n - 1) \ kept
  BY <1>1 DEF TokensSeen
<1>4. n \in Nat /\ b[n] = 0 /\ n \in Addr /\ m \in [Addr -> Nat]
      /\ \A a \in Addr : a \in Nat
  <2>1. PICK s : s = 0
    OBVIOUS
  <2>2. s \in Addr /\ n = strlen(b, s)
    BY <2>1, StringsClientAssumption DEF Addr
  <2>3. n \in Nat /\ s + n \in Addr /\ b[s + n] = 0
    BY ONLY b \in Memory, <2>2, At
  <2>4. \A a \in Addr : a \in Nat
    BY DEF Addr
  <2> QED BY <1>3, <2>1, <2>3, <2>4, MemoryIs
<1>5. /\ pos \in Nat /\ token \in Nat /\ end \in Nat /\ pos <= token /\ token < end /\ end <= n
      /\ next \in 0 .. n /\ next >= end /\ end \in Addr
  <2>1. /\ pos \in Nat /\ token \in Nat /\ end \in Nat
        /\ pos <= token /\ token < end /\ end <= n
    BY <1>2, <1>3, <1>4
  <2>2. end \in Addr
    BY <1>4, <2>1, StringsClientAssumption DEF Addr
  <2>3. next \in 0 .. n /\ next >= end
    <3>1. CASE end = n
      BY <1>2, <1>4, <3>1
    <3>2. CASE end # n
      BY <1>2, <1>4, <2>1, <3>2
    <3> QED BY <3>1, <3>2
  <2> QED BY <2>1, <2>2, <2>3
<1>6. text \in Seq(Nat) /\ Len(text) = end - token
      /\ \A a \in token .. end - 1 : text[a - token + 1] = b[a]
  <2>1. /\ text \in Seq(Nat) /\ Len(text) = end - token
        /\ \A i \in 1 .. end - token : text[i] = b[token + i - 1]
    BY <1>2 DEF TextAt
  <2>2. ASSUME NEW a \in token .. end - 1 PROVE text[a - token + 1] = b[a]
    <3>1. a - token + 1 \in 1 .. end - token /\ token + (a - token + 1) - 1 = a
      BY <1>5
    <3> QED BY <2>1, <3>1
  <2> QED BY <2>1, <2>2
<1>7. new = [first |-> token, text |-> text] /\ new \in Token
      /\ new.first = token /\ new.text = text
  BY <1>1, <1>5, <1>6
<1>8. PICK all : all = Append(toks, new)
  OBVIOUS
<1>9. PICK last : last = Len(toks) + 1
  OBVIOUS
<1>10. /\ all \in Seq(Token) /\ Len(all) = last /\ last \in Nat /\ Len(toks) \in Nat
       /\ Len(toks) = last - 1
       /\ all[last] = new /\ \A k \in 1 .. Len(toks) : all[k] = toks[k]
  BY <1>3, <1>7, <1>8, <1>9
<1>11. ASSUME NEW k \in 1 .. Len(toks)
       PROVE  /\ toks[k].first \in Nat /\ Len(toks[k].text) \in Nat
              /\ toks[k].first < toks[k].first + Len(toks[k].text)
  <2>1. toks[k] \in Token
    BY <1>3
  <2>2. toks[k].first \in Nat /\ toks[k].text \in Seq(Nat)
    BY <1>1, <2>1
  <2>3. GoodToken(toks, k, b, kept)
    BY <1>3
  <2>4. toks[k].first < toks[k].first + Len(toks[k].text)
    BY <2>3, Zenon DEF GoodToken
  <2> QED BY <2>2, <2>4
<1>12. Run(all[last]) = token .. end - 1
  <2>1. all[last].first = token /\ Len(all[last].text) = end - token
    BY <1>6, <1>7, <1>10
  <2>2. token + (end - token) - 1 = end - 1
    BY <1>5
  <2> QED BY <2>1, <2>2, Zenon DEF Run
<1>13. ASSUME NEW k \in 1 .. Len(toks)
       PROVE  /\ GoodToken(all, k, b, kept)
              /\ all[k].first + Len(all[k].text) <= next
  <2>1. all[k] = toks[k] /\ \A j \in 1 .. k : j \in 1 .. Len(toks) /\ all[j] = toks[j]
    BY <1>10
  <2>2. GoodToken(toks, k, b, kept) /\ toks[k].first + Len(toks[k].text) <= pos
    BY <1>3
  <2>3. \A j \in 1 .. k - 1 : all[j] = toks[j]
    BY <1>10
  <2>4. GoodToken(all, k, b, kept)
    BY <2>1, <2>2, <2>3, Zenon DEF GoodToken
  <2>5. PICK e : e = toks[k].first + Len(toks[k].text)
    OBVIOUS
  <2>6. e \in Nat /\ e <= pos
    BY <1>11, <2>2, <2>5
  <2>7. e <= next
    BY <1>5, <2>6
  <2> QED BY <2>1, <2>4, <2>5, <2>7
<1>14. \A a \in kept : a < end => \E j \in 1 .. last : a \in Run(all[j])
  <2> SUFFICES ASSUME NEW a \in kept, a < end PROVE \E j \in 1 .. last : a \in Run(all[j])
    OBVIOUS
  <2>1. a \in 0 .. n - 1
    OBVIOUS
  <2>2. CASE a < pos
    <3>1. PICK k \in 1 .. Len(toks) : a \in Run(toks[k])
      BY <1>3, <2>2
    <3>2. k \in 1 .. last /\ all[k] = toks[k]
      BY <1>10
    <3> QED BY <3>1, <3>2
  <2>3. CASE a >= pos
    <3>1. a \in token .. end - 1
      BY <1>2, <1>4, <1>5, <2>1, <2>3
    <3>2. last \in 1 .. last
      BY <1>10
    <3> QED BY <1>12, <3>1, <3>2
  <2> QED BY <1>4, <1>5, <2>1, <2>2, <2>3
<1>15. GoodToken(all, last, b, kept) /\ all[last].first + Len(all[last].text) <= next
  <2>1. token + Len(text) = end
    BY <1>5, <1>6
  <2>2. token - 1 \notin kept
    BY <1>2, <1>3, <1>4, <1>5
  <2>3. \A j \in 1 .. last - 1 : all[j].first < token
    <3> SUFFICES ASSUME NEW j \in 1 .. last - 1 PROVE all[j].first < token
      OBVIOUS
    <3>1. j \in 1 .. Len(toks) /\ all[j] = toks[j]
      BY <1>10
    <3>2. PICK f, l : f = toks[j].first /\ l = Len(toks[j].text)
      OBVIOUS
    <3>3. f \in Nat /\ l \in Nat /\ f < f + l /\ f + l <= pos
      BY <1>3, <1>11, <3>1, <3>2
    <3>4. f < token
      BY <1>5, <3>3
    <3> QED BY <3>1, <3>2, <3>4
  <2>4. token .. end - 1 \subseteq kept
    BY <1>2
  <2> QED BY <1>2, <1>5, <1>6, <1>7, <1>10, <1>14, <2>1, <2>2, <2>3, <2>4 DEF GoodToken
<1>16. \A k \in 1 .. Len(all) : /\ GoodToken(all, k, b, kept)
                                /\ all[k].first + Len(all[k].text) <= next
  <2> SUFFICES ASSUME NEW k \in 1 .. Len(all)
               PROVE  GoodToken(all, k, b, kept) /\ all[k].first + Len(all[k].text) <= next
    OBVIOUS
  <2>1. k = last \/ k \in 1 .. Len(toks)
    BY <1>10
  <2> QED BY <1>13, <1>15, <2>1
<1>17. \A a \in kept : a < next => \E k \in 1 .. Len(all) : a \in Run(all[k])
  <2> SUFFICES ASSUME NEW a \in kept, a < next PROVE a < end
    BY <1>10, <1>14
  <2>1. a \in 0 .. n - 1 /\ a # end
    BY <1>2
  <2> QED BY <1>2, <1>4, <1>5, <2>1
<1>18. \A a \in Addr : w[a] = IF a = end THEN 0 ELSE m[a]
  BY <1>2, <1>4
<1>19. \A a \in Addr : a >= next => w[a] = b[a]
  <2> SUFFICES ASSUME NEW a \in Addr, a >= next PROVE w[a] = b[a]
    OBVIOUS
  <2>1. a >= pos /\ m[a] = b[a]
    BY <1>3, <1>4, <1>5
  <2>2. a = end => a = n
    BY <1>2, <1>4, <1>5
  <2> QED BY <1>4, <1>18, <2>1, <2>2
<1>20. \A a \in Addr : w[a] # b[a] => w[a] = 0 /\ a \in (0 .. n - 1) \ kept
  <2> SUFFICES ASSUME NEW a \in Addr, w[a] # b[a]
               PROVE  w[a] = 0 /\ a \in (0 .. n - 1) \ kept
    OBVIOUS
  <2>1. CASE a = end
    <3>1. w[a] = 0 /\ a # n
      BY <1>4, <1>18, <2>1
    <3> QED BY <1>2, <1>4, <1>5, <2>1, <3>1
  <2>2. CASE a # end
    BY <1>3, <1>18, <2>2
  <2> QED BY <2>1, <2>2
<1>21. next < n => next - 1 \notin kept
  BY <1>2, <1>4, <1>5
<1>22. TokensSeen(all, w, b, n, kept, next)
  BY <1>1, <1>2, <1>5, <1>10, <1>16, <1>17, <1>19, <1>20, <1>21 DEF TokensSeen
<1> QED BY <1>1, <1>8, <1>22

KeptOf(b) == {a \in Chars(b, 0) : b[a] \notin ToSet(Text(b, Delimiters))}

LEMMA KeptIs ==
  ASSUME NEW b \in Memory, NEW n, n = strlen(b, 0)
  PROVE  /\ n \in Nat /\ Chars(b, 0) = 0 .. n - 1 /\ KeptOf(b) \subseteq 0 .. n - 1
         /\ KeptOf(b) = {a \in 0 .. n - 1 : b[a] \notin ToSet(Text(b, Delimiters))}
<1>1. PICK s : s = 0
  OBVIOUS
<1>2. s \in Addr /\ n = strlen(b, s)
  BY <1>1, StringsClientAssumption DEF Addr
<1>3. n \in Nat /\ Chars(b, s) = s .. s + n - 1
  BY ONLY b \in Memory, <1>2, At
<1>4. s + n - 1 = n - 1
  BY <1>1, <1>3
<1>5. Chars(b, 0) = 0 .. n - 1
  BY <1>1, <1>3, <1>4
<1> QED BY <1>3, <1>5 DEF KeptOf

(* What a call of strtok_r adds to what has been seen. *)
StillSeen(toks, b, n, kept, r) ==
  \/ r.ret = NULL /\ TokensSeen(toks, r.mem, b, n, kept, n)
  \/ /\ r.ret # NULL
     /\ TokensSeen(Append(toks, [first |-> r.ret, text |-> Text(r.mem, r.ret)]),
                   r.mem, b, n, kept, r.save_ptr)

LEMMA StrtokSees ==
  ASSUME NEW b \in Memory, NEW m, NEW toks, NEW n, n = strlen(b, 0), n < Delimiters,
         NEW kept, kept = KeptOf(b), NEW pos, TokensSeen(toks, m, b, n, kept, pos),
         NEW r, r = strtok_r(m, pos, Delimiters)
  PROVE  StillSeen(toks, b, n, kept, r)
<1>1. /\ n \in Nat /\ kept \subseteq 0 .. n - 1
      /\ kept = {a \in 0 .. n - 1 : b[a] \notin ToSet(Text(b, Delimiters))}
  BY KeptIs
<1>2. m \in Memory /\ pos \in 0 .. n /\ \A a \in Addr : a >= pos => m[a] = b[a]
  BY DEF TokensSeen
<1>3. \/ r.ret = NULL /\ r.mem = m /\ \A a \in kept : a < pos
      \/ \E token, end : FoundToken(b, m, r, pos, n, kept, token, end)
  BY ONLY b \in Memory, n = strlen(b, 0), n < Delimiters, r = strtok_r(m, pos, Delimiters),
          <1>1, <1>2, StrtokFinds
<1>4. CASE r.ret = NULL /\ r.mem = m /\ \A a \in kept : a < pos
  <2>1. \A k \in 1 .. Len(toks) : GoodToken(toks, k, b, kept)
    BY DEF TokensSeen
  <2>2. \A k \in 1 .. Len(toks) : toks[k].first + Len(toks[k].text) <= n
    <3> SUFFICES ASSUME NEW k \in 1 .. Len(toks)
                 PROVE  toks[k].first + Len(toks[k].text) <= n
      OBVIOUS
    <3>1. /\ toks \in Seq([first : Nat, text : Seq(Nat)])
          /\ toks[k].first + Len(toks[k].text) <= pos
      BY DEF TokensSeen
    <3>2. toks[k].first \in Nat /\ toks[k].text \in Seq(Nat)
      <4>1. PICK Token : Token = [first : Nat, text : Seq(Nat)]
        OBVIOUS
      <4>2. toks \in Seq(Token)
        BY <3>1, <4>1
      <4>3. toks[k] \in Token
        BY <4>2
      <4> QED BY <4>1, <4>3
    <3>3. PICK e : e = toks[k].first + Len(toks[k].text)
      OBVIOUS
    <3>4. e \in Nat /\ e <= pos
      <4>1. PICK f, text : f = toks[k].first /\ text = toks[k].text
        OBVIOUS
      <4>2. f \in Nat /\ Len(text) \in Nat /\ e = f + Len(text)
        BY <3>2, <3>3, <4>1
      <4>3. e <= pos
        BY <3>1, <3>3
      <4> QED BY ONLY <4>2, <4>3
    <3> QED BY <1>1, <1>2, <3>3, <3>4
  <2>3. \A a \in kept : a < n => \E k \in 1 .. Len(toks) : a \in Run(toks[k])
    BY <1>4 DEF TokensSeen
  <2>4. /\ toks \in Seq([first : Nat, text : Seq(Nat)])
        /\ \A a \in Addr : m[a] # b[a] => m[a] = 0 /\ a \in (0 .. n - 1) \ kept
    BY DEF TokensSeen
  <2>5. n \in 0 .. n /\ ~(n < n) /\ \A a \in Addr : a >= n => m[a] = b[a]
    <3>1. \A a \in Addr : a \in Nat
      BY DEF Addr
    <3> QED BY <1>1, <1>2, <3>1
  <2>6. TokensSeen(toks, m, b, n, kept, n)
    BY <1>2, <2>1, <2>2, <2>3, <2>4, <2>5 DEF TokensSeen
  <2> QED BY <1>4, <2>6 DEF StillSeen
<1>5. CASE \E token, end : FoundToken(b, m, r, pos, n, kept, token, end)
  <2>1. PICK token, end : FoundToken(b, m, r, pos, n, kept, token, end)
    BY <1>5
  <2>2. PICK new : new = [first |-> token, text |-> Text(r.mem, token)]
    OBVIOUS
  <2>3. TokensSeen(Append(toks, new), r.mem, b, n, kept, r.save_ptr)
    BY ONLY b \in Memory, n = strlen(b, 0), n < Delimiters,
            TokensSeen(toks, m, b, n, kept, pos), <1>1, <2>1, <2>2, AnotherToken
  <2>4. r.ret = token /\ token \in pos .. n - 1
    BY <2>1 DEF FoundToken
  <2>5. r.ret # NULL
    BY <1>1, <1>2, <2>4, StringsAssumption
  <2> QED BY <2>2, <2>3, <2>4, <2>5, Zenon DEF StillSeen
<1> QED BY <1>3, <1>4, <1>5

(* What the client of strtok_r has seen, and where it goes on. *)
TokensInv ==
  call.op \in {"tokens", "no_tokens"} /\ strlen(before, 0) < Delimiters =>
    /\ before \in Memory
    /\ \E pos : /\ TokensSeen(tokens, mem, before, strlen(before, 0), KeptOf(before), pos)
                /\ call = Start("tokens") => pos = 0
                /\ call = [op |-> "tokens", first |-> FALSE] => pos = save_ptr
                /\ call.op = "no_tokens" => pos = strlen(before, 0)

LEMMA TokensInvInit == StringsInit => TokensInv
<1> SUFFICES ASSUME StringsInit, call.op \in {"tokens", "no_tokens"} PROVE TokensInv
  BY DEF TokensInv
<1>1. call = Start("tokens") /\ mem \in Memory
  BY OpOfStart DEF StringsInit
<1>2. PICK b : b = before
  OBVIOUS
<1>3. b = mem /\ b \in Memory /\ tokens = << >>
  BY <1>1, <1>2 DEF StringsInit
<1>4. PICK n, kept : n = strlen(b, 0) /\ kept = KeptOf(b)
  OBVIOUS
<1>5. n \in Nat /\ kept \subseteq 0 .. n - 1
  BY <1>3, <1>4, KeptIs
<1>6. TokensSeen(<< >>, b, b, n, kept, 0)
  BY <1>3, <1>5 DEF TokensSeen
<1>7. Start("tokens") # [op |-> "tokens", first |-> FALSE] /\ call.op # "no_tokens"
  BY <1>1 DEF Start
<1> QED BY <1>1, <1>2, <1>3, <1>4, <1>6, <1>7 DEF TokensInv

LEMMA TokensInvNext ==
  ASSUME CallInv, TokensInv, [StringsNext]_stringVars
  PROVE  TokensInv'
<1>1. CASE Tokenize
  <2>1. PICK b, n, kept : b = before /\ n = strlen(b, 0) /\ kept = KeptOf(b)
    OBVIOUS
  <2>2. /\ call.op = "tokens" /\ n < Delimiters /\ before' = b
    BY <1>1, <2>1 DEF Tokenize
  <2>3. PICK pos : /\ TokensSeen(tokens, mem, b, n, kept, pos)
                   /\ call = Start("tokens") => pos = 0
                   /\ call = [op |-> "tokens", first |-> FALSE] => pos = save_ptr
    BY <2>1, <2>2 DEF TokensInv
  <2>4. b \in Memory
    BY <2>1, <2>2 DEF TokensInv
  <2>5. call \in {Start("tokens"), [op |-> "tokens", first |-> FALSE]}
    BY <2>2, OpOfStart DEF CallInv, Starts
  <2>6. pos = IF call = Start("tokens") THEN 0 ELSE save_ptr
    BY <2>3, <2>5
  <2>7. PICK m, toks, r :
          m = mem /\ toks = tokens /\ r = strtok_r(m, pos, Delimiters)
    OBVIOUS
  <2>8. TokensSeen(toks, m, b, n, kept, pos)
    BY <2>3, <2>7
  <2>9. StillSeen(toks, b, n, kept, r)
    BY ONLY <2>1, <2>2, <2>4, <2>7, <2>8, StrtokSees
  <2>10. /\ mem' = r.mem /\ save_ptr' = r.save_ptr
         /\ IF r.ret = NULL
            THEN call' = [op |-> "no_tokens"] /\ tokens' = toks
            ELSE /\ tokens' = Append(toks, [first |-> r.ret, text |-> Text(r.mem, r.ret)])
                 /\ call' = [op |-> "tokens", first |-> FALSE]
    BY <1>1, <2>6, <2>7 DEF Tokenize
  <2>11. strlen(before', 0) = n /\ KeptOf(before') = kept /\ before' \in Memory
    BY <2>1, <2>2, <2>4
  <2>12. CASE r.ret = NULL
    <3>1. TokensSeen(tokens', mem', b, n, kept, n)
      BY <2>9, <2>10, <2>12 DEF StillSeen
    <3>2. call'.op = "no_tokens" /\ call' # Start("tokens")
          /\ call' # [op |-> "tokens", first |-> FALSE]
      BY <2>10, <2>12 DEF Start
    <3> QED BY <2>2, <2>11, <3>1, <3>2 DEF TokensInv
  <2>13. CASE r.ret # NULL
    <3>1. TokensSeen(tokens', mem', b, n, kept, save_ptr')
      BY <2>9, <2>10, <2>13 DEF StillSeen
    <3>2. call'.op # "no_tokens" /\ call' # Start("tokens")
      BY <2>10, <2>13 DEF Start
    <3> QED BY <2>2, <2>11, <3>1, <3>2 DEF TokensInv
  <2> QED BY <2>12, <2>13
<1>2. CASE Move \/ Fill \/ Copy
  <2>1. call'.op \in {"moved", "filled", "copied"}
    BY <1>2 DEF Move, Fill, Copy
  <2> QED BY <2>1 DEF TokensInv
<1>3. CASE UNCHANGED stringVars
  BY <1>3 DEF TokensInv, stringVars
<1> QED BY <1>1, <1>2, <1>3 DEF StringsNext

LEMMA TokensInvHolds == TokensInv => TokensAreFields
<1> SUFFICES ASSUME TokensInv, call.op \in {"tokens", "no_tokens"},
                    strlen(before, 0) < Delimiters
             PROVE  TokensAreFields
  BY DEF TokensAreFields
<1>1. PICK b, n, toks : b = before /\ n = strlen(b, 0) /\ toks = tokens
  OBVIOUS
<1>2. b \in Memory
  BY <1>1 DEF TokensInv
<1>3. PICK pos : /\ TokensSeen(toks, mem, b, n, Kept, pos)
                 /\ call.op = "no_tokens" => pos = n
  BY <1>1 DEF TokensInv, Kept, KeptOf
<1>4. /\ n \in Nat /\ Chars(b, 0) = 0 .. n - 1 /\ Kept \subseteq 0 .. n - 1
  BY <1>1, <1>2, KeptIs DEF Kept, KeptOf
<1>5. /\ DOMAIN toks = 1 .. Len(toks)
      /\ \A k \in 1 .. Len(toks) : GoodToken(toks, k, b, Kept)
      /\ \A a \in Kept : a < pos => \E k \in 1 .. Len(toks) : a \in Run(toks[k])
      /\ \A a \in Addr : mem[a] # b[a] => mem[a] = 0 /\ a \in (0 .. n - 1) \ Kept
  BY <1>3 DEF TokensSeen
<1>6. call.op = "no_tokens" => \A a \in Kept : \E k \in DOMAIN toks : a \in Run(toks[k])
  <2> SUFFICES ASSUME call.op = "no_tokens", NEW a \in Kept
               PROVE  \E k \in DOMAIN toks : a \in Run(toks[k])
    OBVIOUS
  <2>1. a < pos
    BY <1>3, <1>4
  <2> QED BY <1>5, <2>1
<1>7. \A a \in Addr : mem[a] # b[a] => mem[a] = 0 /\ a \in Chars(b, 0) \ Kept
  BY <1>4, <1>5
<1>8. \A k \in DOMAIN toks : GoodToken(toks, k, b, Kept)
  BY <1>5
<1>9. ASSUME NEW k \in DOMAIN tokens
      PROVE  LET first == tokens[k].first
                 next  == first + Len(tokens[k].text)
             IN /\ first < next /\ first .. next - 1 \subseteq Kept
                /\ first - 1 \notin Kept /\ next \notin Kept
                /\ \A a \in first .. next - 1 : tokens[k].text[a - first + 1] = before[a]
                /\ \A a \in Kept : a < next => \E j \in 1 .. k : a \in Run(tokens[j])
                /\ \A j \in 1 .. k - 1 : tokens[j].first < first
  <2>1. GoodToken(tokens, k, before, Kept)
    BY <1>1, <1>8
  <2> QED BY <2>1, Zenon DEF GoodToken
<1>10. /\ call.op = "no_tokens" =>
             \A a \in Kept : \E k \in DOMAIN tokens : a \in Run(tokens[k])
       /\ \A a \in Addr : mem[a] # before[a] =>
                            mem[a] = 0 /\ a \in Chars(before, 0) \ Kept
  BY <1>1, <1>6, <1>7
<1> QED BY <1>9, <1>10, Zenon DEF TokensAreFields

---------------------------------------------------------------------------
(* The properties, in every reachable state of the clients. *)

(* memmove, memcpy on blocks that do not overlap, and memset leave in      *)
(* their target what they promise and nothing else changed, whichever way  *)
(* the copying loop runs.                                                  *)
THEOREM StringsMoveBytes == StringsSpec => []MovesBytes
<1>1. StringsInit => CallInv /\ MovesBytes
  <2>1. StringsInit => call \in Starts
    BY DEF StringsInit, Starts
  <2>2. call \in Starts => MovesBytes
    BY OpOfStart DEF MovesBytes
  <2> QED BY <2>1, <2>2, CallInvInit
<1>2. CallInv /\ MovesBytes /\ [StringsNext]_stringVars => (CallInv /\ MovesBytes)'
  BY CallInvNext, MovesBytesNext
<1> QED BY <1>1, <1>2, PTL DEF StringsSpec

(* strlcpy and strlcat write nothing outside of the buffer, return the     *)
(* length that the whole string has and, unless the string there fills the *)
(* buffer already, leave as much of the whole as fits with a null byte.    *)
THEOREM StringsBoundedCopies == StringsSpec => []BoundedCopies
<1>1. StringsInit => CallInv /\ BoundedCopies
  <2>1. StringsInit => call \in Starts
    BY DEF StringsInit, Starts
  <2>2. call \in Starts => BoundedCopies
    BY OpOfStart DEF BoundedCopies
  <2> QED BY <2>1, <2>2, CallInvInit
<1>2. CallInv /\ BoundedCopies /\ [StringsNext]_stringVars => (CallInv /\ BoundedCopies)'
  BY CallInvNext, BoundedCopiesNext
<1> QED BY <1>1, <1>2, PTL DEF StringsSpec

(* Over repeated calls, strtok_r returns each field of the string once, in *)
(* order and unchanged, then NULL, and overwrites delimiters only.         *)
THEOREM StringsTokensAreFields == StringsSpec => []TokensAreFields
<1>1. StringsInit => CallInv /\ TokensInv
  BY CallInvInit, TokensInvInit
<1>2. CallInv /\ TokensInv /\ [StringsNext]_stringVars => (CallInv /\ TokensInv)'
  BY CallInvNext, TokensInvNext
<1>3. TokensInv => TokensAreFields
  BY TokensInvHolds
<1> QED BY <1>1, <1>2, <1>3, PTL DEF StringsSpec

(* The searches and comparisons of string.c find what they look for and    *)
(* nothing in front of it, and agree with one another, for every two       *)
(* strings in every memory.                                                *)
THEOREM StringsSearchesAgree == StringsSpec => []SearchesAgree
<1>1. StringsInit => CallInv
  BY CallInvInit
<1>2. CallInv /\ [StringsNext]_stringVars => CallInv'
  BY CallInvNext
<1>3. CallInv => SearchesAgree
  BY SearchesAgreeAlways
<1> QED BY <1>1, <1>2, <1>3, PTL DEF StringsSpec
============================================================================
