---------------------------- MODULE MallocProofs ----------------------------
(***************************************************************************)
(* Bitmaps of any width of words are sets of numbers, and the invariants   *)
(* of the heap, whose pages are kept in one, hold for pages, blocks and    *)
(* requests of any size and any number of pages.                           *)
(***************************************************************************)
EXTENDS Malloc, BitmapClient,
        FiniteSetTheorems, SequenceTheorems, WellFoundedInduction, TLAPS

---------------------------------------------------------------------------
(* Bitmaps. *)

(* The bitmaps bitmap_create_in_buf makes, and the numbers that are in one.*)
IsBitmap(b) ==
  /\ b \in [bit_cnt : Int, bits : [0 .. elem_cnt(b.bit_cnt) - 1 -> SUBSET (0 .. ELEM_BITS - 1)]]

Bits(b) == {i \in 0 .. b.bit_cnt - 1 : bitmap_test(b, i)}

---------------------------------------------------------------------------
(* Arithmetic. *)

(* Division leaves a remainder below the divisor ... *)
LEMMA Divided ==
  ASSUME NEW n \in Int, NEW d \in Nat \ {0}
  PROVE  /\ n \div d \in Int /\ n % d \in 0 .. d - 1
         /\ n = d * (n \div d) + (n % d)
<1>1. n \div d \in Int /\ n % d \in 0 .. d - 1
  OBVIOUS
<1>2. n = d * (n \div d) + (n % d)
  OBVIOUS
<1> QED BY <1>1, <1>2

(* ... and is the only way to write a number like this. *)
LEMMA DividedOnce ==
  ASSUME NEW d \in Nat \ {0}, NEW q \in Int, NEW r \in 0 .. d - 1
  PROVE  (d * q + r) \div d = q /\ (d * q + r) % d = r
OBVIOUS

(* A number below the modulus is its own remainder. *)
LEMMA Unchanged ==
  ASSUME NEW d \in Nat \ {0}, NEW r \in 0 .. d - 1
  PROVE  r % d = r
OBVIOUS

(* Two numbers with the same quotient and remainder are equal. *)
LEMMA SameParts ==
  ASSUME NEW d \in Nat \ {0}, NEW a \in Int, NEW b \in Int,
         a \div d = b \div d, a % d = b % d
  PROVE  a = b
BY Divided

(* Multiples of d grow with the factor. *)
LEMMA TimesMonotonic ==
  ASSUME NEW d \in Nat, NEW a \in Int, NEW b \in Int, a <= b
  PROVE  d * a \in Int /\ d * b \in Int /\ d * a <= d * b
OBVIOUS

(* A quotient is below a bound if the number is below its multiple. *)
LEMMA DivBelow ==
  ASSUME NEW d \in Nat \ {0}, NEW n \in Nat, NEW m \in Int, n < m
  PROVE  n \div d \in 0 .. ((m + d - 1) \div d) - 1
<1> DEFINE q == n \div d
           p == (m + d - 1) \div d
<1>1. q \in Int /\ p \in Int /\ n = d * q + (n % d) /\ n % d \in 0 .. d - 1
  BY Divided
<1>2. m + d - 1 = d * p + ((m + d - 1) % d) /\ (m + d - 1) % d \in 0 .. d - 1
  BY Divided, m + d - 1 \in Int
<1> HIDE DEF q, p
<1>3. 0 <= q
  <2>1. SUFFICES ASSUME q <= -1 PROVE FALSE
    BY <1>1
  <2>2. d * q <= d * (-1)
    BY <1>1, <2>1, TimesMonotonic
  <2> QED BY <1>1, <2>2
<1>4. q < p
  <2>1. SUFFICES ASSUME p <= q PROVE FALSE
    BY <1>1
  <2>2. d * p <= d * q
    BY <1>1, <2>1, TimesMonotonic
  <2> QED BY <1>1, <1>2, <2>2
<1> QED BY <1>1, <1>3, <1>4 DEF q, p

(* A set of naturals that is not empty has a least member, the one that    *)
(* Min picks.                                                              *)
LEMMA LeastBy ==
  ASSUME NEW R, NEW S \in SUBSET Nat, S # {}, IsWellFoundedOn(R, Nat),
         \A x, y \in Nat : x < y => <<x, y>> \in R
  PROVE  \E n \in S : \A m \in S : n <= m
<1>1. PICK x \in S : \A y \in S : ~(<<y, x>> \in R)
  <2>1. S \subseteq Nat
    OBVIOUS
  <2> QED BY ONLY <2>1, S # {}, IsWellFoundedOn(R, Nat), WFMin, Zenon
<1>2. \A y \in S : ~(y < x)
  BY <1>1
<1>3. \A y \in S : x \in Nat /\ y \in Nat
  OBVIOUS
<1> QED BY <1>2, <1>3

(* The least of a set of naturals. *)
LEMMA MinIsLeast ==
  ASSUME NEW S \in SUBSET Nat, S # {}
  PROVE  Min(S) \in S /\ \A m \in S : Min(S) <= m
<1> DEFINE R == OpToRel(<, Nat)
<1>1. IsWellFoundedOn(R, Nat)
  BY NatLessThanWellFounded
<1>2. \A x, y \in Nat : x < y => <<x, y>> \in R
  BY DEF OpToRel
<1> HIDE DEF R
<1>3. \E n \in S : \A m \in S : n <= m
  BY <1>1, <1>2, LeastBy
<1> QED BY <1>3 DEF Min

---------------------------------------------------------------------------
(* The bits of a word. *)

(* The place of a bit, its word and its position there, is in the bitmap. *)
LEMMA PlaceInBitmap ==
  ASSUME NEW n \in Int, NEW i \in 0 .. n - 1
  PROVE  elem_idx(i) \in 0 .. elem_cnt(n) - 1 /\ i % ELEM_BITS \in 0 .. ELEM_BITS - 1
<1>1. ELEM_BITS \in Nat \ {0} /\ i \in Nat /\ i < n
  BY BitmapAssumption
<1>2. i \div ELEM_BITS \in 0 .. ((n + ELEM_BITS - 1) \div ELEM_BITS) - 1
  BY <1>1, DivBelow
<1>3. i % ELEM_BITS \in 0 .. ELEM_BITS - 1
  BY <1>1, Divided
<1> QED BY <1>2, <1>3 DEF elem_idx, elem_cnt, DIV_ROUND_UP

(* bitmap_test looks at the one position of its mask. *)
LEMMA TestIsMember ==
  ASSUME NEW b, NEW i
  PROVE  bitmap_test(b, i) <=> i % ELEM_BITS \in b.bits[elem_idx(i)]
BY DEF bitmap_test, bit_mask

(* The mask of a range has the position of i in the word of i only for the *)
(* i of the range.                                                         *)
LEMMA InMask ==
  ASSUME NEW start \in Nat, NEW cnt \in Nat, NEW i \in Nat
  PROVE  i % ELEM_BITS \in MaskOf(elem_idx(i), start, cnt) <=> i \in start .. start + cnt - 1
<1>1. i % ELEM_BITS \in MaskOf(elem_idx(i), start, cnt)
        <=> \E j \in start .. start + cnt - 1 :
              elem_idx(j) = elem_idx(i) /\ i % ELEM_BITS = j % ELEM_BITS
  BY DEF MaskOf, bit_mask
<1>2. ASSUME NEW j \in start .. start + cnt - 1,
             elem_idx(j) = elem_idx(i), i % ELEM_BITS = j % ELEM_BITS
      PROVE  i = j
  <2>1. j \in Int /\ i \in Int /\ ELEM_BITS \in Nat \ {0}
    BY BitmapAssumption
  <2> QED BY <1>2, <2>1, SameParts DEF elem_idx
<1> QED BY <1>1, <1>2

(* bitmap_set_multiple puts a range of bits on or off and leaves the rest. *)
THEOREM SetMultiple ==
  ASSUME NEW b, IsBitmap(b), NEW start \in Nat, NEW cnt \in Nat,
         NEW value \in BOOLEAN
  PROVE  LET r == bitmap_set_multiple(b, start, cnt, value)
             range == start .. start + cnt - 1
         IN /\ IsBitmap(r) /\ r.bit_cnt = b.bit_cnt
            /\ value => Bits(r) = Bits(b) \cup (range \cap 0 .. b.bit_cnt - 1)
            /\ ~value => Bits(r) = Bits(b) \ range
<1> DEFINE r == bitmap_set_multiple(b, start, cnt, value)
           top == elem_cnt(b.bit_cnt) - 1
           range == start .. start + cnt - 1
<1>1. r = [b EXCEPT !.bits = [e \in 0 .. top |->
             IF value THEN b.bits[e] \cup MaskOf(e, start, cnt)
                      ELSE b.bits[e] \ MaskOf(e, start, cnt)]]
  BY DEF IsBitmap, bitmap_set_multiple
<1>2. /\ r.bit_cnt = b.bit_cnt
      /\ r.bits = [e \in 0 .. top |-> IF value THEN b.bits[e] \cup MaskOf(e, start, cnt)
                                                ELSE b.bits[e] \ MaskOf(e, start, cnt)]
      /\ r = [bit_cnt |-> r.bit_cnt, bits |-> r.bits]
  BY <1>1 DEF IsBitmap
<1>3. \A e : MaskOf(e, start, cnt) \subseteq 0 .. ELEM_BITS - 1
  <2>1. \A i \in start .. start + cnt - 1 : i % ELEM_BITS \in 0 .. ELEM_BITS - 1
    BY BitmapAssumption, Divided
  <2> QED BY <2>1 DEF MaskOf, bit_mask
<1> HIDE DEF r
<1>4. IsBitmap(r)
  BY <1>2, <1>3 DEF IsBitmap
<1>5. ASSUME NEW i \in 0 .. b.bit_cnt - 1
      PROVE  bitmap_test(r, i) <=> IF value THEN bitmap_test(b, i) \/ i \in range
                                            ELSE bitmap_test(b, i) /\ i \notin range
  <2>1. b.bit_cnt \in Int /\ i \in Nat
    BY DEF IsBitmap
  <2>2. elem_idx(i) \in 0 .. top
    BY <2>1, PlaceInBitmap
  <2>3. i % ELEM_BITS \in r.bits[elem_idx(i)]
          <=> IF value THEN i % ELEM_BITS \in b.bits[elem_idx(i)] \cup MaskOf(elem_idx(i), start, cnt)
                       ELSE i % ELEM_BITS \in b.bits[elem_idx(i)] \ MaskOf(elem_idx(i), start, cnt)
    BY <1>2, <2>2
  <2>4. i % ELEM_BITS \in MaskOf(elem_idx(i), start, cnt) <=> i \in range
    BY <2>1, InMask
  <2> QED BY <2>3, <2>4, TestIsMember
<1>6. Bits(r) = IF value THEN Bits(b) \cup (range \cap 0 .. b.bit_cnt - 1) ELSE Bits(b) \ range
  BY <1>2, <1>5 DEF Bits
<1> QED BY <1>2, <1>4, <1>6 DEF r

(* Setting bits adds those that are within the map. *)
LEMMA SetOn ==
  ASSUME NEW b, IsBitmap(b), NEW start \in Nat, NEW cnt \in Nat
  PROVE  LET r == bitmap_set_multiple(b, start, cnt, TRUE)
         IN /\ IsBitmap(r) /\ r.bit_cnt = b.bit_cnt
            /\ Bits(r) = Bits(b) \cup ((start .. start + cnt - 1) \cap 0 .. b.bit_cnt - 1)
<1>1. TRUE \in BOOLEAN
  OBVIOUS
<1> QED BY <1>1, SetMultiple, Zenon

(* Clearing bits takes them away. *)
LEMMA SetOff ==
  ASSUME NEW b, IsBitmap(b), NEW start \in Nat, NEW cnt \in Nat
  PROVE  LET r == bitmap_set_multiple(b, start, cnt, FALSE)
         IN /\ IsBitmap(r) /\ r.bit_cnt = b.bit_cnt
            /\ Bits(r) = Bits(b) \ (start .. start + cnt - 1)
<1>1. \A v \in BOOLEAN :
        LET r == bitmap_set_multiple(b, start, cnt, v)
        IN /\ IsBitmap(r) /\ r.bit_cnt = b.bit_cnt
           /\ ~v => Bits(r) = Bits(b) \ (start .. start + cnt - 1)
  BY SetMultiple
<1>2. FALSE \in BOOLEAN /\ ~FALSE
  OBVIOUS
<1> QED BY ONLY <1>1, <1>2, Zenon

---------------------------------------------------------------------------
(* Scans. *)

(* A place where cnt bits fit and none of them is other than wanted. *)
LEMMA ContainsOther ==
  ASSUME NEW b, NEW i \in Int, NEW cnt \in Int, NEW value \in BOOLEAN
  PROVE  bitmap_contains(b, i, cnt, ~value)
           <=> \E j \in i .. i + cnt - 1 : ~(bitmap_test(b, j) <=> value)
BY DEF bitmap_contains, bitmap_test

(* bitmap_scan finds the first run of cnt bits that are on (off), and      *)
(* BITMAP_ERROR says that there is none.                                   *)
THEOREM ScanFindsFirst ==
  ASSUME NEW b, b.bit_cnt \in Int, NEW start \in Nat, NEW cnt \in Nat, NEW value \in BOOLEAN
  PROVE  LET i == bitmap_scan(b, start, cnt, value)
             Run(p) == \A j \in p .. p + cnt - 1 : bitmap_test(b, j) <=> value
         IN IF i = BITMAP_ERROR
            THEN \A p \in start .. b.bit_cnt - cnt : ~Run(p)
            ELSE /\ i \in start .. b.bit_cnt - cnt /\ Run(i)
                 /\ \A p \in start .. i - 1 : ~Run(p)
<1> DEFINE found == {i \in start .. b.bit_cnt - cnt : ~bitmap_contains(b, i, cnt, ~value)}
           i == bitmap_scan(b, start, cnt, value)
           Run(p) == \A j \in p .. p + cnt - 1 : bitmap_test(b, j) <=> value
<1>1. \A p \in start .. b.bit_cnt - cnt : p \in found <=> Run(p)
  <2> TAKE p \in start .. b.bit_cnt - cnt
  <2>1. p \in found <=> ~bitmap_contains(b, p, cnt, ~value)
    OBVIOUS
  <2>2. p \in Int /\ cnt \in Int
    OBVIOUS
  <2>3. bitmap_contains(b, p, cnt, ~value)
          <=> \E j \in p .. p + cnt - 1 : ~(bitmap_test(b, j) <=> value)
    BY ONLY <2>2, value \in BOOLEAN, ContainsOther, Zenon
  <2> QED BY <2>1, <2>3
<1>2. i = IF found = {} THEN BITMAP_ERROR ELSE Min(found)
  BY DEF bitmap_scan
<1>3. found \in SUBSET Nat
  OBVIOUS
<1>4. found \subseteq start .. b.bit_cnt - cnt
  OBVIOUS
<1> HIDE DEF found, i, Run
<1>5. CASE found = {}
  BY <1>1, <1>2, <1>5 DEF i, Run
<1>6. CASE found # {}
  <2>1. i \in found /\ \A m \in found : i <= m
    BY <1>2, <1>3, <1>6, MinIsLeast
  <2>2. i # BITMAP_ERROR
    BY <2>1, <1>3, BitmapAssumption
  <2>3. i \in start .. b.bit_cnt - cnt /\ Run(i) /\ \A p \in start .. i - 1 : ~Run(p)
    BY <1>1, <1>4, <2>1
  <2> QED BY <2>2, <2>3 DEF i, Run
<1> QED BY <1>5, <1>6

(* A scan for clear bits finds the first run of cnt, if there is one. *)
LEMMA ScanOff ==
  ASSUME NEW b, b.bit_cnt \in Int, NEW start \in Nat, NEW cnt \in Nat
  PROVE  LET i == bitmap_scan(b, start, cnt, FALSE)
             Run(p) == \A j \in p .. p + cnt - 1 : ~bitmap_test(b, j)
         IN IF i = BITMAP_ERROR
            THEN \A p \in start .. b.bit_cnt - cnt : ~Run(p)
            ELSE /\ i \in start .. b.bit_cnt - cnt /\ Run(i)
                 /\ \A p \in start .. i - 1 : ~Run(p)
<1>1. FALSE \in BOOLEAN
  OBVIOUS
<1> QED BY <1>1, ScanFindsFirst, Zenon

---------------------------------------------------------------------------
(* One bit. *)

(* A change of the word of a bit at the place of the bit alone. *)
ChangedWord(b, i, w, r) ==
  /\ w \in SUBSET (0 .. ELEM_BITS - 1)
  /\ \A k : k # i % ELEM_BITS => (k \in w <=> k \in b.bits[elem_idx(i)])
  /\ r = [bit_cnt |-> b.bit_cnt, bits |-> [b.bits EXCEPT ![elem_idx(i)] = w]]

LEMMA ChangeWord ==
  ASSUME NEW b, IsBitmap(b), NEW i \in 0 .. b.bit_cnt - 1, NEW w, NEW r,
         ChangedWord(b, i, w, r)
  PROVE  /\ IsBitmap(r) /\ r.bit_cnt = b.bit_cnt
         /\ \A j : j \in Bits(r) <=> IF j = i THEN i % ELEM_BITS \in w ELSE j \in Bits(b)
<1>1. b.bit_cnt \in Int /\ b.bits \in [0 .. elem_cnt(b.bit_cnt) - 1 -> SUBSET (0 .. ELEM_BITS - 1)]
  BY DEF IsBitmap
<1>2. elem_idx(i) \in 0 .. elem_cnt(b.bit_cnt) - 1
  BY <1>1, PlaceInBitmap
<1>3. /\ r.bit_cnt = b.bit_cnt
      /\ r.bits = [b.bits EXCEPT ![elem_idx(i)] = w]
      /\ IsBitmap(r)
  BY <1>1, <1>2 DEF IsBitmap, ChangedWord
<1> USE DEF ChangedWord
<1>4. ASSUME NEW j \in 0 .. b.bit_cnt - 1
      PROVE  bitmap_test(r, j) <=> IF j = i THEN i % ELEM_BITS \in w ELSE bitmap_test(b, j)
  <2>1. CASE elem_idx(j) # elem_idx(i)
    <3>1. r.bits[elem_idx(j)] = b.bits[elem_idx(j)]
      BY <1>1, <1>3, <2>1
    <3> QED BY <2>1, <3>1, TestIsMember
  <2>2. CASE elem_idx(j) = elem_idx(i)
    <3>1. r.bits[elem_idx(j)] = w
      BY <1>1, <1>2, <1>3, <2>2
    <3>2. j # i => j % ELEM_BITS # i % ELEM_BITS
      <4>1. j \in Int /\ i \in Int /\ ELEM_BITS \in Nat \ {0}
        BY <1>1, BitmapAssumption
      <4> QED BY <2>2, <4>1, SameParts DEF elem_idx
    <3> QED BY <2>2, <3>1, <3>2, TestIsMember
  <2> QED BY <2>1, <2>2
<1> QED BY <1>3, <1>4 DEF Bits

(* bitmap_mark, bitmap_reset and bitmap_flip change one bit. *)
LEMMA OneBit ==
  ASSUME NEW b, IsBitmap(b), NEW i \in 0 .. b.bit_cnt - 1
  PROVE  /\ IsBitmap(bitmap_mark(b, i)) /\ bitmap_mark(b, i).bit_cnt = b.bit_cnt
         /\ Bits(bitmap_mark(b, i)) = Bits(b) \cup {i}
         /\ IsBitmap(bitmap_reset(b, i)) /\ bitmap_reset(b, i).bit_cnt = b.bit_cnt
         /\ Bits(bitmap_reset(b, i)) = Bits(b) \ {i}
         /\ IsBitmap(bitmap_flip(b, i)) /\ bitmap_flip(b, i).bit_cnt = b.bit_cnt
         /\ Bits(bitmap_flip(b, i)) = IF i \in Bits(b) THEN Bits(b) \ {i} ELSE Bits(b) \cup {i}
<1> DEFINE e == elem_idx(i)
           k == i % ELEM_BITS
           w == b.bits[e]
<1>1. /\ b.bit_cnt \in Int
      /\ b.bits \in [0 .. elem_cnt(b.bit_cnt) - 1 -> SUBSET (0 .. ELEM_BITS - 1)]
  BY DEF IsBitmap
<1>2. w \in SUBSET (0 .. ELEM_BITS - 1) /\ k \in 0 .. ELEM_BITS - 1
  BY <1>1, PlaceInBitmap
<1>3. i \in Bits(b) <=> k \in w
  BY TestIsMember DEF Bits
<1>4. ASSUME NEW v \in SUBSET (0 .. ELEM_BITS - 1), \A x : x # k => (x \in v <=> x \in w),
             NEW r, r = [bit_cnt |-> b.bit_cnt, bits |-> [b.bits EXCEPT ![e] = v]]
      PROVE  /\ IsBitmap(r) /\ r.bit_cnt = b.bit_cnt
             /\ \A j : j \in Bits(r) <=> IF j = i THEN k \in v ELSE j \in Bits(b)
  <2>1. IsBitmap(b) /\ i \in 0 .. b.bit_cnt - 1
    OBVIOUS
  <2>2. ChangedWord(b, i, v, r)
    BY <1>4 DEF ChangedWord
  <2>3. /\ IsBitmap(r) /\ r.bit_cnt = b.bit_cnt
        /\ \A j : j \in Bits(r) <=> IF j = i THEN i % ELEM_BITS \in v ELSE j \in Bits(b)
    BY ONLY <2>1, <2>2, ChangeWord
  <2> QED BY <2>3
<1>5. b = [bit_cnt |-> b.bit_cnt, bits |-> b.bits]
  BY DEF IsBitmap
<1>6. /\ IsBitmap(bitmap_mark(b, i)) /\ bitmap_mark(b, i).bit_cnt = b.bit_cnt
      /\ Bits(bitmap_mark(b, i)) = Bits(b) \cup {i}
  <2>1. PICK r : r = bitmap_mark(b, i)
    OBVIOUS
  <2>2. r = [bit_cnt |-> b.bit_cnt, bits |-> [b.bits EXCEPT ![e] = w \cup {k}]]
    BY <1>5, <2>1 DEF bitmap_mark, bit_mask
  <2> HIDE DEF k, w, e
  <2>3. /\ IsBitmap(r) /\ r.bit_cnt = b.bit_cnt
        /\ \A j : j \in Bits(r) <=> IF j = i THEN k \in w \cup {k} ELSE j \in Bits(b)
    BY <1>2, <1>4, <2>2
  <2> QED BY <2>1, <2>3
<1>7. /\ IsBitmap(bitmap_reset(b, i)) /\ bitmap_reset(b, i).bit_cnt = b.bit_cnt
      /\ Bits(bitmap_reset(b, i)) = Bits(b) \ {i}
  <2>1. PICK r : r = bitmap_reset(b, i)
    OBVIOUS
  <2>2. r = [bit_cnt |-> b.bit_cnt, bits |-> [b.bits EXCEPT ![e] = w \ {k}]]
    BY <1>5, <2>1 DEF bitmap_reset, bit_mask
  <2> HIDE DEF k, w, e
  <2>3. /\ IsBitmap(r) /\ r.bit_cnt = b.bit_cnt
        /\ \A j : j \in Bits(r) <=> IF j = i THEN k \in w \ {k} ELSE j \in Bits(b)
    BY <1>2, <1>4, <2>2
  <2> QED BY <2>1, <2>3
<1>8. /\ IsBitmap(bitmap_flip(b, i)) /\ bitmap_flip(b, i).bit_cnt = b.bit_cnt
      /\ Bits(bitmap_flip(b, i)) = IF i \in Bits(b) THEN Bits(b) \ {i} ELSE Bits(b) \cup {i}
  <2>1. PICK r : r = bitmap_flip(b, i)
    OBVIOUS
  <2>2. r = [bit_cnt |-> b.bit_cnt,
             bits |-> [b.bits EXCEPT ![e] = (w \ {k}) \cup ({k} \ w)]]
    BY <1>5, <2>1 DEF bitmap_flip, bit_mask
  <2> HIDE DEF k, w, e
  <2>3. /\ IsBitmap(r) /\ r.bit_cnt = b.bit_cnt
        /\ \A j : j \in Bits(r)
                    <=> IF j = i THEN k \in (w \ {k}) \cup ({k} \ w) ELSE j \in Bits(b)
    BY <1>2, <1>4, <2>2
  <2> QED BY <1>3, <2>1, <2>3
<1> QED BY <1>6, <1>7, <1>8

---------------------------------------------------------------------------
(* The client. *)

(* The bitmap is the set the client has put into it. *)
BitmapInv ==
  /\ IsBitmap(bitmap) /\ bitmap.bit_cnt \in 0 .. BitCnt
  /\ on = Bits(bitmap)

(* bitmap_create_in_buf makes an empty set of whatever was in the memory. *)
LEMMA CreateEmpty ==
  ASSUME NEW n \in Nat, NEW junk \in Words(n)
  PROVE  LET b == bitmap_create_in_buf(n, junk)
         IN IsBitmap(b) /\ b.bit_cnt = n /\ Bits(b) = {}
<1>1. PICK b : b = [bit_cnt |-> n, bits |-> junk]
  OBVIOUS
<1>2. IsBitmap(b) /\ b.bit_cnt = n
  BY <1>1 DEF IsBitmap, Words
<1>3. bitmap_create_in_buf(n, junk) = bitmap_set_multiple(b, 0, n, FALSE)
  BY <1>1, <1>2 DEF bitmap_create_in_buf, bitmap_set_all
<1>4. PICK r : r = bitmap_set_multiple(b, 0, n, FALSE)
  OBVIOUS
<1>5. 0 \in Nat /\ n \in Nat
  OBVIOUS
<1>6. IsBitmap(r) /\ r.bit_cnt = n /\ Bits(r) = Bits(b) \ (0 .. 0 + n - 1)
  BY ONLY <1>2, <1>4, <1>5, SetOff, Zenon
<1>7. Bits(r) = {}
  BY <1>2, <1>6 DEF Bits
<1> QED BY <1>3, <1>4, <1>6, <1>7

(* A range the client sets or clears lies in the bitmap. *)
LEMMA ChangeRange ==
  ASSUME BitmapInv, NEW start \in Nat, NEW cnt \in Nat, start + cnt <= bitmap.bit_cnt,
         NEW value \in BOOLEAN, bitmap' = bitmap_set_multiple(bitmap, start, cnt, value),
         on' = IF value THEN on \cup BitsOf(start, cnt) ELSE on \ BitsOf(start, cnt)
  PROVE  BitmapInv'
<1>1. PICK b, r : b = bitmap /\ r = bitmap'
  OBVIOUS
<1>2. /\ IsBitmap(b) /\ on = Bits(b) /\ b.bit_cnt \in 0 .. BitCnt
      /\ r = bitmap_set_multiple(b, start, cnt, value)
  BY <1>1 DEF BitmapInv
<1>3. /\ IsBitmap(r) /\ r.bit_cnt = b.bit_cnt
      /\ value => Bits(r) = Bits(b) \cup (BitsOf(start, cnt) \cap 0 .. b.bit_cnt - 1)
      /\ ~value => Bits(r) = Bits(b) \ BitsOf(start, cnt)
  <2>1. IsBitmap(b)
    BY <1>2
  <2>2. LET q == bitmap_set_multiple(b, start, cnt, value)
            range == start .. start + cnt - 1
        IN /\ IsBitmap(q) /\ q.bit_cnt = b.bit_cnt
           /\ value => Bits(q) = Bits(b) \cup (range \cap 0 .. b.bit_cnt - 1)
           /\ ~value => Bits(q) = Bits(b) \ range
    BY ONLY <2>1, start \in Nat, cnt \in Nat, value \in BOOLEAN, SetMultiple
  <2> QED BY ONLY <1>2, <2>2, Zenon DEF BitsOf
<1>4. BitsOf(start, cnt) \subseteq 0 .. b.bit_cnt - 1
  BY <1>1, <1>2, BitmapClientAssumption DEF BitsOf
<1>5. on' = Bits(r)
  BY <1>2, <1>3, <1>4
<1> QED BY <1>1, <1>2, <1>3, <1>5 DEF BitmapInv, IsBitmap, Bits, bitmap_test

(* Every step of the client changes the bitmap the way it changes the set. *)
LEMMA BitmapNextInv ==
  ASSUME BitmapInv, [BitmapNext]_bitmapVars
  PROVE  BitmapInv'
<1>1. PICK b, r : b = bitmap /\ r = bitmap'
  OBVIOUS
<1>2. IsBitmap(b) /\ on = Bits(b) /\ b.bit_cnt \in Nat /\ b.bit_cnt \in 0 .. BitCnt
  BY <1>1, BitmapClientAssumption DEF BitmapInv
<1>3. SUFFICES (IsBitmap(r) /\ r.bit_cnt = b.bit_cnt /\ on' = Bits(r)) \/ BitmapInv'
  BY <1>1, <1>2 DEF BitmapInv, IsBitmap, Bits, bitmap_test
<1>4. CASE SetBit
  <2>1. PICK i \in 0 .. b.bit_cnt - 1 :
          \/ r = bitmap_mark(b, i) /\ on' = on \cup {i}
          \/ r = bitmap_reset(b, i) /\ on' = on \ {i}
          \/ r = bitmap_flip(b, i) /\ on' = IF i \in on THEN on \ {i} ELSE on \cup {i}
    BY <1>1, <1>4 DEF SetBit
  <2>2. /\ IsBitmap(r) /\ r.bit_cnt = b.bit_cnt
        /\ \/ Bits(r) = Bits(b) \cup {i} /\ on' = on \cup {i}
           \/ Bits(r) = Bits(b) \ {i} /\ on' = on \ {i}
           \/ /\ Bits(r) = IF i \in Bits(b) THEN Bits(b) \ {i} ELSE Bits(b) \cup {i}
              /\ on' = IF i \in on THEN on \ {i} ELSE on \cup {i}
    <3>1. PICK m, c, f : m = bitmap_mark(b, i) /\ c = bitmap_reset(b, i) /\ f = bitmap_flip(b, i)
      OBVIOUS
    <3>2. /\ IsBitmap(m) /\ m.bit_cnt = b.bit_cnt /\ Bits(m) = Bits(b) \cup {i}
          /\ IsBitmap(c) /\ c.bit_cnt = b.bit_cnt /\ Bits(c) = Bits(b) \ {i}
          /\ IsBitmap(f) /\ f.bit_cnt = b.bit_cnt
          /\ Bits(f) = IF i \in Bits(b) THEN Bits(b) \ {i} ELSE Bits(b) \cup {i}
      BY <1>2, <3>1, OneBit
    <3> QED BY <2>1, <3>1, <3>2
  <2> QED BY <1>2, <2>2
<1>5. CASE SetRange
  <2>1. PICK p \in BitRange, value \in BOOLEAN :
          /\ bitmap' = bitmap_set_multiple(bitmap, p[1], p[2], value)
          /\ on' = IF value THEN on \cup BitsOf(p[1], p[2]) ELSE on \ BitsOf(p[1], p[2])
    BY <1>5 DEF SetRange
  <2>2. p[1] \in Nat /\ p[2] \in Nat /\ p[1] + p[2] <= bitmap.bit_cnt
    BY BitmapClientAssumption DEF BitRange
  <2> QED BY <2>1, <2>2, ChangeRange
<1>6. CASE Claim
  <2>1. PICK start \in 0 .. b.bit_cnt, cnt \in 0 .. BitCnt + 1, value \in BOOLEAN :
          LET s == bitmap_scan_and_flip(b, start, cnt, value)
          IN /\ r = s.bitmap
             /\ on' = IF s.idx = BITMAP_ERROR THEN on
                      ELSE IF value THEN on \ BitsOf(s.idx, cnt)
                      ELSE on \cup BitsOf(s.idx, cnt)
    BY <1>1, <1>6 DEF Claim
  <2>2. PICK i : i = bitmap_scan(b, start, cnt, value)
    OBVIOUS
  <2>3. /\ r = IF i = BITMAP_ERROR THEN b ELSE bitmap_set_multiple(b, i, cnt, ~value)
        /\ on' = IF i = BITMAP_ERROR THEN on
                 ELSE IF value THEN on \ BitsOf(i, cnt) ELSE on \cup BitsOf(i, cnt)
    BY <2>1, <2>2 DEF bitmap_scan_and_flip
  <2>4. CASE i = BITMAP_ERROR
    BY <1>2, <2>3, <2>4
  <2>5. CASE i # BITMAP_ERROR
    <3>1. start \in Nat /\ cnt \in Nat /\ b.bit_cnt \in Int
      BY <1>2, BitmapClientAssumption
    <3>2. i \in start .. b.bit_cnt - cnt
      BY ONLY <2>2, <2>5, <3>1, value \in BOOLEAN, ScanFindsFirst
    <3>3. i \in Nat /\ i + cnt <= b.bit_cnt
      BY <3>1, <3>2
    <3>4. PICK v \in BOOLEAN : v = ~value
      OBVIOUS
    <3>5. /\ bitmap' = bitmap_set_multiple(bitmap, i, cnt, v)
          /\ on' = IF v THEN on \cup BitsOf(i, cnt) ELSE on \ BitsOf(i, cnt)
      BY <1>1, <2>3, <2>5, <3>4
    <3> QED BY <1>1, <3>1, <3>3, <3>5, ChangeRange
  <2> QED BY <2>4, <2>5
<1>7. CASE UNCHANGED bitmapVars
  BY <1>1, <1>2, <1>7 DEF bitmapVars
<1> QED BY <1>4, <1>5, <1>6, <1>7 DEF BitmapNext

(* Initially the set is empty. *)
LEMMA BitmapInitInv == BitmapInit => BitmapInv
<1> SUFFICES ASSUME BitmapInit PROVE BitmapInv
  OBVIOUS
<1>1. PICK b, n :
        /\ n \in 0 .. BitCnt
        /\ b = bitmap
        /\ \E junk \in Words(n) : b = bitmap_create_in_buf(n, junk)
        /\ on = {}
  BY DEF BitmapInit
<1>2. n \in Nat
  BY <1>1, BitmapClientAssumption
<1>3. IsBitmap(b) /\ b.bit_cnt = n /\ Bits(b) = {}
  BY <1>1, <1>2, CreateEmpty
<1> QED BY <1>1, <1>3 DEF BitmapInv, IsBitmap, Bits, bitmap_test

(* The size of a part of a range of bits. *)
LEMMA PartOfRange ==
  ASSUME NEW S, NEW start \in Nat, NEW cnt \in Nat
  PROVE  LET part == S \cap (start .. start + cnt - 1)
             rest == (start .. start + cnt - 1) \ S
             n == Cardinality(part)
         IN /\ n \in Nat
            /\ Cardinality(rest) = cnt - n
            /\ n > 0 <=> part # {}
            /\ n = cnt <=> rest = {}
<1> DEFINE range == start .. start + cnt - 1
           part == S \cap range
           rest == range \ S
<1>1. IsFiniteSet(range) /\ Cardinality(range) = cnt
  <2>1. start \in Int /\ start + cnt - 1 \in Int
    OBVIOUS
  <2>2. IsFiniteSet(range) /\ Cardinality(range) = IF start > start + cnt - 1 THEN 0
                                                   ELSE start + cnt - 1 - start + 1
    BY <2>1, FS_Interval
  <2> QED BY <2>2
<1>2. IsFiniteSet(part) /\ IsFiniteSet(rest)
  <2>1. part \subseteq range /\ rest \subseteq range
    OBVIOUS
  <2> QED BY ONLY <1>1, <2>1, FS_Subset, Zenon
<1>3. part \cup rest = range /\ part \cap rest = {}
  OBVIOUS
<1> HIDE DEF range, part, rest
<1>4. /\ Cardinality(part) \in Nat /\ Cardinality(rest) \in Nat
      /\ Cardinality(part) = 0 <=> part = {}
      /\ Cardinality(rest) = 0 <=> rest = {}
  BY <1>2, FS_CardinalityType, FS_EmptySet
<1>5. cnt = Cardinality(part) + Cardinality(rest)
  <2>1. Cardinality(part \cup rest)
          = Cardinality(part) + Cardinality(rest) - Cardinality(part \cap rest)
    BY ONLY <1>2, FS_Union, Zenon
  <2>2. Cardinality({}) = 0
    BY FS_EmptySet
  <2>3. Cardinality(part \cup rest) = cnt /\ Cardinality(part \cap rest) = 0
    BY ONLY <1>1, <1>3, <2>2, Zenon
  <2> QED BY ONLY <1>4, <2>1, <2>3, cnt \in Nat
<1>6. /\ Cardinality(part) \in Nat
      /\ Cardinality(rest) = cnt - Cardinality(part)
      /\ Cardinality(part) > 0 <=> part # {}
      /\ Cardinality(part) = cnt <=> rest = {}
  BY ONLY <1>4, <1>5, cnt \in Nat
<1> QED BY <1>6 DEF range, part, rest

(* Counts and tests of a range see the set. *)
LEMMA CountsSeeSet ==
  ASSUME NEW b, IsBitmap(b), NEW start \in Nat, NEW cnt \in Nat, start + cnt <= b.bit_cnt
  PROVE  LET n == Cardinality(Bits(b) \cap (start .. start + cnt - 1))
         IN /\ bitmap_count(b, start, cnt, TRUE) = n
            /\ bitmap_count(b, start, cnt, FALSE) = cnt - n
            /\ bitmap_any(b, start, cnt) <=> n > 0
            /\ bitmap_none(b, start, cnt) <=> n = 0
            /\ bitmap_all(b, start, cnt) <=> n = cnt
<1> DEFINE range == start .. start + cnt - 1
           part == Bits(b) \cap range
           rest == range \ Bits(b)
           n == Cardinality(part)
<1>1. \A i \in range : bitmap_test(b, i) <=> i \in Bits(b)
  BY DEF Bits, IsBitmap
<1>2. /\ n \in Nat /\ Cardinality(rest) = cnt - n
      /\ n > 0 <=> part # {}
      /\ n = cnt <=> rest = {}
  <2>1. LET p == Bits(b) \cap (start .. start + cnt - 1)
            q == (start .. start + cnt - 1) \ Bits(b)
            m == Cardinality(p)
        IN /\ m \in Nat
           /\ Cardinality(q) = cnt - m
           /\ m > 0 <=> p # {}
           /\ m = cnt <=> q = {}
    BY ONLY start \in Nat, cnt \in Nat, PartOfRange
  <2> QED BY ONLY <2>1, Zenon DEF n, part, rest, range
<1>3. /\ {i \in range : bitmap_test(b, i) = TRUE} = part
      /\ {i \in range : bitmap_test(b, i) = FALSE} = rest
  <2>1. \A i \in range : /\ bitmap_test(b, i) = TRUE <=> i \in part
                         /\ bitmap_test(b, i) = FALSE <=> i \in rest
    BY <1>1 DEF bitmap_test
  <2>2. part \subseteq range /\ rest \subseteq range
    OBVIOUS
  <2> HIDE DEF part, rest, range
  <2> QED BY <2>1, <2>2
<1>4. /\ bitmap_count(b, start, cnt, TRUE) = Cardinality(part)
      /\ bitmap_count(b, start, cnt, FALSE) = Cardinality(rest)
  BY ONLY <1>3, Zenon DEF bitmap_count, range
<1>5. /\ bitmap_any(b, start, cnt) <=> part # {}
      /\ bitmap_none(b, start, cnt) <=> part = {}
      /\ bitmap_all(b, start, cnt) <=> rest = {}
  <2>1. /\ bitmap_contains(b, start, cnt, TRUE) <=> \E i \in range : bitmap_test(b, i) = TRUE
        /\ bitmap_contains(b, start, cnt, FALSE) <=> \E i \in range : bitmap_test(b, i) = FALSE
    BY DEF bitmap_contains
  <2>2. /\ bitmap_contains(b, start, cnt, TRUE) <=> part # {}
        /\ bitmap_contains(b, start, cnt, FALSE) <=> rest # {}
    <3> HIDE DEF part, rest, range
    <3> QED BY <1>3, <2>1
  <2> QED BY <2>2 DEF bitmap_any, bitmap_none, bitmap_all
<1>6. n = 0 <=> ~(n > 0)
  BY <1>2
<1> HIDE DEF part, rest
<1>7. /\ bitmap_count(b, start, cnt, TRUE) = n
      /\ bitmap_count(b, start, cnt, FALSE) = cnt - n
      /\ bitmap_any(b, start, cnt) <=> n > 0
      /\ bitmap_none(b, start, cnt) <=> n = 0
      /\ bitmap_all(b, start, cnt) <=> n = cnt
  BY <1>2, <1>4, <1>5, <1>6
<1> QED BY <1>7 DEF n, part, range

(* A search sees the set too: its places are those where the bits fit. *)
LEMMA ScanSeesSet ==
  ASSUME BitmapInv, NEW start \in Nat, NEW cnt \in Nat, NEW value \in BOOLEAN
  PROVE  bitmap_scan(bitmap, start, cnt, value)
           = IF RunPlaces(start, cnt, value) = {} THEN BITMAP_ERROR
             ELSE Min(RunPlaces(start, cnt, value))
<1>1. PICK b : b = bitmap
  OBVIOUS
<1>2. IsBitmap(b) /\ on = Bits(b) /\ b.bit_cnt \in Int
  BY <1>1, BitmapClientAssumption DEF BitmapInv
<1> DEFINE found == {i \in start .. b.bit_cnt - cnt : ~bitmap_contains(b, i, cnt, ~value)}
<1>3. ASSUME NEW p \in start .. b.bit_cnt - cnt
      PROVE  ~bitmap_contains(b, p, cnt, ~value)
               <=> IF value THEN BitsOf(p, cnt) \subseteq on ELSE BitsOf(p, cnt) \cap on = {}
  <2>1. p \in Int /\ cnt \in Int
    BY <1>2
  <2>2. bitmap_contains(b, p, cnt, ~value)
          <=> \E j \in BitsOf(p, cnt) : ~(bitmap_test(b, j) <=> value)
    BY ONLY <2>1, value \in BOOLEAN, ContainsOther, Zenon DEF BitsOf
  <2>3. \A j \in BitsOf(p, cnt) : bitmap_test(b, j) <=> j \in on
    <3>1. \A j \in BitsOf(p, cnt) : j \in 0 .. b.bit_cnt - 1
      BY <1>2 DEF BitsOf
    <3> QED BY <1>2, <3>1 DEF Bits
  <2> QED BY ONLY <2>2, <2>3, value \in BOOLEAN
<1>4. found = RunPlaces(start, cnt, value)
  BY <1>1, <1>3 DEF RunPlaces
<1>5. bitmap_scan(b, start, cnt, value) = IF found = {} THEN BITMAP_ERROR ELSE Min(found)
  BY DEF bitmap_scan
<1> HIDE DEF found
<1> QED BY <1>1, <1>4, <1>5

(* So the invariant is what BitmapIsSet says. *)
LEMMA InvIsSet == BitmapInv => BitmapIsSet
<1> SUFFICES ASSUME BitmapInv PROVE BitmapIsSet
  OBVIOUS
<1>1. PICK b : b = bitmap
  OBVIOUS
<1>2. IsBitmap(b) /\ on = Bits(b) /\ b.bit_cnt \in 0 .. BitCnt /\ BitCnt \in Nat
  BY <1>1, BitmapClientAssumption DEF BitmapInv
<1>3. \A i \in 0 .. bitmap.bit_cnt - 1 : bitmap_test(bitmap, i) <=> i \in on
  BY <1>1, <1>2 DEF Bits
<1>4. ASSUME NEW r \in BitRange
      PROVE  LET n == Cardinality(on \cap BitsOf(r[1], r[2]))
             IN /\ bitmap_count(bitmap, r[1], r[2], TRUE) = n
                /\ bitmap_count(bitmap, r[1], r[2], FALSE) = r[2] - n
                /\ bitmap_any(bitmap, r[1], r[2]) <=> n > 0
                /\ bitmap_none(bitmap, r[1], r[2]) <=> n = 0
                /\ bitmap_all(bitmap, r[1], r[2]) <=> n = r[2]
  <2>1. PICK start, cnt : start = r[1] /\ cnt = r[2]
    OBVIOUS
  <2>2. start \in Nat /\ cnt \in Nat /\ start + cnt <= b.bit_cnt
    BY <1>1, <1>2, <2>1 DEF BitRange
  <2>3. LET n == Cardinality(Bits(b) \cap (start .. start + cnt - 1))
        IN /\ bitmap_count(b, start, cnt, TRUE) = n
           /\ bitmap_count(b, start, cnt, FALSE) = cnt - n
           /\ bitmap_any(b, start, cnt) <=> n > 0
           /\ bitmap_none(b, start, cnt) <=> n = 0
           /\ bitmap_all(b, start, cnt) <=> n = cnt
    BY ONLY <1>2, <2>2, CountsSeeSet
  <2> QED BY ONLY <1>1, <1>2, <2>1, <2>3, Zenon DEF BitsOf
<1>5. \A start \in 0 .. bitmap.bit_cnt, cnt \in 0 .. BitCnt + 1, value \in BOOLEAN :
        bitmap_scan(bitmap, start, cnt, value)
          = IF RunPlaces(start, cnt, value) = {} THEN BITMAP_ERROR
            ELSE Min(RunPlaces(start, cnt, value))
  <2> TAKE start \in 0 .. bitmap.bit_cnt, cnt \in 0 .. BitCnt + 1, value \in BOOLEAN
  <2>1. start \in Nat /\ cnt \in Nat
    BY <1>1, <1>2
  <2> QED BY <2>1, ScanSeesSet
<1> QED BY ONLY <1>3, <1>4, <1>5, Zenon DEF BitmapIsSet

(* Whatever a client does with a bitmap, in memory that held anything and  *)
(* in words of any width, it stays the set of the bits the client has put  *)
(* on, and every test, count and search answers for that set.              *)
THEOREM BitmapStaysSet == BitmapSpec => []BitmapIsSet
<1>1. BitmapInv /\ [BitmapNext]_bitmapVars => BitmapInv'
  BY BitmapNextInv
<1> QED BY BitmapInitInv, <1>1, InvIsSet, PTL DEF BitmapSpec

---------------------------------------------------------------------------
(* Free lists. *)

(* A function on 1 .. n is a sequence of length n. *)
LEMMA FunctionIsSeq ==
  ASSUME NEW S, NEW n \in Nat, NEW f \in [1 .. n -> S]
  PROVE  f \in Seq(S) /\ Len(f) = n
<1>1. f \in Seq(S)
  OBVIOUS
<1> QED BY <1>1, LenProperties

(* list_pop_front. *)
LEMMA PopFront ==
  ASSUME NEW S, NEW s \in Seq(S), s # <<>>, IsInjective(s)
  PROVE  /\ Tail(s) \in Seq(S) /\ IsInjective(Tail(s))
         /\ Head(s) \in ToSet(s) /\ ToSet(Tail(s)) = ToSet(s) \ {Head(s)}
<1>1. /\ Tail(s) \in Seq(S) /\ Len(s) \in Nat \ {0}
      /\ Len(Tail(s)) = Len(s) - 1
      /\ \A i \in 1 .. Len(Tail(s)) : Tail(s)[i] = s[i + 1]
      /\ Head(s) = s[1]
  BY HeadTailProperties, LenProperties, EmptySeq
<1>2. DOMAIN s = 1 .. Len(s) /\ DOMAIN Tail(s) = 1 .. Len(s) - 1
  BY <1>1, LenProperties
<1>3. IsInjective(Tail(s))
  BY <1>1, <1>2 DEF IsInjective
<1>4. ToSet(Tail(s)) = ToSet(s) \ {Head(s)}
  <2>1. ASSUME NEW x \in ToSet(s), x # Head(s)  PROVE x \in ToSet(Tail(s))
    <3>1. PICK i \in 1 .. Len(s) : x = s[i]
      BY <1>2 DEF ToSet
    <3>2. i # 1
      BY <1>1, <2>1, <3>1
    <3>3. i - 1 \in 1 .. Len(s) - 1 /\ Tail(s)[i - 1] = x
      BY <1>1, <3>1, <3>2
    <3> QED BY <1>2, <3>3 DEF ToSet
  <2>2. ASSUME NEW x \in ToSet(Tail(s))  PROVE x \in ToSet(s) /\ x # Head(s)
    <3>1. PICK i \in 1 .. Len(s) - 1 : x = Tail(s)[i]
      BY <1>2 DEF ToSet
    <3>2. x = s[i + 1] /\ i + 1 \in 1 .. Len(s) /\ i + 1 # 1 /\ 1 \in 1 .. Len(s)
      BY <1>1, <3>1
    <3> QED BY <1>1, <1>2, <3>2 DEF ToSet, IsInjective
  <2> QED BY <2>1, <2>2
<1>5. Head(s) \in ToSet(s)
  <2>1. 1 \in DOMAIN s
    BY <1>1, <1>2
  <2> QED BY <1>1, <2>1 DEF ToSet
<1> QED BY <1>1, <1>3, <1>4, <1>5

(* list_push_front of what is not on the list. *)
LEMMA PushFront ==
  ASSUME NEW S, NEW s \in Seq(S), NEW x \in S, x \notin ToSet(s), IsInjective(s)
  PROVE  /\ <<x>> \o s \in Seq(S) /\ IsInjective(<<x>> \o s)
         /\ ToSet(<<x>> \o s) = ToSet(s) \cup {x}
<1> DEFINE r == <<x>> \o s
<1>1. /\ r \in Seq(S) /\ Len(s) \in Nat /\ Len(r) = Len(s) + 1
      /\ DOMAIN s = 1 .. Len(s) /\ DOMAIN r = 1 .. Len(s) + 1
      /\ \A i \in 1 .. Len(s) + 1 : r[i] = IF i = 1 THEN x ELSE s[i - 1]
  <2>1. <<x>> \in Seq(S) /\ Len(<<x>>) = 1 /\ <<x>>[1] = x
    OBVIOUS
  <2>2. /\ r \in Seq(S) /\ Len(r) = 1 + Len(s)
        /\ \A i \in 1 .. 1 + Len(s) : r[i] = IF i <= 1 THEN <<x>>[i] ELSE s[i - 1]
    BY <2>1, ConcatProperties
  <2> HIDE DEF r
  <2>3. Len(s) \in Nat /\ DOMAIN s = 1 .. Len(s) /\ DOMAIN r = 1 .. Len(r)
    BY <2>2, LenProperties
  <2> QED BY <2>1, <2>2, <2>3
<1> HIDE DEF r
<1>2. \A i \in 1 .. Len(s) : s[i] \in ToSet(s) /\ r[i + 1] = s[i]
  BY <1>1 DEF ToSet
<1>3. IsInjective(r)
  <2>1. SUFFICES ASSUME NEW i \in 1 .. Len(s) + 1, NEW j \in 1 .. Len(s) + 1, r[i] = r[j]
                 PROVE  i = j
    BY <1>1 DEF IsInjective
  <2>2. CASE i = 1 \/ j = 1
    BY <1>1, <1>2, <2>1, <2>2
  <2>3. CASE i # 1 /\ j # 1
    <3>1. i - 1 \in 1 .. Len(s) /\ j - 1 \in 1 .. Len(s) /\ s[i - 1] = s[j - 1]
      BY <1>1, <2>1, <2>3
    <3>2. i - 1 = j - 1
      BY <1>1, <3>1 DEF IsInjective
    <3> QED BY <3>2
  <2> QED BY <2>2, <2>3
<1>4. ToSet(r) = ToSet(s) \cup {x}
  <2>1. \A i \in 1 .. Len(s) + 1 : r[i] \in ToSet(s) \cup {x}
    BY <1>1, <1>2
  <2>2. x = r[1] /\ 1 \in DOMAIN r /\ \A i \in 1 .. Len(s) : s[i] = r[i + 1] /\ i + 1 \in DOMAIN r
    BY <1>1, <1>2
  <2>3. ToSet(r) \subseteq ToSet(s) \cup {x}
    BY <1>1, <2>1 DEF ToSet
  <2>4. ToSet(s) \cup {x} \subseteq ToSet(r)
    <3>1. x \in ToSet(r)
      BY <2>2, Zenon DEF ToSet
    <3>2. ASSUME NEW i \in 1 .. Len(s) PROVE s[i] \in ToSet(r)
      BY <2>2, Zenon DEF ToSet
    <3> QED BY <1>1, <3>1, <3>2 DEF ToSet
  <2> QED BY <2>3, <2>4
<1> QED BY <1>1, <1>3, <1>4 DEF r

(* In a finite set of numbers each has a rank of its own, and each rank up *)
(* to the cardinality is one's.                                            *)
LEMMA Ranks ==
  ASSUME NEW n \in Nat, NEW K \in SUBSET (1 .. n)
  PROVE  LET rank(i) == Cardinality({j \in K : j <= i})
         IN /\ IsFiniteSet(K) /\ Cardinality(K) \in Nat
            /\ \A i \in K : rank(i) \in 1 .. Cardinality(K)
            /\ \A i, j \in K : rank(i) = rank(j) => i = j
            /\ \A k \in 1 .. Cardinality(K) : \E i \in K : rank(i) = k
<1> DEFINE rank(i) == Cardinality({j \in K : j <= i})
           f == [i \in K |-> rank(i)]
<1>1. IsFiniteSet(K) /\ Cardinality(K) \in Nat
  <2>1. IsFiniteSet(1 .. n)
    BY FS_Interval
  <2>2. IsFiniteSet(K)
    BY <2>1, FS_Subset
  <2> QED BY <2>2, FS_CardinalityType
<1>2. ASSUME NEW i \in K
      PROVE  /\ IsFiniteSet({j \in K : j <= i}) /\ rank(i) \in 1 .. Cardinality(K)
  <2>1. {j \in K : j <= i} \in SUBSET K /\ i \in {j \in K : j <= i}
    OBVIOUS
  <2> DEFINE below == {j \in K : j <= i}
  <2> HIDE DEF below
  <2>2. IsFiniteSet(below) /\ Cardinality(below) <= Cardinality(K)
    BY <1>1, <2>1, FS_Subset DEF below
  <2>3. Cardinality(below) \in Nat /\ Cardinality(below) # 0
    BY <2>1, <2>2, FS_CardinalityType, FS_EmptySet DEF below
  <2> QED BY <1>1, <2>2, <2>3 DEF below
<1>3. ASSUME NEW i \in K, NEW j \in K, i < j  PROVE rank(i) # rank(j)
  <2> DEFINE A == {k \in K : k <= i}
             B == {k \in K : k <= j}
  <2>1. A \in SUBSET B /\ j \in B /\ j \notin A
    <3>1. \A k \in K : k \in Nat
      OBVIOUS
    <3>2. \A k \in K : k <= i => k <= j
      BY <1>3, <3>1
    <3>3. j <= j /\ ~(j <= i)
      BY <1>3, <3>1
    <3> QED BY <3>2, <3>3
  <2>2. IsFiniteSet(B)
    <3>1. B \in SUBSET K
      OBVIOUS
    <3> HIDE DEF B
    <3> QED BY <1>1, <3>1, FS_Subset
  <2> HIDE DEF A, B
  <2>3. Cardinality(A) # Cardinality(B)
    BY <2>1, <2>2, FS_Subset
  <2> QED BY <2>3 DEF A, B
<1>4. \A i, j \in K : rank(i) = rank(j) => i = j
  BY <1>3
<1> HIDE DEF rank
<1>5. f \in Injection(K, 1 .. Cardinality(K))
  BY <1>2, <1>4 DEF Injection, IsInjective
<1>6. IsFiniteSet(1 .. Cardinality(K)) /\ Cardinality(1 .. Cardinality(K)) = Cardinality(K)
  BY <1>1, FS_Interval
<1>7. f \in Surjection(K, 1 .. Cardinality(K))
  BY <1>5, <1>6, FS_Injection
<1>8. \A k \in 1 .. Cardinality(K) : \E i \in K : rank(i) = k
  BY <1>7 DEF Surjection
<1> QED BY <1>1, <1>2, <1>4, <1>8 DEF rank

(* list_remove of all of S. *)
LEMMA ListRemove ==
  ASSUME NEW T, NEW s \in Seq(T), NEW S, IsInjective(s)
  PROVE  /\ list_remove(s, S) \in Seq(T) /\ IsInjective(list_remove(s, S))
         /\ ToSet(list_remove(s, S)) = ToSet(s) \ S
<1> DEFINE kept == {i \in DOMAIN s : s[i] \notin S}
           rank(i) == Cardinality({j \in kept : j <= i})
           place(k) == CHOOSE i \in kept : rank(i) = k
           r == list_remove(s, S)
<1>1. s \in [1 .. Len(s) -> T] /\ Len(s) \in Nat
  BY LenProperties
<1>2. kept \in SUBSET (1 .. Len(s))
  BY <1>1
<1>3. r = [k \in 1 .. Cardinality(kept) |-> s[place(k)]]
  BY DEF list_remove
<1> HIDE DEF kept, r
<1>4. /\ Cardinality(kept) \in Nat
      /\ \A i \in kept : rank(i) \in 1 .. Cardinality(kept)
      /\ \A i, j \in kept : rank(i) = rank(j) => i = j
      /\ \A k \in 1 .. Cardinality(kept) : \E i \in kept : rank(i) = k
  BY <1>1, <1>2, Ranks
<1> HIDE DEF rank
<1>5. \A k \in 1 .. Cardinality(kept) : place(k) \in kept /\ rank(place(k)) = k
  BY <1>4
<1> HIDE DEF place
<1>6. \A i \in kept : i \in 1 .. Len(s) /\ s[i] \in T /\ s[i] \notin S
  BY <1>1 DEF kept
<1>7. r \in [1 .. Cardinality(kept) -> T]
  BY <1>3, <1>5, <1>6
<1>8. r \in Seq(T) /\ DOMAIN r = 1 .. Cardinality(kept)
  BY <1>4, <1>7, FunctionIsSeq
<1>9. IsInjective(r)
  <2>1. ASSUME NEW k \in 1 .. Cardinality(kept), NEW m \in 1 .. Cardinality(kept), r[k] = r[m]
        PROVE  k = m
    <3>1. place(k) = place(m)
      BY <1>1, <1>3, <1>5, <1>6, <2>1 DEF IsInjective
    <3> QED BY <1>5, <3>1
  <2> QED BY <1>8, <2>1 DEF IsInjective
<1>10. ToSet(r) = ToSet(s) \ S
  <2>1. ASSUME NEW x \in ToSet(r)  PROVE x \in ToSet(s) \ S
    <3>1. PICK k \in 1 .. Cardinality(kept) : x = r[k]
      BY <1>8 DEF ToSet
    <3>2. x = s[place(k)] /\ place(k) \in kept
      BY <1>3, <1>5, <3>1
    <3> QED BY <1>1, <1>6, <3>2 DEF ToSet
  <2>2. ASSUME NEW x \in ToSet(s) \ S  PROVE x \in ToSet(r)
    <3>1. PICK i \in 1 .. Len(s) : x = s[i]
      BY <1>1 DEF ToSet
    <3>2. i \in kept
      BY <1>1, <2>2, <3>1 DEF kept
    <3>3. place(rank(i)) = i /\ rank(i) \in 1 .. Cardinality(kept)
      <4>1. rank(i) \in 1 .. Cardinality(kept)
        BY <1>4, <3>2
      <4>2. place(rank(i)) \in kept /\ rank(place(rank(i))) = rank(i)
        BY <1>5, <4>1
      <4>3. \A j \in kept : rank(j) = rank(i) => j = i
        BY <1>4, <3>2
      <4> QED BY <4>1, <4>2, <4>3
    <3>4. r[rank(i)] = x
      BY <1>3, <3>1, <3>3
    <3> QED BY <1>8, <3>3, <3>4 DEF ToSet
  <2> QED BY <2>1, <2>2
<1> QED BY <1>8, <1>9, <1>10 DEF r

---------------------------------------------------------------------------
(* Pages and blocks. *)

(* The pool begins at a page, behind the bitmap of the adjusted chunk.     *)
LEMMA Chunk ==
  ASSUME ~NoMemory
  PROVE  /\ page_cnt \in Nat /\ \E k \in Nat : base = PGSIZE * k
         /\ mem.start \in Nat /\ mem.size \in Nat /\ mem.size < WORD
         /\ mem.start % PGSIZE = 0
         /\ AdjustedMem.start \in Nat /\ AdjustedMem.size \in Nat /\ AdjustedMem.size < WORD
         /\ free_pages \in Nat /\ PGSIZE * free_pages <= AdjustedMem.size
         /\ bm_pages \in Nat \ {0}
<1>1. PGSIZE \in Nat \ {0} /\ WORD \in Nat \ {0} /\ ELEM_BITS \in Nat \ {0}
      /\ sizeof_bitmap \in Nat /\ sizeof_elem \in Nat
  BY PallocAssumption, BitmapAssumption
<1>2. tag \in DOMAIN atags
  <2> DEFINE found == {i \in 1 .. Len(atags) : atags[i].value = ATAG_MEM}
  <2>1. tag # NULL /\ tag = IF found = {} THEN NULL ELSE Min(found)
    BY DEF NoMemory, tag, get_atag
  <2>2. found \in SUBSET Nat /\ found \subseteq 1 .. Len(atags)
    OBVIOUS
  <2> HIDE DEF found
  <2>3. tag \in 1 .. Len(atags)
    BY <2>1, <2>2, MinIsLeast
  <2> QED BY <2>3, PallocAssumption, LenProperties
<1>3. /\ AdjustedMem.start \in Nat /\ AdjustedMem.size \in Nat
      /\ AdjustedMem.start % PGSIZE = 0 /\ AdjustedMem.size < WORD
      /\ mem.start \in Nat /\ mem.size \in Nat /\ mem.size < WORD /\ mem.start % PGSIZE = 0
  <2>1. mem \in [value : {ATAG_MEM, ATAG_CORE}, start : Nat, size : Nat] /\ mem.start % PGSIZE = 0
        /\ mem.start + mem.size < WORD
    <3> DEFINE Tags == [value : {ATAG_MEM, ATAG_CORE}, start : Nat, size : Nat]
    <3>1. atags \in Seq(Tags) /\ \A i \in DOMAIN atags :
            atags[i].start % PGSIZE = 0 /\ atags[i].start + atags[i].size < WORD
      BY PallocAssumption
    <3> HIDE DEF Tags
    <3>2. atags[tag] \in Tags
      BY <1>2, <3>1, LenProperties
    <3> QED BY <1>2, <3>1, <3>2 DEF mem, Tags
  <2>2. kernel.end \in Nat /\ kernel.end % PGSIZE = 0
    BY PallocAssumption
  <2>3. (kernel.end + mem.size - kernel.end) % WORD \in 0 .. WORD - 1
    <3>1. kernel.end + mem.size - kernel.end \in Int
      BY <2>1, <2>2
    <3>2. \A n \in Int : n % WORD \in 0 .. WORD - 1
      BY <1>1, Divided
    <3> QED BY <3>1, <3>2
  <2>4. mem.size < WORD
    BY <1>1, <2>1
  <2> QED BY <1>1, <2>1, <2>2, <2>3, <2>4 DEF AdjustedMem
<1>4. \A n \in Nat, d \in Nat \ {0} : n \div d \in Nat
  <2> SUFFICES ASSUME NEW n \in Nat, NEW d \in Nat \ {0}  PROVE n \div d \in Nat
    OBVIOUS
  <2>1. n \div d \in Int /\ n = d * (n \div d) + (n % d) /\ n % d \in 0 .. d - 1
    BY Divided
  <2>2. n \div d <= -1 => d * (n \div d) <= d * (-1)
    BY <2>1, TimesMonotonic
  <2> QED BY <2>1, <2>2
<1>5. free_pages \in Nat
  BY <1>1, <1>3, <1>4 DEF free_pages
<1>6. elem_cnt(free_pages) \in Nat
  <2>1. free_pages + ELEM_BITS - 1 \in Nat
    BY <1>1, <1>5
  <2> QED BY <1>1, <1>4, <2>1 DEF elem_cnt, DIV_ROUND_UP
<1>7. bm_pages \in Nat
  <2>1. sizeof_elem * elem_cnt(free_pages) \in Nat
    BY <1>1, <1>6
  <2>2. bitmap_buf_size(free_pages) + PGSIZE - 1 \in Nat
    BY <1>1, <2>1 DEF bitmap_buf_size
  <2> QED BY <1>1, <1>4, <2>2 DEF bm_pages, DIV_ROUND_UP
<1>8. page_cnt \in Nat
  BY <1>5, <1>7 DEF NoMemory, page_cnt
<1>9. base = PGSIZE * (AdjustedMem.start \div PGSIZE + bm_pages)
  <2>1. AdjustedMem.start = PGSIZE * (AdjustedMem.start \div PGSIZE)
        /\ AdjustedMem.start \div PGSIZE \in Nat
    <3>1. \A n \in Nat : n % PGSIZE = 0 => n = PGSIZE * (n \div PGSIZE) /\ n \div PGSIZE \in Nat
      <4> SUFFICES ASSUME NEW n \in Nat, n % PGSIZE = 0
                   PROVE  n = PGSIZE * (n \div PGSIZE) /\ n \div PGSIZE \in Nat
        OBVIOUS
      <4>1. n = PGSIZE * (n \div PGSIZE) + (n % PGSIZE) /\ n \div PGSIZE \in Nat
        BY <1>1, <1>4, Divided
      <4> QED BY <1>1, <4>1
    <3> QED BY <1>3, <3>1
  <2> QED BY <1>1, <1>7, <2>1 DEF base
<1>10. AdjustedMem.start \div PGSIZE + bm_pages \in Nat
  BY <1>1, <1>3, <1>4, <1>7
<1>11. \E r \in 0 .. PGSIZE - 1 : AdjustedMem.size = PGSIZE * free_pages + r
  <2> DEFINE z == AdjustedMem.size
  <2>1. free_pages = z \div PGSIZE /\ z \in Nat
    BY <1>3 DEF free_pages
  <2> HIDE DEF z
  <2>2. z = PGSIZE * (z \div PGSIZE) + (z % PGSIZE) /\ z % PGSIZE \in 0 .. PGSIZE - 1
    BY <1>1, <2>1, Divided
  <2>3. \E r \in 0 .. PGSIZE - 1 : z = PGSIZE * free_pages + r
    BY <2>1, <2>2
  <2> QED BY <2>3 DEF z
<1>12. PGSIZE * free_pages <= AdjustedMem.size
  <2>1. PICK r \in 0 .. PGSIZE - 1 : AdjustedMem.size = PGSIZE * free_pages + r
    BY <1>11
  <2>2. PGSIZE * free_pages \in Int
    BY <1>1, <1>5
  <2> QED BY <1>1, <2>1, <2>2
<1>13. \A n \in Nat \ {0}, d \in Nat \ {0} : (n + d - 1) \div d # 0
  <2> SUFFICES ASSUME NEW n \in Nat \ {0}, NEW d \in Nat \ {0}, (n + d - 1) \div d = 0  PROVE FALSE
    OBVIOUS
  <2>1. n + d - 1 = d * 0 + ((n + d - 1) % d) /\ (n + d - 1) % d \in 0 .. d - 1
    BY Divided
  <2> QED BY <2>1
<1>14. bm_pages # 0
  <2>1. free_pages # 0
    <3>1. AdjustedMem.size >= PGSIZE
      BY <1>1, <1>3 DEF NoMemory
    <3>2. PICK r \in 0 .. PGSIZE - 1 : AdjustedMem.size = PGSIZE * free_pages + r
      BY <1>11
    <3> QED BY <1>1, <1>3, <1>5, <3>1, <3>2
  <2>2. elem_cnt(free_pages) \in Nat \ {0}
    BY <1>1, <1>5, <1>6, <1>13, <2>1 DEF elem_cnt, DIV_ROUND_UP
  <2> DEFINE m == elem_cnt(free_pages)
  <2>3. sizeof_elem * m \in Nat \ {0}
    <3>1. sizeof_elem \in Nat \ {0}
      BY PallocAssumption
    <3> HIDE DEF m
    <3>2. sizeof_elem * 1 <= sizeof_elem * m /\ sizeof_elem * m \in Int
      BY <2>2, <3>1, TimesMonotonic DEF m
    <3> QED BY <3>1, <3>2
  <2>4. bitmap_buf_size(free_pages) \in Nat \ {0}
    BY <1>1, <2>3 DEF bitmap_buf_size
  <2> QED BY <1>1, <1>13, <2>4 DEF bm_pages, DIV_ROUND_UP
<1> QED BY <1>3, <1>5, <1>7, <1>8, <1>9, <1>10, <1>12, <1>14

(* With memory to manage, the pages start at a page boundary. *)
LEMMA Pool ==
  ASSUME ~NoMemory
  PROVE  page_cnt \in Nat /\ \E k \in Nat : base = PGSIZE * k
BY Chunk

(* Where a byte of a page is. *)
LEMMA InPage ==
  ASSUME ~NoMemory, NEW i \in Int, NEW o \in 0 .. PGSIZE - 1
  PROVE  /\ Page(i) \in Int
         /\ pg_ofs(Page(i) + o) = o /\ pg_round_down(Page(i) + o) = Page(i)
         /\ page_idx(Page(i)) = i
<1>1. PICK k \in Nat : base = PGSIZE * k
  BY Pool
<1>2. PGSIZE \in Nat \ {0}
  BY PallocAssumption
<1>3. Page(i) = PGSIZE * (k + i) /\ k + i \in Int
  BY <1>1, <1>2 DEF Page
<1>4. Page(i) \in Int
  BY <1>2, <1>3
<1>5. (PGSIZE * (k + i) + o) % PGSIZE = o
  BY <1>2, <1>3, DividedOnce
<1>6. pg_ofs(Page(i) + o) = o
  BY <1>3, <1>5 DEF pg_ofs
<1>7. pg_round_down(Page(i) + o) = Page(i)
  BY <1>4, <1>6 DEF pg_round_down
<1>8. page_idx(Page(i)) = i
  <2>1. Page(i) - base = PGSIZE * i + 0 /\ 0 \in 0 .. PGSIZE - 1
    BY <1>1, <1>2 DEF Page
  <2>2. (PGSIZE * i + 0) \div PGSIZE = i
    BY <1>2, <2>1, DividedOnce
  <2> QED BY <2>1, <2>2 DEF page_idx
<1> QED BY <1>4, <1>6, <1>7, <1>8

Index == 0 .. page_cnt - 1

(* Different indices are different pages. *)
LEMMA PagesDiffer ==
  ASSUME ~NoMemory
  PROVE  /\ PGSIZE \in Nat \ {0} /\ 0 \in 0 .. PGSIZE - 1
         /\ \A a \in Pages : a \in Int /\ page_idx(a) \in Index /\ Page(page_idx(a)) = a
         /\ \A i \in Index : i \in Int /\ Page(i) \in Pages /\ page_idx(Page(i)) = i
<1>1. PGSIZE \in Nat \ {0} /\ 0 \in 0 .. PGSIZE - 1
  BY PallocAssumption
<1>2. \A i \in Index : i \in Int /\ Page(i) \in Int /\ page_idx(Page(i)) = i
  BY <1>1, Pool, InPage DEF Index
<1> QED BY <1>1, <1>2 DEF Pages, Index

Blocks(a, d) == {arena_to_block(a, d, i) : i \in 0 .. blocks_per_arena(d) - 1}

(* A descriptor's blocks fill a page behind the header and are apart. *)
LEMMA Descriptor ==
  ASSUME NEW d \in Desc
  PROVE  /\ d \in Nat \ {0} /\ blocks_per_arena(d) \in Nat \ {0}
         /\ sizeof_arena \in Nat \ {0} /\ sizeof_arena < PGSIZE
         /\ \A k \in 0 .. blocks_per_arena(d) - 1 :
              /\ k * d \in Nat /\ (k * d) % d = 0
              /\ sizeof_arena + k * d + d <= PGSIZE
         /\ \A k, m \in 0 .. blocks_per_arena(d) - 1 : k * d = m * d => k = m
<1> DEFINE n == blocks_per_arena(d)
<1>1. /\ d \in Nat \ {0} /\ d <= PGSIZE \div 2
      /\ sizeof_arena \in Nat \ {0} /\ sizeof_arena <= PGSIZE \div 2 /\ PGSIZE \in Nat \ {0}
  BY PallocAssumption, MallocAssumption DEF Desc
<1>2. sizeof_arena + d <= PGSIZE /\ sizeof_arena < PGSIZE
  <2>1. PGSIZE = 2 * (PGSIZE \div 2) + (PGSIZE % 2) /\ PGSIZE % 2 \in 0 .. 1 /\ PGSIZE \div 2 \in Int
    BY <1>1, Divided
  <2> QED BY <1>1, <2>1
<1>3. n \in Int /\ PGSIZE - sizeof_arena = d * n + ((PGSIZE - sizeof_arena) % d)
      /\ (PGSIZE - sizeof_arena) % d \in 0 .. d - 1
  <2>1. PGSIZE - sizeof_arena \in Int
    BY <1>1
  <2> QED BY <1>1, <2>1, Divided DEF blocks_per_arena
<1> HIDE DEF n
<1>4. n >= 1
  <2>1. n <= 0 => d * n <= d * 0
    BY <1>1, <1>3, TimesMonotonic
  <2>2. d * n > 0
    BY <1>1, <1>2, <1>3
  <2> QED BY <1>1, <1>3, <2>1, <2>2
<1>5. ASSUME NEW k \in 0 .. n - 1
      PROVE  k * d \in Nat /\ (k * d) % d = 0 /\ sizeof_arena + k * d + d <= PGSIZE
  <2>1. k \in Nat /\ k + 1 <= n
    BY <1>3
  <2>2. k * d = d * k + 0 /\ k * d \in Nat
    BY <1>1, <2>1
  <2>3. (d * k + 0) % d = 0
    BY <1>1, <2>1, DividedOnce
  <2>4. d * (k + 1) <= d * n /\ d * (k + 1) = k * d + d
    BY <1>1, <1>3, <2>1, TimesMonotonic
  <2> QED BY <1>1, <1>3, <2>2, <2>3, <2>4
<1>6. ASSUME NEW k \in 0 .. n - 1, NEW m \in 0 .. n - 1, k * d = m * d
      PROVE  k = m
  BY <1>1, <1>3, <1>6
<1> QED BY <1>1, <1>2, <1>3, <1>4, <1>5, <1>6 DEF n

(* A block lies in the page of its arena, at a place block_to_arena takes. *)
LEMMA BlockInPage ==
  ASSUME ~NoMemory, NEW d \in Desc, NEW a \in Pages, NEW b \in Blocks(a, d)
  PROVE  /\ b \in Int /\ pg_round_down(b) = a /\ (pg_ofs(b) - sizeof_arena) % d = 0
         /\ a < b /\ b + d <= a + PGSIZE
<1>1. PICK k \in 0 .. blocks_per_arena(d) - 1 : b = a + sizeof_arena + k * d
  BY DEF Blocks, arena_to_block
<1>2. /\ d \in Nat \ {0} /\ sizeof_arena \in Nat \ {0} /\ k * d \in Nat /\ (k * d) % d = 0
      /\ sizeof_arena + k * d + d <= PGSIZE /\ PGSIZE \in Nat
  BY Descriptor, PallocAssumption
<1>3. PICK i \in Index : a = Page(i) /\ i \in Int /\ a \in Int
  BY PagesDiffer
<1> DEFINE o == sizeof_arena + k * d
<1>4. o \in 0 .. PGSIZE - 1 /\ b = a + o
  BY <1>1, <1>2, <1>3
<1> HIDE DEF o
<1>5. pg_ofs(b) = o /\ pg_round_down(b) = a
  BY <1>3, <1>4, InPage
<1>6. o - sizeof_arena = k * d
  BY <1>2 DEF o
<1> QED BY <1>1, <1>2, <1>3, <1>4, <1>5, <1>6 DEF o

(* So are big blocks, and so the blocks of two pages are apart. *)
LEMMA BigInPage ==
  ASSUME ~NoMemory, NEW a \in Pages
  PROVE  /\ a + sizeof_arena \in Int /\ pg_round_down(a + sizeof_arena) = a
         /\ pg_ofs(a + sizeof_arena) = sizeof_arena /\ sizeof_arena \in 1 .. PGSIZE - 1
         /\ pg_ofs(a) = 0
<1>1. sizeof_arena \in 1 .. PGSIZE - 1 /\ PGSIZE \in Nat \ {0}
  <2>1. PGSIZE = 2 * (PGSIZE \div 2) + (PGSIZE % 2) /\ PGSIZE % 2 \in 0 .. 1 /\ PGSIZE \div 2 \in Int
    <3>1. PGSIZE \in Int /\ 2 \in Nat \ {0}
      BY PallocAssumption
    <3> QED BY <3>1, Divided
  <2> QED BY <2>1, PallocAssumption, MallocAssumption
<1>2. PICK i \in Index : a = Page(i) /\ i \in Int /\ a \in Int
  BY PagesDiffer
<1>3. pg_ofs(a + 0) = 0 /\ a + 0 = a
  BY <1>1, <1>2, InPage
<1> QED BY <1>1, <1>2, <1>3, InPage

(* There are as many blocks as blocks_per_arena says. *)
LEMMA BlocksCounted ==
  ASSUME ~NoMemory, NEW d \in Desc, NEW a \in Pages
  PROVE  /\ IsFiniteSet(Blocks(a, d)) /\ Cardinality(Blocks(a, d)) = blocks_per_arena(d)
<1> DEFINE n == blocks_per_arena(d)
           f == [k \in 0 .. n - 1 |-> arena_to_block(a, d, k)]
<1>1. n \in Nat \ {0} /\ IsFiniteSet(0 .. n - 1) /\ Cardinality(0 .. n - 1) = n
  <2>1. n \in Nat \ {0}
    BY Descriptor
  <2> HIDE DEF n
  <2>2. IsFiniteSet(0 .. n - 1) /\ Cardinality(0 .. n - 1) = (n - 1) - 0 + 1
    BY <2>1, FS_Interval
  <2> QED BY <2>1, <2>2
<1>2. f \in [0 .. n - 1 -> Blocks(a, d)]
  BY DEF Blocks
<1>3. \A b \in Blocks(a, d) : \E k \in 0 .. n - 1 : f[k] = b
  BY DEF Blocks
<1>4. ASSUME NEW k \in 0 .. n - 1, NEW m \in 0 .. n - 1, f[k] = f[m]
      PROVE  k = m
  <2>1. a \in Int /\ sizeof_arena \in Nat /\ k * d \in Nat /\ m * d \in Nat
    BY Descriptor, PagesDiffer
  <2>2. k * d = m * d
    BY <1>4, <2>1 DEF arena_to_block
  <2> QED BY <2>2, Descriptor
<1> HIDE DEF n, f
<1>5. f \in Surjection(0 .. n - 1, Blocks(a, d)) /\ f \in Injection(0 .. n - 1, Blocks(a, d))
  BY <1>2, <1>3, <1>4 DEF Surjection, Injection, IsInjective
<1> QED BY <1>1, <1>5, FS_Surjection DEF n

---------------------------------------------------------------------------
(* The inductive invariant.  A is the set of the blocks clients have, ar   *)
(* the field arena of the heap and fl the field free_list.                 *)

Header == [desc : Desc \cup {NULL}, free_cnt : Nat]

HeapTypeOK(h) ==
  h \in [used_map  : [bit_cnt : {page_cnt}, bits : Words(page_cnt)],
         arena     : [Pages -> Header \cup {NULL}],
         free_list : [Desc -> Seq(Int)],
         ok        : BOOLEAN]

Heads(ar) == {i \in Index : ar[Page(i)] # NULL}

(* The pages an arena or a big block takes up. *)
Span(ar, i) ==
  IF ar[Page(i)].desc = NULL THEN i .. i + ar[Page(i)].free_cnt - 1 ELSE {i}

(* The pages in use are those of arenas and of big blocks, which are apart.*)
SpansApart(map, ar) ==
  /\ \A i \in Heads(ar) : i \in Span(ar, i) /\ Span(ar, i) \subseteq Index
  /\ \A i, j \in Heads(ar) : i # j => Span(ar, i) \cap Span(ar, j) = {}
  /\ Bits(map) = UNION {Span(ar, i) : i \in Heads(ar)}

(* A block handed out is one of its arena, or is the big block. *)
InArena(ar, A) ==
  \A b \in A :
    /\ b \in Int /\ pg_round_down(b) \in Pages /\ ar[pg_round_down(b)] # NULL
    /\ IF ar[pg_round_down(b)].desc = NULL
       THEN b = pg_round_down(b) + sizeof_arena
       ELSE b \in Blocks(pg_round_down(b), ar[pg_round_down(b)].desc)

ArenasOf(ar, d) == {a \in Pages : ar[a] # NULL /\ ar[a].desc = d}

(* A free list has the blocks of its arenas that nobody has, each once. *)
ListsExact(ar, fl, A) ==
  \A d \in Desc :
    /\ IsInjective(fl[d])
    /\ ToSet(fl[d]) = UNION {Blocks(a, d) \ A : a \in ArenasOf(ar, d)}

CountsExact(ar, A) ==
  \A d \in Desc : \A a \in ArenasOf(ar, d) : ar[a].free_cnt = Cardinality(Blocks(a, d) \ A)

(* The heap between the steps of a call. *)
Consistent(h, A) ==
  /\ HeapTypeOK(h) /\ h.ok
  /\ SpansApart(h.used_map, h.arena)
  /\ InArena(h.arena, A)
  /\ ListsExact(h.arena, h.free_list, A)
  /\ CountsExact(h.arena, A)

(* Every arena has a block that somebody has. *)
Occupied(ar, A) == \A a \in Pages : ar[a] # NULL => \E b \in A : pg_round_down(b) = a

Addresses(blocks) == {g.addr : g \in blocks}

(* The blocks A keep their sizes. *)
KeepsSizes(ar, ar2, A) ==
  \A b \in A : LET a == pg_round_down(b)
              IN /\ ar2[a].desc = ar[a].desc
                 /\ ar[a].desc = NULL => ar2[a].free_cnt = ar[a].free_cnt

(* The heap h when clients have the blocks gs. *)
Sound(h, gs) ==
  /\ ~NoMemory
  /\ gs \subseteq [addr : Int, size : Int]
  /\ \A g, f \in gs : g.addr = f.addr => g = f
  /\ Consistent(h, Addresses(gs))
  /\ Occupied(h.arena, Addresses(gs))

HeapInv == Sound(heap, granted)

---------------------------------------------------------------------------
(* Pages. *)

(* A header is not NULL, and its descriptor is not NULL either unless it   *)
(* heads a big block.                                                      *)
LEMMA Headers ==
  /\ NULL \notin Header /\ NULL \notin Int /\ NULL \notin Desc
  /\ \A d \in Desc, n \in Nat : [desc |-> d, free_cnt |-> n] \in Header
  /\ \A n \in Nat : [desc |-> NULL, free_cnt |-> n] \in Header
<1>1. NULL \notin Int /\ Desc \subseteq Int
  BY PallocAssumption, Descriptor
<1>2. Header \subseteq [desc : Int \cup {NULL}, free_cnt : Nat]
  BY <1>1 DEF Header
<1> QED BY <1>1, <1>2, MallocAssumption DEF Header

(* The bitmap as the set of the pages in use. *)
LEMMA UsedMap ==
  ASSUME NEW map \in [bit_cnt : {page_cnt}, bits : Words(page_cnt)], ~NoMemory
  PROVE  /\ IsBitmap(map) /\ map.bit_cnt = page_cnt /\ Bits(map) \subseteq Index
         /\ \A i \in Index : bitmap_test(map, i) <=> i \in Bits(map)
<1>1. map.bit_cnt = page_cnt /\ page_cnt \in Nat
  BY Pool
<1> QED BY <1>1 DEF IsBitmap, Words, Bits, Index

(* palloc_get_multiple finds free pages and marks them used, or fails and  *)
(* changes nothing when no run of n pages is free.                         *)
LEMMA GetPages ==
  ASSUME ~NoMemory, NEW map \in [bit_cnt : {page_cnt}, bits : Words(page_cnt)], NEW n \in Nat
  PROVE  LET got == palloc_get_multiple(map, n)
         IN \/ /\ got.pages = NULL /\ got.used_map = map
               /\ n # 0 => \A i \in 0 .. page_cnt - n : (i .. i + n - 1) \cap Bits(map) # {}
            \/ \E i \in Index :
                 /\ n # 0 /\ i + n <= page_cnt
                 /\ got.pages = Page(i) /\ got.pages # NULL
                 /\ (i .. i + n - 1) \cap Bits(map) = {}
                 /\ got.used_map \in [bit_cnt : {page_cnt}, bits : Words(page_cnt)]
                 /\ Bits(got.used_map) = Bits(map) \cup (i .. i + n - 1)
<1> DEFINE i == bitmap_scan(map, 0, n, FALSE)
           got == palloc_get_multiple(map, n)
           r == bitmap_set_multiple(map, i, n, TRUE)
<1>1. /\ IsBitmap(map) /\ map.bit_cnt = page_cnt /\ page_cnt \in Nat
      /\ \A j \in Index : bitmap_test(map, j) <=> j \in Bits(map)
  BY UsedMap, Pool
<1>2. got = IF n = 0 \/ i = BITMAP_ERROR THEN [pages |-> NULL, used_map |-> map]
                                         ELSE [pages |-> Page(i), used_map |-> r]
  BY DEF palloc_get_multiple, bitmap_scan_and_flip
<1>3. IF i = BITMAP_ERROR
      THEN \A p \in 0 .. page_cnt - n : ~(\A j \in p .. p + n - 1 : ~bitmap_test(map, j))
      ELSE i \in 0 .. page_cnt - n /\ \A j \in i .. i + n - 1 : ~bitmap_test(map, j)
  <2>1. map.bit_cnt \in Int /\ 0 \in Nat
    BY <1>1
  <2> DEFINE Run(p) == \A j \in p .. p + n - 1 : ~bitmap_test(map, j)
             s == bitmap_scan(map, 0, n, FALSE)
  <2>2. IF s = BITMAP_ERROR
        THEN \A p \in 0 .. map.bit_cnt - n : ~Run(p)
        ELSE /\ s \in 0 .. map.bit_cnt - n /\ Run(s)
             /\ \A p \in 0 .. s - 1 : ~Run(p)
    BY ONLY <2>1, n \in Nat, ScanOff, Zenon
  <2> HIDE DEF s, Run
  <2>3. IF s = BITMAP_ERROR
        THEN \A p \in 0 .. page_cnt - n : ~Run(p)
        ELSE s \in 0 .. page_cnt - n /\ Run(s)
    BY <1>1, <2>2
  <2> QED BY <2>3 DEF s, Run
<1> HIDE DEF i, got, r
<1>4. CASE n = 0
  BY <1>2, <1>4 DEF got
<1>5. CASE n # 0 /\ i = BITMAP_ERROR
  <2>1. ASSUME NEW p \in 0 .. page_cnt - n  PROVE (p .. p + n - 1) \cap Bits(map) # {}
    <3>1. PICK j \in p .. p + n - 1 : bitmap_test(map, j)
      BY <1>3, <1>5
    <3>2. j \in Index
      BY <1>1 DEF Index
    <3> QED BY <1>1, <3>1, <3>2
  <2> QED BY <1>2, <1>5, <2>1 DEF got
<1>6. CASE n # 0 /\ i # BITMAP_ERROR
  <2>1. i \in Nat /\ i + n <= page_cnt /\ i \in Index /\ i .. i + n - 1 \subseteq Index
    BY <1>1, <1>3, <1>6 DEF Index
  <2>2. \A j \in i .. i + n - 1 : j \notin Bits(map)
    BY <1>1, <1>3, <1>6, <2>1
  <2>3. /\ IsBitmap(r) /\ r.bit_cnt = page_cnt
        /\ Bits(r) = Bits(map) \cup (i .. i + n - 1)
    <3>1. /\ IsBitmap(r) /\ r.bit_cnt = map.bit_cnt
          /\ Bits(r) = Bits(map) \cup ((i .. i + n - 1) \cap 0 .. map.bit_cnt - 1)
      BY <1>1, <2>1, SetOn DEF r
    <3> QED BY <1>1, <2>1, <3>1 DEF Index
  <2>4. r \in [bit_cnt : {page_cnt}, bits : Words(page_cnt)]
    BY <2>3 DEF IsBitmap, Words
  <2>5. got.pages = Page(i) /\ got.used_map = r /\ got.pages # NULL
    BY <1>2, <1>6, <2>1, PagesDiffer, InPage, Headers
  <2> QED BY <1>6, <2>1, <2>2, <2>3, <2>4, <2>5 DEF got
<1> QED BY <1>4, <1>5, <1>6

(* palloc_free_multiple of pages in use marks them free and fails no       *)
(* ASSERT.                                                                 *)
LEMMA FreePages ==
  ASSUME ~NoMemory, NEW map \in [bit_cnt : {page_cnt}, bits : Words(page_cnt)],
         NEW i \in Index, NEW n \in Nat, i .. i + n - 1 \subseteq Bits(map), n # 0
  PROVE  /\ MayFree(map, Page(i), n)
         /\ palloc_free_multiple(map, Page(i), n) \in [bit_cnt : {page_cnt}, bits : Words(page_cnt)]
         /\ Bits(palloc_free_multiple(map, Page(i), n)) = Bits(map) \ (i .. i + n - 1)
<1>1. /\ IsBitmap(map) /\ map.bit_cnt = page_cnt /\ page_cnt \in Nat
      /\ Bits(map) \subseteq Index
      /\ \A j \in Index : bitmap_test(map, j) <=> j \in Bits(map)
      /\ page_idx(Page(i)) = i /\ i \in Nat /\ Page(i) \in Pages
  BY UsedMap, Pool, PagesDiffer DEF Index
<1>2. MayFree(map, Page(i), n)
  <2>1. pg_ofs(Page(i)) = 0
    BY <1>1, BigInPage
  <2>2. i + n - 1 \in Index
    BY <1>1
  <2>3. \A j \in i .. i + n - 1 : bitmap_test(map, j)
    BY <1>1
  <2>4. bitmap_all(map, i, n)
    BY <2>3 DEF bitmap_all, bitmap_contains
  <2> QED BY <1>1, <2>1, <2>2, <2>4 DEF MayFree, Index
<1> DEFINE r == palloc_free_multiple(map, Page(i), n)
<1>3. r = bitmap_set_multiple(map, i, n, FALSE)
  BY <1>1 DEF palloc_free_multiple
<1> HIDE DEF r
<1>4. IsBitmap(r) /\ r.bit_cnt = page_cnt /\ Bits(r) = Bits(map) \ (i .. i + n - 1)
  <2>1. IsBitmap(map) /\ i \in Nat /\ n \in Nat
    BY <1>1
  <2>2. LET b == bitmap_set_multiple(map, i, n, FALSE)
        IN /\ IsBitmap(b) /\ b.bit_cnt = map.bit_cnt
           /\ Bits(b) = Bits(map) \ (i .. i + n - 1)
    BY ONLY <2>1, SetOff, Zenon
  <2> QED BY <1>1, <1>3, <2>2, Zenon
<1>5. r \in [bit_cnt : {page_cnt}, bits : Words(page_cnt)]
  BY <1>4 DEF IsBitmap, Words
<1> QED BY <1>2, <1>4, <1>5 DEF r

---------------------------------------------------------------------------
(* Spans. *)

(* A header that takes up the same pages as before leaves them apart. *)
LEMMA SpansKept ==
  ASSUME NEW map, NEW ar, NEW ar2, SpansApart(map, ar), ~NoMemory,
         \A i \in Index : ar2[Page(i)] = NULL <=> ar[Page(i)] = NULL,
         \A i \in Heads(ar) : Span(ar2, i) = Span(ar, i)
  PROVE  SpansApart(map, ar2)
<1>1. Heads(ar2) = Heads(ar)
  BY DEF Heads
<1>2. {Span(ar2, i) : i \in Heads(ar2)} = {Span(ar, i) : i \in Heads(ar)}
  BY <1>1
<1> QED BY <1>1, <1>2 DEF SpansApart

(* Free pages that get a header. *)
LEMMA SpanAdded ==
  ASSUME ~NoMemory, NEW map, NEW map2,
         NEW ar \in [Pages -> Header \cup {NULL}], SpansApart(map, ar),
         NEW i \in Index, NEW n \in Nat \ {0}, i + n <= page_cnt,
         (i .. i + n - 1) \cap Bits(map) = {},
         Bits(map2) = Bits(map) \cup (i .. i + n - 1),
         NEW head \in Header,
         IF head.desc = NULL THEN n = head.free_cnt ELSE n = 1
  PROVE  ar[Page(i)] = NULL /\ SpansApart(map2, [ar EXCEPT ![Page(i)] = head])
<1> DEFINE ar2 == [ar EXCEPT ![Page(i)] = head]
<1>1. \A j \in Index : /\ j \in Nat /\ Page(j) \in Pages
                       /\ Page(j) = Page(i) => j = i
  BY PagesDiffer DEF Index
<1>2. \A j \in Index : ar2[Page(j)] = IF j = i THEN head ELSE ar[Page(j)]
  BY <1>1
<1>3. i \notin Heads(ar) /\ ar[Page(i)] = NULL
  <2>1. i \in i .. i + n - 1
    BY <1>1
  <2>2. i \in Heads(ar) => i \in Bits(map)
    BY DEF SpansApart
  <2> QED BY <2>1, <2>2 DEF Heads
<1>4. Heads(ar2) = Heads(ar) \cup {i}
  BY <1>2, Headers DEF Heads
<1>5. Span(ar2, i) = i .. i + n - 1
  <2>1. ar2[Page(i)] = head
    BY <1>2
  <2>2. CASE head.desc = NULL
    BY <2>1, <2>2 DEF Span
  <2>3. CASE head.desc # NULL
    <3>1. n = 1 /\ i \in Nat
      BY <1>1, <2>3
    <3>2. i .. i + n - 1 = {i}
      BY <3>1
    <3> QED BY <2>1, <2>3, <3>2 DEF Span
  <2> QED BY <2>2, <2>3
<1>6. \A j \in Heads(ar) : Span(ar2, j) = Span(ar, j)
  BY <1>2, <1>3 DEF Span, Heads
<1> HIDE DEF ar2
<1>7. \A j \in Heads(ar2) : j \in Span(ar2, j) /\ Span(ar2, j) \subseteq Index
  <2>1. i \in i .. i + n - 1 /\ i .. i + n - 1 \subseteq Index
    BY <1>1, Pool DEF Index
  <2> QED BY <1>4, <1>5, <1>6, <2>1 DEF SpansApart
<1>8. ASSUME NEW j \in Heads(ar)  PROVE Span(ar, j) \cap (i .. i + n - 1) = {}
  BY DEF SpansApart
<1>9. \A j, k \in Heads(ar2) : j # k => Span(ar2, j) \cap Span(ar2, k) = {}
  BY <1>4, <1>5, <1>6, <1>8 DEF SpansApart
<1>10. UNION {Span(ar2, j) : j \in Heads(ar2)}
         = (UNION {Span(ar, j) : j \in Heads(ar)}) \cup (i .. i + n - 1)
  BY <1>4, <1>5, <1>6
<1> QED BY <1>3, <1>7, <1>9, <1>10 DEF SpansApart, ar2

(* Pages that lose their header and are marked free. *)
LEMMA SpanRemoved ==
  ASSUME ~NoMemory, NEW map, NEW map2,
         NEW ar \in [Pages -> Header \cup {NULL}], SpansApart(map, ar),
         NEW i \in Heads(ar), Bits(map2) = Bits(map) \ Span(ar, i)
  PROVE  SpansApart(map2, [ar EXCEPT ![Page(i)] = NULL])
<1> DEFINE ar2 == [ar EXCEPT ![Page(i)] = NULL]
<1>1. i \in Index /\ \A j \in Index : Page(j) \in Pages /\ (Page(j) = Page(i) => j = i)
  BY PagesDiffer DEF Heads
<1>2. \A j \in Index : ar2[Page(j)] = IF j = i THEN NULL ELSE ar[Page(j)]
  BY <1>1
<1>3. Heads(ar2) = Heads(ar) \ {i}
  BY <1>2 DEF Heads
<1>4. \A j \in Heads(ar2) : Span(ar2, j) = Span(ar, j)
  BY <1>2, <1>3 DEF Span, Heads
<1> HIDE DEF ar2
<1>5. \A j \in Heads(ar2) : Span(ar, j) \cap Span(ar, i) = {}
  BY <1>3 DEF SpansApart
<1>6. UNION {Span(ar2, j) : j \in Heads(ar2)} = (UNION {Span(ar, j) : j \in Heads(ar)}) \ Span(ar, i)
  BY <1>3, <1>4, <1>5
<1> QED BY <1>3, <1>4, <1>6 DEF SpansApart, ar2

---------------------------------------------------------------------------
(* Blocks. *)

(* A block belongs to one arena. *)
LEMMA OneArena ==
  ASSUME ~NoMemory, NEW d \in Desc, NEW e \in Desc, NEW a \in Pages, NEW c \in Pages,
         NEW b \in Blocks(a, d), b \in Blocks(c, e)
  PROVE  a = c
BY BlockInPage

(* The blocks of a descriptor as a free list. *)
LEMMA FreshList ==
  ASSUME ~NoMemory, NEW d \in Desc, NEW a \in Pages
  PROVE  LET s == [i \in 1 .. blocks_per_arena(d) |-> arena_to_block(a, d, i - 1)]
         IN s \in Seq(Int) /\ IsInjective(s) /\ ToSet(s) = Blocks(a, d) /\ s # <<>>
<1> DEFINE n == blocks_per_arena(d)
           s == [i \in 1 .. n |-> arena_to_block(a, d, i - 1)]
<1>1. n \in Nat \ {0} /\ a \in Int /\ sizeof_arena \in Nat
  BY Descriptor, PagesDiffer
<1>2. \A k \in 0 .. n - 1 : k * d \in Nat
  BY Descriptor
<1> HIDE DEF n
<1>3. \A i \in 1 .. n : i - 1 \in 0 .. n - 1
  BY <1>1
<1>4. s \in [1 .. n -> Int]
  BY <1>1, <1>2, <1>3 DEF arena_to_block
<1>5. s \in Seq(Int) /\ Len(s) = n
  BY <1>1, <1>4, FunctionIsSeq
<1>6. s # <<>>
  BY <1>1, <1>5
<1>7. IsInjective(s)
  <2>1. ASSUME NEW i \in 1 .. n, NEW j \in 1 .. n, s[i] = s[j]  PROVE i = j
    <3>1. (i - 1) * d \in Nat /\ (j - 1) * d \in Nat /\ i - 1 \in 0 .. n - 1 /\ j - 1 \in 0 .. n - 1
      BY <1>2, <1>3
    <3>2. a + sizeof_arena + (i - 1) * d = a + sizeof_arena + (j - 1) * d
      BY <2>1 DEF arena_to_block
    <3>3. (i - 1) * d = (j - 1) * d
      BY <1>1, <3>1, <3>2
    <3>4. i - 1 = j - 1
      BY <3>1, <3>3, Descriptor DEF n
    <3> QED BY <1>1, <3>4
  <2> QED BY <2>1 DEF IsInjective
<1>8. ToSet(s) = Blocks(a, d)
  <2>1. ASSUME NEW k \in 0 .. n - 1  PROVE arena_to_block(a, d, k) \in ToSet(s)
    <3>1. k + 1 \in 1 .. n /\ (k + 1) - 1 = k
      BY <1>1
    <3>2. s[k + 1] = arena_to_block(a, d, k)
      BY <3>1
    <3> QED BY <3>1, <3>2 DEF ToSet
  <2>2. \A i \in 1 .. n : s[i] = arena_to_block(a, d, i - 1)
    OBVIOUS
  <2>3. DOMAIN s = 1 .. n
    OBVIOUS
  <2> HIDE DEF s
  <2>4. ToSet(s) \subseteq Blocks(a, d)
    BY <1>3, <2>2, <2>3 DEF ToSet, Blocks, n
  <2>5. Blocks(a, d) \subseteq ToSet(s)
    BY <2>1 DEF Blocks, n
  <2> QED BY <2>4, <2>5
<1> QED BY <1>5, <1>6, <1>7, <1>8 DEF n

---------------------------------------------------------------------------
(* Steps of the calls. *)

(* The block b of arena a goes to a client or comes back, which its free   *)
(* list and the count of its arena tell.                                   *)
Moved(ar, ar2, fl, fl2, A, B, a, d, b) ==
  /\ B \ {b} = A \ {b}
  /\ ar2 = [ar EXCEPT ![a] = [desc |-> d, free_cnt |-> Cardinality(Blocks(a, d) \ B)]]
  /\ fl2 = [fl EXCEPT ![d] = fl2[d]]
  /\ IsInjective(fl2[d]) /\ ToSet(fl2[d]) \ {b} = ToSet(fl[d]) \ {b}
  /\ b \in ToSet(fl2[d]) <=> b \notin B

(* What the blocks A clients have, the headers and the free lists tell of  *)
(* each other.                                                             *)
BlocksExact(ar, fl, A) ==
  /\ ar \in [Pages -> Header \cup {NULL}] /\ fl \in [Desc -> Seq(Int)]
  /\ InArena(ar, A) /\ ListsExact(ar, fl, A) /\ CountsExact(ar, A)

SameHeads(ar, ar2) ==
  /\ \A x \in Pages : ar2[x] = NULL <=> ar[x] = NULL
  /\ \A i \in Heads(ar) : Span(ar2, i) = Span(ar, i)

(* A block changes hands between a free list and a caller. *)
LEMMA BlockMoves ==
  ASSUME ~NoMemory, NEW ar, NEW ar2, NEW fl, NEW fl2, NEW A, NEW B, NEW a, NEW d, NEW b,
         BlocksExact(ar, fl, A), d \in Desc, a \in ArenasOf(ar, d), b \in Blocks(a, d),
         Moved(ar, ar2, fl, fl2, A, B, a, d, b), fl2[d] \in Seq(Int)
  PROVE  BlocksExact(ar2, fl2, B) /\ SameHeads(ar, ar2)
<1> DEFINE m == Cardinality(Blocks(a, d) \ B)
           l == fl2[d]
<1>a. /\ ar \in [Pages -> Header \cup {NULL}] /\ fl \in [Desc -> Seq(Int)]
      /\ InArena(ar, A) /\ ListsExact(ar, fl, A) /\ CountsExact(ar, A)
  BY DEF BlocksExact
<1>0. /\ B \ {b} = A \ {b} /\ IsInjective(l)
      /\ ToSet(l) \ {b} = ToSet(fl[d]) \ {b} /\ (b \in ToSet(l) <=> b \notin B)
  BY DEF Moved
<1>1. a \in Pages /\ ar[a] # NULL /\ ar[a].desc = d /\ b \in Int /\ pg_round_down(b) = a
  BY BlockInPage DEF ArenasOf
<1>2. m \in Nat
  <2>1. IsFiniteSet(Blocks(a, d) \ B)
    BY <1>1, BlocksCounted, FS_Difference
  <2> QED BY <2>1, FS_CardinalityType
<1>3. [desc |-> d, free_cnt |-> m] \in Header /\ [desc |-> d, free_cnt |-> m] # NULL /\ d # NULL
  BY <1>2, Headers
<1> HIDE DEF m
<1>4. /\ ar2 \in [Pages -> Header \cup {NULL}]
      /\ \A x \in Pages : ar2[x] = IF x = a THEN [desc |-> d, free_cnt |-> m] ELSE ar[x]
  BY <1>a, <1>1, <1>3 DEF m, Moved
<1>5. \A e \in Desc : fl2[e] = IF e = d THEN l ELSE fl[e]
  BY <1>a DEF Moved
<1> HIDE DEF l
<1>6. \A x \in Pages : /\ ar2[x] = NULL <=> ar[x] = NULL
                       /\ ar[x] # NULL => ar2[x].desc = ar[x].desc
  BY <1>1, <1>3, <1>4
<1>7. \A e \in Desc : ArenasOf(ar2, e) = ArenasOf(ar, e)
  BY <1>6 DEF ArenasOf
<1>8. \A e \in Desc : \A x \in ArenasOf(ar, e) : x # a => b \notin Blocks(x, e)
  BY <1>1, BlockInPage DEF ArenasOf
<1>9. \A e \in Desc : e # d => a \notin ArenasOf(ar, e)
  BY <1>1 DEF ArenasOf
<1>10. \A e \in Desc : \A x \in ArenasOf(ar, e) : x # a => Blocks(x, e) \ B = Blocks(x, e) \ A
  BY <1>0, <1>8
<1>11. InArena(ar2, B)
  <2>1. \A c \in B : c # b => c \in A
    BY <1>0
  <2>2. ar2[a].desc = d /\ ar2[a] # NULL
    BY <1>1, <1>3, <1>4
  <2>3. ASSUME NEW c \in B, c # b
        PROVE  /\ c \in Int /\ pg_round_down(c) \in Pages /\ ar2[pg_round_down(c)] # NULL
               /\ IF ar2[pg_round_down(c)].desc = NULL
                  THEN c = pg_round_down(c) + sizeof_arena
                  ELSE c \in Blocks(pg_round_down(c), ar2[pg_round_down(c)].desc)
    BY <1>a, <1>6, <2>1, <2>3 DEF InArena
  <2> QED BY <1>1, <1>3, <2>2, <2>3 DEF InArena
<1>12. ListsExact(ar2, fl2, B)
  <2>1. ASSUME NEW e \in Desc, e # d
        PROVE  IsInjective(fl2[e]) /\ ToSet(fl2[e]) = UNION {Blocks(x, e) \ B : x \in ArenasOf(ar2, e)}
    <3>1. \A x \in ArenasOf(ar, e) : Blocks(x, e) \ B = Blocks(x, e) \ A
      BY <1>9, <1>10, <2>1
    <3>2. ToSet(fl[e]) = UNION {Blocks(x, e) \ A : x \in ArenasOf(ar, e)} /\ IsInjective(fl[e])
      BY <1>a DEF ListsExact
    <3> QED BY <1>5, <1>7, <2>1, <3>1, <3>2
  <2>2. ToSet(l) = UNION {Blocks(x, d) \ B : x \in ArenasOf(ar, d)}
    <3>1. ToSet(fl[d]) = UNION {Blocks(x, d) \ A : x \in ArenasOf(ar, d)}
      BY <1>a DEF ListsExact
    <3>2. ASSUME NEW c, c # b
          PROVE  c \in ToSet(l) <=> c \in UNION {Blocks(x, d) \ B : x \in ArenasOf(ar, d)}
      BY <1>0, <3>1, <3>2
    <3>3. b \in UNION {Blocks(x, d) \ B : x \in ArenasOf(ar, d)} <=> b \notin B
      OBVIOUS
    <3> QED BY <1>0, <3>2, <3>3
  <2> QED BY <1>0, <1>5, <1>7, <2>1, <2>2 DEF ListsExact
<1>13. CountsExact(ar2, B)
  <2>1. \A e \in Desc : \A x \in ArenasOf(ar, e) :
          x # a => ar2[x].free_cnt = Cardinality(Blocks(x, e) \ B)
    <3>1. ASSUME NEW e \in Desc, NEW x \in ArenasOf(ar, e), x # a
          PROVE  ar2[x].free_cnt = Cardinality(Blocks(x, e) \ B)
      <4>1. ar[x].free_cnt = Cardinality(Blocks(x, e) \ A) /\ x \in Pages
        BY <1>a DEF CountsExact, ArenasOf
      <4>2. Blocks(x, e) \ B = Blocks(x, e) \ A
        BY <1>10, <3>1
      <4>3. ar2[x] = ar[x]
        BY <1>4, <3>1, <4>1
      <4> QED BY <4>1, <4>2, <4>3
    <3> QED BY <3>1
  <2>2. ar2[a].free_cnt = Cardinality(Blocks(a, d) \ B)
    <3>1. ar2[a] = [desc |-> d, free_cnt |-> m]
      BY <1>1, <1>4
    <3> QED BY <3>1 DEF m
  <2> QED BY <1>7, <1>9, <2>1, <2>2 DEF CountsExact
<1>14. \A i \in Heads(ar) : Span(ar2, i) = Span(ar, i)
  <2>1. ASSUME NEW i \in Heads(ar)  PROVE Span(ar2, i) = Span(ar, i)
    <3>1. Page(i) \in Pages /\ ar[Page(i)] # NULL
      BY PagesDiffer DEF Heads
    <3>2. CASE Page(i) = a
      BY <1>1, <1>3, <1>6, <3>1, <3>2 DEF Span
    <3>3. CASE Page(i) # a
      BY <1>4, <3>1, <3>3 DEF Span
    <3> QED BY <3>2, <3>3
  <2> QED BY <2>1
<1>15. fl2 \in [Desc -> Seq(Int)]
  BY <1>a DEF Moved
<1>16. BlocksExact(ar2, fl2, B)
  BY <1>4, <1>11, <1>12, <1>13, <1>15 DEF BlocksExact
<1> QED BY <1>6, <1>14, <1>16 DEF SameHeads

(* A page becomes an arena, all of whose blocks are free. *)
LEMMA NewArena ==
  ASSUME ~NoMemory, NEW h, NEW A, Consistent(h, A), NEW d \in Desc, h.free_list[d] = <<>>
  PROVE  LET h1 == new_arena(h, d)
         IN \/ h1 = h /\ Bits(h.used_map) = Index
            \/ /\ Consistent(h1, A) /\ h1.free_list[d] # <<>>
               /\ KeepsSizes(h.arena, h1.arena, A)
               /\ \A a \in Pages : h1.arena[a] # NULL =>
                    h.arena[a] # NULL \/ ToSet(h1.free_list[d]) \subseteq Blocks(a, d)
<1> DEFINE h1 == new_arena(h, d)
           got == palloc_get_multiple(h.used_map, 1)
           n == blocks_per_arena(d)
           Map == [bit_cnt : {page_cnt}, bits : Words(page_cnt)]
<1>1. /\ HeapTypeOK(h) /\ h.ok /\ SpansApart(h.used_map, h.arena) /\ InArena(h.arena, A)
      /\ ListsExact(h.arena, h.free_list, A) /\ CountsExact(h.arena, A)
  BY DEF Consistent
<1>2. /\ h.used_map \in Map /\ h.arena \in [Pages -> Header \cup {NULL}]
      /\ h.free_list \in [Desc -> Seq(Int)] /\ h.ok \in BOOLEAN
      /\ h = [used_map |-> h.used_map, arena |-> h.arena, free_list |-> h.free_list, ok |-> h.ok]
  BY <1>1 DEF HeapTypeOK
<1>3. CASE got.pages = NULL /\ got.used_map = h.used_map
            /\ (1 # 0 => \A i \in 0 .. page_cnt - 1 : (i .. i + 1 - 1) \cap Bits(h.used_map) # {})
  <2>1. Bits(h.used_map) \subseteq Index
    BY <1>2, UsedMap
  <2>2. ASSUME NEW i \in Index  PROVE i \in Bits(h.used_map)
    <3>1. i \in Int /\ i .. i + 1 - 1 = {i}
      BY Pool DEF Index
    <3> QED BY <1>3, <3>1 DEF Index
  <2>3. h1 = h
    BY <1>3 DEF new_arena
  <2> QED BY <2>1, <2>2, <2>3
<1>4. ASSUME NEW i \in Index,
             got.pages = Page(i), got.pages # NULL, i + 1 <= page_cnt,
             (i .. i + 1 - 1) \cap Bits(h.used_map) = {}, got.used_map \in Map,
             Bits(got.used_map) = Bits(h.used_map) \cup (i .. i + 1 - 1)
      PROVE  /\ Consistent(h1, A) /\ h1.free_list[d] # <<>>
             /\ KeepsSizes(h.arena, h1.arena, A)
             /\ \A a \in Pages : h1.arena[a] # NULL =>
                  h.arena[a] # NULL \/ ToSet(h1.free_list[d]) \subseteq Blocks(a, d)
  <2> DEFINE p == Page(i)
             head == [desc |-> d, free_cnt |-> n]
             s == [k \in 1 .. n |-> arena_to_block(p, d, k - 1)]
             ar2 == [h.arena EXCEPT ![p] = head]
             fl2 == [h.free_list EXCEPT ![d] = s]
  <2>1. p \in Pages /\ n \in Nat \ {0} /\ head \in Header /\ head # NULL /\ d # NULL
    BY PagesDiffer, Descriptor, Headers
  <2>2. s \in Seq(Int) /\ IsInjective(s) /\ ToSet(s) = Blocks(p, d) /\ s # <<>>
    BY <2>1, FreshList
  <2>3. h1 = [used_map |-> got.used_map, arena |-> ar2, free_list |-> fl2, ok |-> h.ok]
    BY <1>2, <1>4 DEF new_arena
  <2> HIDE DEF h1, got, s, n
  <2>4. /\ \A x \in Pages : ar2[x] = IF x = p THEN head ELSE h.arena[x]
        /\ \A e \in Desc : fl2[e] = IF e = d THEN s ELSE h.free_list[e]
        /\ ar2 \in [Pages -> Header \cup {NULL}] /\ fl2 \in [Desc -> Seq(Int)]
    BY <1>2, <2>1, <2>2
  <2>5. h.arena[p] = NULL /\ SpansApart(got.used_map, ar2)
    <3>1. IF head.desc = NULL THEN 1 = head.free_cnt ELSE 1 = 1
      BY <2>1
    <3>2. 1 \in Nat \ {0}
      OBVIOUS
    <3> HIDE DEF head
    <3> QED BY <1>1, <1>2, <1>4, <2>1, <3>1, <3>2, SpanAdded
  <2> HIDE DEF ar2, fl2
  <2>6. HeapTypeOK(h1)
    BY <1>2, <1>4, <2>3, <2>4 DEF HeapTypeOK
  <2>7. \A b \in A : pg_round_down(b) # p /\ b \notin Blocks(p, d)
    BY <1>1, <2>1, <2>5, BlockInPage DEF InArena
  <2>8. InArena(ar2, A)
    BY <1>1, <2>4, <2>7 DEF InArena
  <2>9. \A e \in Desc : ArenasOf(ar2, e) = ArenasOf(h.arena, e) \cup (IF e = d THEN {p} ELSE {})
    BY <2>1, <2>4, <2>5 DEF ArenasOf
  <2>10. ListsExact(ar2, fl2, A)
    <3>1. ASSUME NEW e \in Desc, e # d
          PROVE  IsInjective(fl2[e]) /\ ToSet(fl2[e]) = UNION {Blocks(x, e) \ A : x \in ArenasOf(ar2, e)}
      <4>1. fl2[e] = h.free_list[e]
        BY <2>4, <3>1
      <4>2. ArenasOf(ar2, e) = ArenasOf(h.arena, e)
        BY <2>9, <3>1
      <4>3. ListsExact(h.arena, h.free_list, A)
        BY <1>1
      <4> QED BY ONLY <4>1, <4>2, <4>3, e \in Desc, Zenon DEF ListsExact
    <3>2. UNION {Blocks(x, d) \ A : x \in ArenasOf(h.arena, d)} = {}
      <4>1. ToSet(h.free_list[d]) = UNION {Blocks(x, d) \ A : x \in ArenasOf(h.arena, d)}
        BY <1>1 DEF ListsExact
      <4>2. ToSet(<<>>) = {}
        BY DEF ToSet
      <4> QED BY <4>1, <4>2
    <3>3. Blocks(p, d) \ A = Blocks(p, d)
      BY <2>7
    <3>4. ToSet(s) = UNION {Blocks(x, d) \ A : x \in ArenasOf(ar2, d)}
      BY <2>2, <2>9, <3>2, <3>3
    <3> QED BY <2>2, <2>4, <3>1, <3>4 DEF ListsExact
  <2>11. CountsExact(ar2, A)
    <3>1. Blocks(p, d) \ A = Blocks(p, d)
      BY <2>7
    <3>2. head.free_cnt = Cardinality(Blocks(p, d) \ A)
      BY <2>1, <3>1, BlocksCounted DEF n
    <3>3. \A e \in Desc : \A x \in ArenasOf(h.arena, e) :
            /\ x \in Pages /\ x # p
            /\ h.arena[x].free_cnt = Cardinality(Blocks(x, e) \ A)
      BY <1>1, <2>5 DEF CountsExact, ArenasOf
    <3> HIDE DEF head
    <3>4. ASSUME NEW e \in Desc, NEW x \in ArenasOf(ar2, e)
          PROVE  ar2[x].free_cnt = Cardinality(Blocks(x, e) \ A)
      <4>1. CASE x \in ArenasOf(h.arena, e)
        BY <2>4, <3>3, <4>1
      <4>2. CASE x = p /\ e = d
        BY <2>1, <2>4, <3>2, <4>2
      <4> QED BY <2>9, <4>1, <4>2
    <3> QED BY <3>4 DEF CountsExact
  <2>12. Consistent(h1, A)
    BY <1>1, <2>3, <2>5, <2>6, <2>8, <2>10, <2>11 DEF Consistent
  <2>13. h1.free_list[d] = s /\ h1.arena = ar2
    BY <2>3, <2>4
  <2>14. KeepsSizes(h.arena, ar2, A)
    BY <1>1, <2>4, <2>7 DEF KeepsSizes, InArena
  <2> QED BY <2>2, <2>4, <2>12, <2>13, <2>14
<1> HIDE DEF h1, Map
<1>5. \/ /\ got.pages = NULL /\ got.used_map = h.used_map
         /\ 1 # 0 => \A i \in 0 .. page_cnt - 1 : (i .. i + 1 - 1) \cap Bits(h.used_map) # {}
      \/ \E i \in Index :
           /\ 1 # 0 /\ i + 1 <= page_cnt
           /\ got.pages = Page(i) /\ got.pages # NULL
           /\ (i .. i + 1 - 1) \cap Bits(h.used_map) = {}
           /\ got.used_map \in Map
           /\ Bits(got.used_map) = Bits(h.used_map) \cup (i .. i + 1 - 1)
  <2>1. 1 \in Nat
    OBVIOUS
  <2> QED BY <1>2, <2>1, GetPages DEF Map
<1> HIDE DEF got
<1> QED BY <1>3, <1>4, <1>5 DEF h1

(* block_to_arena finds the arena of a block. *)
LEMMA LooksUp ==
  ASSUME ~NoMemory, NEW h, NEW A, Consistent(h, A), NEW d \in Desc,
         NEW a \in ArenasOf(h.arena, d), NEW b \in Blocks(a, d)
  PROVE  MayLookUp(h, b) /\ pg_round_down(b) = a
<1>1. a \in Pages /\ h.arena[a] # NULL /\ h.arena[a].desc = d /\ d # NULL
  BY Headers DEF ArenasOf
<1>2. pg_round_down(b) = a /\ (pg_ofs(b) - sizeof_arena) % d = 0
  BY <1>1, BlockInPage
<1> QED BY <1>1, <1>2 DEF MayLookUp

(* The front block of a free list goes to a client. *)
Taken(h, h2, b, d, A) ==
  /\ b \in Int /\ b \notin A /\ b \in ToSet(h.free_list[d])
  /\ Consistent(h2, A \cup {b})
  /\ \A x \in Pages : h2.arena[x] = NULL <=> h.arena[x] = NULL
  /\ KeepsSizes(h.arena, h2.arena, A) /\ h2.arena[pg_round_down(b)].desc = d

(* The first block of a free list is handed out. *)
LEMMA TakeBlock ==
  ASSUME ~NoMemory, NEW h, NEW A, Consistent(h, A), NEW d \in Desc, h.free_list[d] # <<>>
  PROVE  LET b  == Head(h.free_list[d])
             h2 == [h EXCEPT !.free_list[d] = Tail(@),
                             !.arena[pg_round_down(b)].free_cnt = @ - 1,
                             !.ok = @ /\ MayLookUp(h, b)]
         IN Taken(h, h2, b, d, A)
<1> DEFINE b  == Head(h.free_list[d])
           h2 == [h EXCEPT !.free_list[d] = Tail(@),
                           !.arena[pg_round_down(b)].free_cnt = @ - 1,
                           !.ok = @ /\ MayLookUp(h, b)]
           l  == Tail(h.free_list[d])
           B  == A \cup {b}
           Map == [bit_cnt : {page_cnt}, bits : Words(page_cnt)]
<1>1. /\ HeapTypeOK(h) /\ h.ok /\ SpansApart(h.used_map, h.arena) /\ InArena(h.arena, A)
      /\ ListsExact(h.arena, h.free_list, A) /\ CountsExact(h.arena, A)
  BY DEF Consistent
<1>2. /\ h.used_map \in Map /\ h.arena \in [Pages -> Header \cup {NULL}]
      /\ h.free_list \in [Desc -> Seq(Int)] /\ h.ok = TRUE
      /\ h = [used_map |-> h.used_map, arena |-> h.arena, free_list |-> h.free_list, ok |-> h.ok]
  BY <1>1 DEF HeapTypeOK
<1>3. /\ h.free_list[d] \in Seq(Int) /\ IsInjective(h.free_list[d])
      /\ ToSet(h.free_list[d]) = UNION {Blocks(x, d) \ A : x \in ArenasOf(h.arena, d)}
  BY <1>1, <1>2 DEF ListsExact
<1>4. /\ l \in Seq(Int) /\ IsInjective(l) /\ ToSet(l) = ToSet(h.free_list[d]) \ {b}
      /\ b \in ToSet(h.free_list[d])
  BY <1>3, PopFront
<1> HIDE DEF b, l
<1>5. PICK a \in ArenasOf(h.arena, d) : b \in Blocks(a, d) \ A
  BY <1>3, <1>4
<1>6. /\ a \in Pages /\ h.arena[a] # NULL /\ h.arena[a].desc = d /\ h.arena[a] \in Header
      /\ pg_round_down(b) = a /\ b \in Int /\ MayLookUp(h, b)
  BY <1>2, <1>5, LooksUp, BlockInPage DEF ArenasOf
<1>7. h.arena[a].free_cnt - 1 = Cardinality(Blocks(a, d) \ B)
  <2>1. h.arena[a].free_cnt = Cardinality(Blocks(a, d) \ A)
    BY <1>1, <1>5 DEF CountsExact
  <2>2. IsFiniteSet(Blocks(a, d) \ A)
    BY <1>6, BlocksCounted, FS_Difference
  <2>3. Blocks(a, d) \ B = (Blocks(a, d) \ A) \ {b}
    OBVIOUS
  <2> QED BY <1>5, <2>1, <2>2, <2>3, FS_RemoveElement
<1> DEFINE ar2 == [h.arena EXCEPT ![a] = [desc |-> d, free_cnt |-> Cardinality(Blocks(a, d) \ B)]]
           fl2 == [h.free_list EXCEPT ![d] = l]
<1>8. h2 = [used_map |-> h.used_map, arena |-> ar2, free_list |-> fl2, ok |-> TRUE]
  <2>1. [h.arena[a] EXCEPT !.free_cnt = @ - 1]
          = [desc |-> d, free_cnt |-> Cardinality(Blocks(a, d) \ B)]
    BY <1>6, <1>7 DEF Header
  <2>2. [h.arena EXCEPT ![a].free_cnt = @ - 1] = ar2
    BY <1>2, <1>6, <2>1
  <2>3. h2 = [used_map |-> h.used_map, arena |-> [h.arena EXCEPT ![a].free_cnt = @ - 1],
              free_list |-> fl2, ok |-> h.ok /\ MayLookUp(h, b)]
    <3> DEFINE x == pg_round_down(b)
    <3>1. h2 = [h EXCEPT !.free_list[d] = l, !.arena[x].free_cnt = @ - 1,
                         !.ok = @ /\ MayLookUp(h, b)]
      BY DEF l, b
    <3>2. x = a
      BY <1>6
    <3> HIDE DEF x, h2
    <3>3. h2 = [h EXCEPT !.free_list[d] = l, !.arena[a].free_cnt = @ - 1,
                         !.ok = @ /\ MayLookUp(h, b)]
      BY <3>1, <3>2
    <3> QED BY <1>2, <3>3
  <2> QED BY <1>2, <1>6, <2>2, <2>3
<1> HIDE DEF h2
<1>14. KeepsSizes(h.arena, ar2, A) /\ ar2[a].desc = d
  <2>1. ar2[a] = [desc |-> d, free_cnt |-> Cardinality(Blocks(a, d) \ B)]
    BY <1>2, <1>6
  <2>2. \A x \in Pages : x # a => ar2[x] = h.arena[x]
    BY <1>2
  <2>3. d # NULL
    BY Headers
  <2> HIDE DEF ar2
  <2> QED BY <1>1, <1>6, <2>1, <2>2, <2>3 DEF KeepsSizes, InArena
<1>9. /\ InArena(ar2, B) /\ ListsExact(ar2, fl2, B) /\ CountsExact(ar2, B)
      /\ \A x \in Pages : ar2[x] = NULL <=> h.arena[x] = NULL
      /\ ar2 \in [Pages -> Header \cup {NULL}]
      /\ \A i \in Heads(h.arena) : Span(ar2, i) = Span(h.arena, i)
  <2>1. /\ b \in Blocks(a, d) /\ B \ {b} = A \ {b}
        /\ ToSet(l) \ {b} = ToSet(h.free_list[d]) \ {b} /\ (b \in ToSet(l) <=> b \notin B)
    BY <1>4, <1>5
  <2> HIDE DEF B, Map
  <2>2. h.arena \in [Pages -> Header \cup {NULL}] /\ h.free_list \in [Desc -> Seq(Int)]
    BY <1>2
  <2>3. IsInjective(l) /\ a \in ArenasOf(h.arena, d) /\ InArena(h.arena, A)
        /\ ListsExact(h.arena, h.free_list, A) /\ CountsExact(h.arena, A)
    BY <1>1, <1>4, <1>5
  <2>4. fl2[d] = l /\ fl2[d] \in Seq(Int)
    <3>1. fl2[d] = l
      BY <2>2, <2>3
    <3> QED BY <1>4, <3>1
  <2>5. Moved(h.arena, ar2, h.free_list, fl2, A, B, a, d, b)
    BY <2>1, <2>3, <2>4 DEF Moved
  <2> HIDE DEF ar2, fl2
  <2>6. d \in Desc /\ a \in ArenasOf(h.arena, d) /\ b \in Blocks(a, d)
    BY <2>1, <2>3
  <2>7. BlocksExact(h.arena, h.free_list, A)
    BY <2>2, <2>3 DEF BlocksExact
  <2>8. BlocksExact(ar2, fl2, B) /\ SameHeads(h.arena, ar2)
    BY ONLY ~NoMemory, <2>5, <2>6, <2>7, <2>4, BlockMoves
  <2> QED BY ONLY <2>8 DEF BlocksExact, SameHeads
<1> HIDE DEF ar2
<1>10. SpansApart(h.used_map, ar2)
  <2>1. \A i \in Index : ar2[Page(i)] = NULL <=> h.arena[Page(i)] = NULL
    BY <1>9, PagesDiffer
  <2> QED BY <1>1, <1>9, <2>1, SpansKept
<1>11. HeapTypeOK(h2)
  BY <1>2, <1>4, <1>8, <1>9 DEF HeapTypeOK
<1>12. Consistent(h2, B)
  BY <1>8, <1>9, <1>10, <1>11 DEF Consistent
<1>13. \A x \in Pages : h2.arena[x] = NULL <=> h.arena[x] = NULL
  BY <1>8, <1>9
<1>15. KeepsSizes(h.arena, h2.arena, A) /\ h2.arena[pg_round_down(b)].desc = d
  BY <1>6, <1>8, <1>14
<1>16. Taken(h, h2, b, d, A)
  BY <1>4, <1>5, <1>6, <1>12, <1>13, <1>15 DEF Taken
<1> QED BY ONLY <1>16 DEF b, h2

(* What a call of malloc that returns r may have done: nothing, or a block *)
(* that nobody had is taken.                                               *)
Allocated(h, A, r) ==
  \/ r.block = NULL /\ r.heap = h
  \/ /\ r.block \in Int /\ r.block # NULL /\ r.block \notin A
     /\ Consistent(r.heap, A \cup {r.block}) /\ Occupied(r.heap.arena, A \cup {r.block})
     /\ KeepsSizes(h.arena, r.heap.arena, A)

(* malloc() of a small block, from a free list or from a new arena. *)
LEMMA MallocBlock ==
  ASSUME ~NoMemory, NEW h, NEW A, Consistent(h, A), Occupied(h.arena, A), NEW d \in Desc
  PROVE  LET r == malloc_block(h, d)
         IN /\ Allocated(h, A, r)
            /\ r.block = NULL => Bits(h.used_map) = Index
            /\ r.block # NULL => block_size(r.heap, r.block) = d
<1> DEFINE r  == malloc_block(h, d)
           h1 == IF h.free_list[d] = <<>> THEN new_arena(h, d) ELSE h
           b  == Head(h1.free_list[d])
           h2 == [h1 EXCEPT !.free_list[d] = Tail(@),
                            !.arena[pg_round_down(b)].free_cnt = @ - 1,
                            !.ok = @ /\ MayLookUp(h1, b)]
<1>1. r = IF h1.free_list[d] = <<>> THEN [block |-> NULL, heap |-> h]
                                    ELSE [block |-> b, heap |-> h2]
  BY DEF malloc_block
<1> HIDE DEF r
<1>2. \/ h1 = h /\ Bits(h.used_map) = Index /\ h.free_list[d] = <<>>
      \/ /\ Consistent(h1, A) /\ h1.free_list[d] # <<>> /\ KeepsSizes(h.arena, h1.arena, A)
         /\ \A a \in Pages : h1.arena[a] # NULL =>
              h.arena[a] # NULL \/ ToSet(h1.free_list[d]) \subseteq Blocks(a, d)
  <2>1. CASE h.free_list[d] = <<>>
    <3>1. h1 = new_arena(h, d)
      BY <2>1
    <3> HIDE DEF h1
    <3> QED BY <2>1, <3>1, NewArena
  <2>2. CASE h.free_list[d] # <<>>
    BY <2>2 DEF KeepsSizes
  <2> QED BY <2>1, <2>2
<1> HIDE DEF h1
<1>3. CASE h1 = h /\ Bits(h.used_map) = Index /\ h.free_list[d] = <<>>
  BY <1>1, <1>3 DEF Allocated, r
<1>4. CASE /\ Consistent(h1, A) /\ h1.free_list[d] # <<>> /\ KeepsSizes(h.arena, h1.arena, A)
           /\ \A a \in Pages : h1.arena[a] # NULL =>
                h.arena[a] # NULL \/ ToSet(h1.free_list[d]) \subseteq Blocks(a, d)
  <2>1. /\ b \in Int /\ b \notin A /\ b \in ToSet(h1.free_list[d])
        /\ Consistent(h2, A \cup {b})
        /\ \A x \in Pages : h2.arena[x] = NULL <=> h1.arena[x] = NULL
        /\ KeepsSizes(h1.arena, h2.arena, A) /\ h2.arena[pg_round_down(b)].desc = d
    <3>1. Taken(h1, h2, b, d, A)
      BY ONLY ~NoMemory, d \in Desc, <1>4, TakeBlock, Zenon
    <3> HIDE DEF b, h2
    <3> QED BY <3>1 DEF Taken
  <2> HIDE DEF b, h2
  <2>2. Occupied(h2.arena, A \cup {b})
    <3>1. ASSUME NEW a \in Pages, h1.arena[a] # NULL  PROVE \E c \in A \cup {b} : pg_round_down(c) = a
      <4>1. CASE h.arena[a] # NULL
        BY <4>1 DEF Occupied
      <4>2. CASE ToSet(h1.free_list[d]) \subseteq Blocks(a, d)
        <5>1. pg_round_down(b) = a
          BY <2>1, <4>2, BlockInPage
        <5> QED BY <5>1
      <4> QED BY <1>4, <3>1, <4>1, <4>2
    <3> QED BY <2>1, <3>1 DEF Occupied
  <2>3. r.block = b /\ r.heap = h2 /\ b # NULL
    BY <1>1, <1>4, <2>1, Headers
  <2>4. KeepsSizes(h.arena, h2.arena, A)
    BY <1>4, <2>1 DEF KeepsSizes
  <2>5. block_size(h2, b) = d
    BY <2>1, Headers DEF block_size
  <2> QED BY <2>1, <2>2, <2>3, <2>4, <2>5 DEF Allocated, r
<1> QED BY <1>2, <1>3, <1>4

(* malloc() of whole pages: it fails only when no run of pages is free. *)
LEMMA MallocBig ==
  ASSUME ~NoMemory, NEW h, NEW A, Consistent(h, A), Occupied(h.arena, A), NEW size \in Int
  PROVE  LET r == malloc_big(h, size)
             n == ((size + sizeof_arena + PGSIZE - 1) % WORD) \div PGSIZE
         IN /\ n \in Nat /\ Allocated(h, A, r)
            /\ r.block = NULL /\ n # 0 =>
                 \A i \in 0 .. page_cnt - n : (i .. i + n - 1) \cap Bits(h.used_map) # {}
            /\ r.block # NULL => block_size(r.heap, r.block) = PGSIZE * n - sizeof_arena
<1> DEFINE n   == ((size + sizeof_arena + PGSIZE - 1) % WORD) \div PGSIZE
           got == palloc_get_multiple(h.used_map, n)
           r   == malloc_big(h, size)
           Map == [bit_cnt : {page_cnt}, bits : Words(page_cnt)]
<1>1. n \in Nat
  <2>1. /\ PGSIZE \in Nat \ {0} /\ WORD \in Nat \ {0} /\ sizeof_arena \in Nat
    BY PallocAssumption, MallocAssumption
  <2> DEFINE m == (size + sizeof_arena + PGSIZE - 1) % WORD
  <2>2. m \in Nat
    <3>1. size + sizeof_arena + PGSIZE - 1 \in Int
      BY <2>1
    <3> QED BY <2>1, <3>1, Divided
  <2> HIDE DEF m
  <2>3. m \div PGSIZE \in Int /\ m = PGSIZE * (m \div PGSIZE) + (m % PGSIZE)
        /\ m % PGSIZE \in 0 .. PGSIZE - 1
    BY <2>1, <2>2, Divided
  <2>4. m \div PGSIZE <= -1 => PGSIZE * (m \div PGSIZE) <= PGSIZE * (-1)
    BY <2>1, <2>3, TimesMonotonic
  <2>5. m \div PGSIZE \in Nat
    BY <2>1, <2>2, <2>3, <2>4
  <2> QED BY <2>5 DEF m
<1>2. r = IF got.pages = NULL THEN [block |-> NULL, heap |-> h]
          ELSE [block |-> got.pages + sizeof_arena,
                heap  |-> [h EXCEPT !.used_map = got.used_map,
                                    !.arena[got.pages] = [desc |-> NULL, free_cnt |-> n]]]
  BY DEF malloc_big
<1> HIDE DEF n, r
<1>3. /\ HeapTypeOK(h) /\ h.ok /\ SpansApart(h.used_map, h.arena) /\ InArena(h.arena, A)
      /\ ListsExact(h.arena, h.free_list, A) /\ CountsExact(h.arena, A)
  BY DEF Consistent
<1>4. /\ h.used_map \in Map /\ h.arena \in [Pages -> Header \cup {NULL}]
      /\ h.free_list \in [Desc -> Seq(Int)] /\ h.ok \in BOOLEAN
      /\ h = [used_map |-> h.used_map, arena |-> h.arena, free_list |-> h.free_list, ok |-> h.ok]
  BY <1>3 DEF HeapTypeOK
<1>5. \/ /\ got.pages = NULL /\ got.used_map = h.used_map
         /\ n # 0 => \A i \in 0 .. page_cnt - n : (i .. i + n - 1) \cap Bits(h.used_map) # {}
      \/ \E i \in Index :
           /\ n # 0 /\ i + n <= page_cnt
           /\ got.pages = Page(i) /\ got.pages # NULL
           /\ (i .. i + n - 1) \cap Bits(h.used_map) = {}
           /\ got.used_map \in Map
           /\ Bits(got.used_map) = Bits(h.used_map) \cup (i .. i + n - 1)
  BY <1>1, <1>4, GetPages
<1> HIDE DEF got
<1>6. CASE /\ got.pages = NULL /\ got.used_map = h.used_map
           /\ n # 0 => \A i \in 0 .. page_cnt - n : (i .. i + n - 1) \cap Bits(h.used_map) # {}
  BY <1>1, <1>2, <1>6 DEF Allocated, n, r
<1>7. ASSUME NEW i \in Index, n # 0, i + n <= page_cnt,
             got.pages = Page(i), got.pages # NULL,
             (i .. i + n - 1) \cap Bits(h.used_map) = {}, got.used_map \in Map,
             Bits(got.used_map) = Bits(h.used_map) \cup (i .. i + n - 1)
      PROVE  /\ r.block # NULL /\ Allocated(h, A, r)
             /\ block_size(r.heap, r.block) = PGSIZE * n - sizeof_arena
  <2> DEFINE p == Page(i)
             b == p + sizeof_arena
             B == A \cup {b}
             head == [desc |-> NULL, free_cnt |-> n]
             ar2 == [h.arena EXCEPT ![p] = head]
  <2>1. /\ p \in Pages /\ head \in Header /\ head # NULL /\ head.desc = NULL
        /\ b \in Int /\ b # NULL /\ pg_round_down(b) = p
    <3>1. p \in Pages
      BY PagesDiffer
    <3> QED BY <1>1, <3>1, Headers, BigInPage
  <2>2. r.block = b
        /\ r.heap = [used_map |-> got.used_map, arena |-> ar2, free_list |-> h.free_list, ok |-> h.ok]
    BY <1>2, <1>4, <1>7
  <2>3. /\ ar2 \in [Pages -> Header \cup {NULL}]
        /\ \A x \in Pages : ar2[x] = IF x = p THEN head ELSE h.arena[x]
    BY <1>4, <2>1
  <2>4. h.arena[p] = NULL /\ SpansApart(got.used_map, ar2)
    <3>1. IF head.desc = NULL THEN n = head.free_cnt ELSE n = 1
      BY <2>1
    <3>2. n \in Nat \ {0}
      BY <1>1, <1>7
    <3> HIDE DEF head
    <3>3. p = Page(i) /\ h.arena \in [Pages -> Header \cup {NULL}] /\ head \in Header
      BY <1>4, <2>1
    <3> HIDE DEF head, p
    <3> QED BY ONLY ~NoMemory, <1>3, i \in Index, <1>7, <3>1, <3>2, <3>3, SpanAdded DEF ar2
  <2> HIDE DEF ar2
  <2>5. \A c \in A : pg_round_down(c) # p
    BY <1>3, <2>4 DEF InArena
  <2>6. b \notin A
    BY <2>1, <2>5
  <2>7. InArena(ar2, B)
    <3>1. \A c \in A : ar2[pg_round_down(c)] = h.arena[pg_round_down(c)]
      BY <1>3, <2>3, <2>5 DEF InArena
    <3>2. ar2[pg_round_down(b)].desc = NULL /\ ar2[pg_round_down(b)] # NULL
      BY <2>1, <2>3
    <3>3. b = pg_round_down(b) + sizeof_arena /\ pg_round_down(b) \in Pages /\ b \in Int
      BY <2>1
    <3> HIDE DEF b
    <3>4. \A c \in A :
            /\ c \in Int /\ pg_round_down(c) \in Pages /\ ar2[pg_round_down(c)] # NULL
            /\ IF ar2[pg_round_down(c)].desc = NULL
               THEN c = pg_round_down(c) + sizeof_arena
               ELSE c \in Blocks(pg_round_down(c), ar2[pg_round_down(c)].desc)
      BY <1>3, <3>1 DEF InArena
    <3> QED BY <3>2, <3>3, <3>4 DEF InArena
  <2>8. \A e \in Desc : ArenasOf(ar2, e) = ArenasOf(h.arena, e)
    <3>1. \A e \in Desc : e # NULL
      BY Headers
    <3> HIDE DEF head
    <3> QED BY <2>1, <2>3, <2>4, <3>1 DEF ArenasOf
  <2>9. \A e \in Desc : \A x \in ArenasOf(h.arena, e) :
          /\ x \in Pages /\ x # p /\ Blocks(x, e) \ B = Blocks(x, e) \ A
    <3>1. ASSUME NEW e \in Desc, NEW x \in ArenasOf(h.arena, e)
          PROVE  /\ x \in Pages /\ x # p /\ b \notin Blocks(x, e)
      <4>1. x \in Pages /\ x # p
        BY <2>4 DEF ArenasOf
      <4> QED BY <2>1, <4>1, BlockInPage
    <3> QED BY <3>1
  <2> HIDE DEF B
  <2>10. ListsExact(ar2, h.free_list, B)
    <3>1. ASSUME NEW e \in Desc
          PROVE  UNION {Blocks(x, e) \ B : x \in ArenasOf(ar2, e)}
                   = UNION {Blocks(x, e) \ A : x \in ArenasOf(h.arena, e)}
      BY <2>8, <2>9
    <3> QED BY <1>3, <3>1 DEF ListsExact
  <2>11. CountsExact(ar2, B)
    <3>1. ASSUME NEW e \in Desc, NEW x \in ArenasOf(ar2, e)
          PROVE  ar2[x].free_cnt = Cardinality(Blocks(x, e) \ B)
      <4>1. x \in ArenasOf(h.arena, e)
        BY <2>8
      <4>2. x \in Pages /\ x # p /\ Blocks(x, e) \ B = Blocks(x, e) \ A
        BY <2>9, <4>1
      <4>3. h.arena[x].free_cnt = Cardinality(Blocks(x, e) \ A)
        BY <1>3, <4>1 DEF CountsExact
      <4>4. ar2[x] = h.arena[x]
        BY <2>3, <4>2
      <4> QED BY <4>2, <4>3, <4>4
    <3> QED BY <3>1 DEF CountsExact
  <2>12. HeapTypeOK(r.heap)
    BY <1>4, <1>7, <2>2, <2>3 DEF HeapTypeOK
  <2>13. Consistent(r.heap, B)
    BY <1>3, <2>2, <2>4, <2>7, <2>10, <2>11, <2>12 DEF Consistent
  <2>14. Occupied(ar2, B)
    <3>1. \A x \in Pages : ar2[x] # NULL /\ x # p => \E c \in A : pg_round_down(c) = x
      BY <2>3 DEF Occupied
    <3>2. pg_round_down(b) = p /\ b \in B
      BY <2>1 DEF B
    <3>3. A \subseteq B
      BY DEF B
    <3> QED BY <3>1, <3>2, <3>3 DEF Occupied
  <2>15. r.heap.arena = ar2
    BY <2>2
  <2>16. KeepsSizes(h.arena, ar2, A)
    BY <1>3, <2>3, <2>5 DEF KeepsSizes, InArena
  <2>17. block_size(r.heap, b) = PGSIZE * n - sizeof_arena
    <3>1. pg_ofs(b) = sizeof_arena
      BY <1>1, <2>1, BigInPage
    <3>2. ar2[p] = head /\ head.desc = NULL /\ head.free_cnt = n
      BY <2>1, <2>3
    <3> HIDE DEF b, head
    <3> QED BY <2>1, <2>15, <3>1, <3>2 DEF block_size
  <2> HIDE DEF b
  <2> QED BY <2>1, <2>2, <2>6, <2>13, <2>14, <2>15, <2>16, <2>17 DEF Allocated, B
<1> QED BY <1>1, <1>5, <1>6, <1>7 DEF n, r

(* malloc() returns a block and the new heap. *)
LEMMA MallocReturns ==
  ASSUME NEW h, NEW size
  PROVE  malloc(h, size) = [block |-> malloc(h, size).block, heap |-> malloc(h, size).heap]
BY DEF malloc, malloc_block, malloc_big

(* malloc() of any size. *)
LEMMA MallocStep ==
  ASSUME ~NoMemory, NEW h, NEW A, Consistent(h, A), Occupied(h.arena, A), NEW size \in Int
  PROVE  LET r == malloc(h, size)
             n == ((size + sizeof_arena + PGSIZE - 1) % WORD) \div PGSIZE
         IN /\ Allocated(h, A, r)
            /\ r.block = NULL /\ size # 0 =>
                 \/ Bits(h.used_map) = Index
                 \/ /\ n \in Nat
                    /\ n # 0 => \A i \in 0 .. page_cnt - n : (i .. i + n - 1) \cap Bits(h.used_map) # {}
<1> DEFINE fits == {d \in Desc : d >= size}
           r    == malloc(h, size)
           n    == ((size + sizeof_arena + PGSIZE - 1) % WORD) \div PGSIZE
<1>1. r = IF size = 0 THEN [block |-> NULL, heap |-> h]
          ELSE IF fits # {} THEN malloc_block(h, Min(fits)) ELSE malloc_big(h, size)
  BY DEF malloc
<1>2. fits \in SUBSET Nat /\ fits \subseteq Desc
  BY Descriptor
<1> HIDE DEF fits, r
<1>3. CASE size = 0
  BY <1>1, <1>3 DEF Allocated, r
<1>4. CASE size # 0 /\ fits # {}
  <2>1. Min(fits) \in Desc
    BY <1>2, <1>4, MinIsLeast
  <2>2. r = malloc_block(h, Min(fits))
    BY <1>1, <1>4
  <2> QED BY <2>1, <2>2, MallocBlock DEF r
<1>5. CASE size # 0 /\ fits = {}
  <2>1. r = malloc_big(h, size)
    BY <1>1, <1>5
  <2> HIDE DEF n
  <2>2. /\ n \in Nat /\ Allocated(h, A, r)
        /\ r.block = NULL /\ n # 0 =>
             \A i \in 0 .. page_cnt - n : (i .. i + n - 1) \cap Bits(h.used_map) # {}
    BY <2>1, MallocBig DEF n
  <2> QED BY <1>5, <2>2 DEF r, n
<1> QED BY <1>3, <1>4, <1>5

(* B is A without the blocks in the page a. *)
Vacates(A, B, a) == \A c \in A : pg_round_down(c) = a <=> c \notin B

(* The blocks of the arena a are off its free list. *)
TakenOff(ar, fl, fl2, a) ==
  \A d \in Desc : fl2[d] = IF d = ar[a].desc THEN list_remove(fl[d], Blocks(a, d)) ELSE fl[d]

(* A page without a block in use loses its header, and its blocks leave    *)
(* the free list.                                                          *)
LEMMA HeaderGone ==
  ASSUME ~NoMemory, NEW ar \in [Pages -> Header \cup {NULL}],
         NEW fl \in [Desc -> Seq(Int)], NEW fl2 \in [Desc -> Seq(Int)],
         NEW A, NEW B \in SUBSET A, NEW a \in Pages,
         InArena(ar, A), ListsExact(ar, fl, A), CountsExact(ar, A), ar[a] # NULL,
         Vacates(A, B, a), TakenOff(ar, fl, fl2, a)
  PROVE  LET ar2 == [ar EXCEPT ![a] = NULL]
         IN /\ ar2 \in [Pages -> Header \cup {NULL}]
            /\ InArena(ar2, B) /\ ListsExact(ar2, fl2, B) /\ CountsExact(ar2, B)
<1> DEFINE ar2 == [ar EXCEPT ![a] = NULL]
<1>1. /\ ar2 \in [Pages -> Header \cup {NULL}]
      /\ \A x \in Pages : ar2[x] = IF x = a THEN NULL ELSE ar[x]
  OBVIOUS
<1> HIDE DEF ar2
<1>2. \A e \in Desc : ArenasOf(ar2, e) = ArenasOf(ar, e) \ {a}
  BY <1>1 DEF ArenasOf
<1>3. ASSUME NEW e \in Desc, NEW x \in ArenasOf(ar, e), x # a
      PROVE  Blocks(x, e) \ B = Blocks(x, e) \ A
  <2>1. \A c \in Blocks(x, e) : pg_round_down(c) # a
    BY <1>3, BlockInPage DEF ArenasOf
  <2> QED BY <2>1 DEF Vacates
<1>4. InArena(ar2, B)
  <2>1. \A c \in B : c \in A /\ pg_round_down(c) # a
    BY DEF Vacates
  <2> QED BY <1>1, <2>1 DEF InArena
<1>5. ListsExact(ar2, fl2, B)
  <2>1. ASSUME NEW e \in Desc
        PROVE  IsInjective(fl2[e]) /\ ToSet(fl2[e]) = UNION {Blocks(x, e) \ B : x \in ArenasOf(ar2, e)}
    <3>1. /\ fl[e] \in Seq(Int) /\ IsInjective(fl[e])
          /\ ToSet(fl[e]) = UNION {Blocks(x, e) \ A : x \in ArenasOf(ar, e)}
      BY DEF ListsExact
    <3>2. UNION {Blocks(x, e) \ B : x \in ArenasOf(ar2, e)}
            = UNION {Blocks(x, e) \ A : x \in ArenasOf(ar, e) \ {a}}
      BY <1>2, <1>3
    <3>3. CASE e = ar[a].desc
      <4>1. IsInjective(fl2[e]) /\ ToSet(fl2[e]) = ToSet(fl[e]) \ Blocks(a, e)
        BY <3>1, <3>3, ListRemove DEF TakenOff
      <4>2. \A x \in ArenasOf(ar, e) \ {a} : Blocks(x, e) \cap Blocks(a, e) = {}
        BY OneArena DEF ArenasOf
      <4>3. (UNION {Blocks(x, e) \ A : x \in ArenasOf(ar, e)}) \ Blocks(a, e)
              = UNION {Blocks(x, e) \ A : x \in ArenasOf(ar, e) \ {a}}
        BY <4>2
      <4> QED BY <3>1, <3>2, <4>1, <4>3
    <3>4. CASE e # ar[a].desc
      <4>1. ArenasOf(ar, e) \ {a} = ArenasOf(ar, e)
        BY <3>4 DEF ArenasOf
      <4> QED BY <3>1, <3>2, <3>4, <4>1 DEF TakenOff
    <3> QED BY <3>3, <3>4
  <2> QED BY <2>1 DEF ListsExact
<1>6. CountsExact(ar2, B)
  <2>1. ASSUME NEW e \in Desc, NEW x \in ArenasOf(ar2, e)
        PROVE  ar2[x].free_cnt = Cardinality(Blocks(x, e) \ B)
    <3>1. x \in ArenasOf(ar, e) /\ x # a /\ x \in Pages
      BY <1>2 DEF ArenasOf
    <3>2. ar[x].free_cnt = Cardinality(Blocks(x, e) \ A)
      BY <3>1 DEF CountsExact
    <3>3. ar2[x] = ar[x]
      BY <1>1, <3>1
    <3>4. Blocks(x, e) \ B = Blocks(x, e) \ A
      BY <1>3, <3>1
    <3> QED BY <3>2, <3>3, <3>4
  <2> QED BY <2>1 DEF CountsExact
<1> QED BY <1>1, <1>4, <1>5, <1>6 DEF ar2

(* The heap without the header of a page that has no block in use. *)
LEMMA HeadRemoved ==
  ASSUME ~NoMemory, NEW h, NEW A, NEW B \in SUBSET A, NEW a \in Pages, NEW fl2 \in [Desc -> Seq(Int)],
         NEW n \in Nat \ {0}, Consistent(h, A), h.arena[a] # NULL,
         n = IF h.arena[a].desc = NULL THEN h.arena[a].free_cnt ELSE 1,
         Vacates(A, B, a), TakenOff(h.arena, h.free_list, fl2, a)
  PROVE  /\ MayFree(h.used_map, a, n)
         /\ Consistent([used_map  |-> palloc_free_multiple(h.used_map, a, n),
                        arena     |-> [h.arena EXCEPT ![a] = NULL],
                        free_list |-> fl2, ok |-> TRUE], B)
<1> DEFINE Map == [bit_cnt : {page_cnt}, bits : Words(page_cnt)]
           i   == page_idx(a)
           map2 == palloc_free_multiple(h.used_map, a, n)
           ar2 == [h.arena EXCEPT ![a] = NULL]
           h2  == [used_map |-> map2, arena |-> ar2, free_list |-> fl2, ok |-> TRUE]
<1>1. /\ HeapTypeOK(h) /\ SpansApart(h.used_map, h.arena) /\ InArena(h.arena, A)
      /\ ListsExact(h.arena, h.free_list, A) /\ CountsExact(h.arena, A)
  BY DEF Consistent
<1>2. /\ h.used_map \in Map /\ h.arena \in [Pages -> Header \cup {NULL}]
      /\ h.free_list \in [Desc -> Seq(Int)]
  BY <1>1 DEF HeapTypeOK
<1>3. i \in Index /\ i \in Int /\ Page(i) = a /\ i \in Heads(h.arena)
  BY PagesDiffer DEF Heads
<1> HIDE DEF i
<1>4. Span(h.arena, i) = i .. i + n - 1
  <2>1. CASE h.arena[a].desc = NULL
    BY <1>3, <2>1 DEF Span
  <2>2. CASE h.arena[a].desc # NULL
    <3>1. n = 1
      BY <2>2
    <3>2. i .. i + n - 1 = {i}
      BY <1>3, <3>1
    <3> QED BY <1>3, <2>2, <3>2 DEF Span
  <2> QED BY <2>1, <2>2
<1>5. i .. i + n - 1 \subseteq Bits(h.used_map)
  BY <1>1, <1>3, <1>4 DEF SpansApart
<1>6. /\ MayFree(h.used_map, a, n) /\ map2 \in Map
      /\ Bits(map2) = Bits(h.used_map) \ (i .. i + n - 1)
  <2> DEFINE m == palloc_free_multiple(h.used_map, Page(i), n)
  <2>1. n \in Nat /\ n # 0
    OBVIOUS
  <2>2. /\ MayFree(h.used_map, Page(i), n) /\ m \in Map
        /\ Bits(m) = Bits(h.used_map) \ (i .. i + n - 1)
    BY ONLY ~NoMemory, <1>2, <1>3, <1>5, <2>1, FreePages
  <2>3. m = map2
    BY <1>3
  <2> HIDE DEF m, map2, Map
  <2> QED BY <1>3, <2>2, <2>3
<1> HIDE DEF map2, Map
<1>7. SpansApart(map2, ar2)
  BY <1>1, <1>2, <1>3, <1>4, <1>6, SpanRemoved
<1>8. /\ ar2 \in [Pages -> Header \cup {NULL}]
      /\ InArena(ar2, B) /\ ListsExact(ar2, fl2, B) /\ CountsExact(ar2, B)
  <2>1. /\ h.arena[a] # NULL /\ B \in SUBSET A /\ a \in Pages /\ fl2 \in [Desc -> Seq(Int)]
        /\ Vacates(A, B, a) /\ TakenOff(h.arena, h.free_list, fl2, a)
    OBVIOUS
  <2> QED BY ONLY ~NoMemory, <1>1, <1>2, <2>1, HeaderGone, Zenon DEF ar2
<1> HIDE DEF ar2
<1>9. HeapTypeOK(h2)
  BY <1>6, <1>8 DEF HeapTypeOK, Map
<1>10. Consistent(h2, B)
  BY <1>7, <1>8, <1>9 DEF Consistent
<1> QED BY <1>6, <1>10 DEF h2, ar2, map2

(* A block comes back to its free list; the last one of an arena takes the *)
(* arena with it.                                                          *)
LEMMA FreeBlock ==
  ASSUME ~NoMemory, NEW h, NEW A, NEW b \in A, Consistent(h, A), Occupied(h.arena, A),
         h.arena[pg_round_down(b)].desc # NULL
  PROVE  LET h2 == free_block(h, b)
         IN /\ Consistent(h2, A \ {b}) /\ Occupied(h2.arena, A \ {b})
            /\ KeepsSizes(h.arena, h2.arena, A \ {b})
<1> DEFINE a == pg_round_down(b)
           d == h.arena[a].desc
           n == h.arena[a].free_cnt + 1
           l == <<b>> \o h.free_list[d]
           B == A \ {b}
           h1 == [h EXCEPT !.free_list[d] = l, !.arena[a].free_cnt = n]
           h2 == free_block(h, b)
           Map == [bit_cnt : {page_cnt}, bits : Words(page_cnt)]
<1>1. /\ HeapTypeOK(h) /\ h.ok /\ SpansApart(h.used_map, h.arena) /\ InArena(h.arena, A)
      /\ ListsExact(h.arena, h.free_list, A) /\ CountsExact(h.arena, A)
  BY DEF Consistent
<1>2. /\ h.used_map \in Map /\ h.arena \in [Pages -> Header \cup {NULL}]
      /\ h.free_list \in [Desc -> Seq(Int)] /\ h.ok = TRUE
      /\ h = [used_map |-> h.used_map, arena |-> h.arena, free_list |-> h.free_list, ok |-> h.ok]
  BY <1>1 DEF HeapTypeOK
<1>3. h2 = IF n < blocks_per_arena(d) THEN h1
           ELSE [h1 EXCEPT
             !.free_list[d] = list_remove(@, Blocks(a, d)),
             !.arena[a] = NULL,
             !.used_map = palloc_free_multiple(@, a, 1),
             !.ok = @ /\ n = blocks_per_arena(d) /\ Blocks(a, d) \subseteq ToSet(h1.free_list[d])
                      /\ MayFree(h.used_map, a, 1)]
  BY DEF free_block, Blocks
<1> HIDE DEF h2
<1>4. /\ a \in Pages /\ h.arena[a] # NULL /\ h.arena[a] \in Header /\ d # NULL /\ d \in Desc
      /\ a \in ArenasOf(h.arena, d) /\ b \in Blocks(a, d) /\ b \in Int
  BY <1>1, <1>2 DEF InArena, ArenasOf, Header
<1>5. \A c \in A : pg_round_down(c) = a => c \in Blocks(a, d)
  BY <1>1, <1>4 DEF InArena
<1>6. \A x \in Pages : h.arena[x] # NULL => \E c \in A : pg_round_down(c) = x
  BY DEF Occupied
<1>7. h.arena[a] = [desc |-> d, free_cnt |-> h.arena[a].free_cnt]
  BY <1>4 DEF Header
<1> HIDE DEF a, d
<1>8. /\ h.free_list[d] \in Seq(Int) /\ IsInjective(h.free_list[d])
      /\ ToSet(h.free_list[d]) = UNION {Blocks(x, d) \ A : x \in ArenasOf(h.arena, d)}
  BY <1>1, <1>2, <1>4 DEF ListsExact
<1>9. /\ l \in Seq(Int) /\ IsInjective(l) /\ ToSet(l) = ToSet(h.free_list[d]) \cup {b}
  <2>1. b \notin ToSet(h.free_list[d])
    BY <1>8
  <2> QED BY <1>4, <1>8, <2>1, PushFront
<1>10. n = Cardinality(Blocks(a, d) \ B) /\ n \in Nat
  <2>1. h.arena[a].free_cnt = Cardinality(Blocks(a, d) \ A)
    BY <1>1, <1>4 DEF CountsExact
  <2>2. IsFiniteSet(Blocks(a, d) \ A)
    BY <1>4, BlocksCounted, FS_Difference
  <2>3. Blocks(a, d) \ B = (Blocks(a, d) \ A) \cup {b} /\ b \notin Blocks(a, d) \ A
    BY <1>4
  <2> DEFINE S == Blocks(a, d) \ A
  <2> HIDE DEF B, S
  <2>4. Cardinality(S \cup {b}) = Cardinality(S) + 1 /\ Cardinality(S) \in Nat
    BY <2>2, <2>3, FS_AddElement, FS_CardinalityType DEF S
  <2>5. h.arena[a].free_cnt = Cardinality(S)
    BY <2>1 DEF S
  <2>6. Cardinality(Blocks(a, d) \ B) = Cardinality(S \cup {b})
    BY <2>3, Zenon DEF S
  <2> QED BY <2>4, <2>5, <2>6
<1> DEFINE ar1 == [h.arena EXCEPT ![a] = [desc |-> d, free_cnt |-> Cardinality(Blocks(a, d) \ B)]]
           fl1 == [h.free_list EXCEPT ![d] = l]
<1>11. h1 = [used_map |-> h.used_map, arena |-> ar1, free_list |-> fl1, ok |-> TRUE]
  <2> DEFINE ar == [h.arena EXCEPT ![a].free_cnt = n]
  <2> HIDE DEF n, B, l
  <2>1. [h.arena[a] EXCEPT !.free_cnt = n] = [desc |-> d, free_cnt |-> Cardinality(Blocks(a, d) \ B)]
    BY <1>4, <1>7, <1>10 DEF Header
  <2>2. ar = ar1
    BY <1>2, <1>4, <2>1
  <2>3. h1 = [used_map |-> h.used_map, arena |-> ar, free_list |-> fl1, ok |-> TRUE]
    <3>1. h1 = [h EXCEPT !.free_list[d] = l, !.arena = ar]
      BY <1>2
    <3> HIDE DEF h1, ar
    <3>2. h1 = [h EXCEPT !.free_list = fl1, !.arena = ar]
      BY <1>2, <3>1
    <3> HIDE DEF fl1
    <3> QED BY <1>2, <3>2
  <2> QED BY <2>2, <2>3
<1>12. /\ InArena(ar1, B) /\ ListsExact(ar1, fl1, B) /\ CountsExact(ar1, B)
       /\ \A x \in Pages : ar1[x] = NULL <=> h.arena[x] = NULL
       /\ ar1 \in [Pages -> Header \cup {NULL}]
       /\ \A i \in Heads(h.arena) : Span(ar1, i) = Span(h.arena, i)
  <2>1. /\ b \in Blocks(a, d) /\ B \ {b} = A \ {b}
        /\ ToSet(l) \ {b} = ToSet(h.free_list[d]) \ {b} /\ (b \in ToSet(l) <=> b \notin B)
    BY <1>4, <1>9
  <2> HIDE DEF B, l, Map
  <2>2. h.arena \in [Pages -> Header \cup {NULL}] /\ h.free_list \in [Desc -> Seq(Int)]
    BY <1>2
  <2>3. d \in Desc /\ IsInjective(l) /\ a \in ArenasOf(h.arena, d) /\ InArena(h.arena, A)
        /\ ListsExact(h.arena, h.free_list, A) /\ CountsExact(h.arena, A)
    BY <1>1, <1>4, <1>9
  <2>4. fl1[d] = l /\ fl1[d] \in Seq(Int)
    <3>1. fl1[d] = l
      BY <2>2, <2>3
    <3> QED BY <1>9, <3>1
  <2>5. Moved(h.arena, ar1, h.free_list, fl1, A, B, a, d, b)
    BY <2>1, <2>3, <2>4 DEF Moved
  <2> HIDE DEF ar1, fl1
  <2>6. d \in Desc /\ a \in ArenasOf(h.arena, d) /\ b \in Blocks(a, d)
    BY <2>1, <2>3
  <2>7. BlocksExact(h.arena, h.free_list, A)
    BY <2>2, <2>3 DEF BlocksExact
  <2>8. BlocksExact(ar1, fl1, B) /\ SameHeads(h.arena, ar1)
    BY ONLY ~NoMemory, <2>5, <2>6, <2>7, <2>4, BlockMoves
  <2> QED BY ONLY <2>8 DEF BlocksExact, SameHeads
<1>13. fl1 \in [Desc -> Seq(Int)] /\ fl1[d] = l
  BY <1>2, <1>4, <1>9
<1>14. ar1[a] = [desc |-> d, free_cnt |-> n]
  BY <1>2, <1>4, <1>10
<1>18. KeepsSizes(h.arena, ar1, B)
  <2>1. \A x \in Pages : x # a => ar1[x] = h.arena[x]
    BY <1>2
  <2> HIDE DEF ar1
  <2> QED BY <1>1, <1>4, <1>7, <1>14, <2>1 DEF KeepsSizes, InArena
<1> HIDE DEF ar1, fl1, h1, n, l
<1>15. Consistent(h1, B)
  <2>1. HeapTypeOK(h1)
    BY <1>2, <1>11, <1>12, <1>13 DEF HeapTypeOK
  <2>2. SpansApart(h.used_map, ar1)
    <3>1. \A i \in Index : ar1[Page(i)] = NULL <=> h.arena[Page(i)] = NULL
      BY <1>12, PagesDiffer
    <3> QED BY <1>1, <1>12, <3>1, SpansKept
  <2> QED BY <1>11, <1>12, <2>1, <2>2 DEF Consistent
<1>16. CASE n < blocks_per_arena(d)
  <2>1. \E c \in B : pg_round_down(c) = a
    <3>1. Cardinality(Blocks(a, d)) = blocks_per_arena(d)
      BY <1>4, BlocksCounted
    <3>2. blocks_per_arena(d) \in Nat
      BY <1>4, Descriptor
    <3>3. Blocks(a, d) \ B # Blocks(a, d)
      BY <1>10, <1>16, <3>1, <3>2
    <3> QED BY <1>4, <3>3, BlockInPage
  <2>2. Occupied(ar1, B)
    <3>1. ASSUME NEW x \in Pages, ar1[x] # NULL, x # a  PROVE \E c \in B : pg_round_down(c) = x
      <4>1. PICK c \in A : pg_round_down(c) = x
        BY <1>6, <1>12, <3>1
      <4>2. c # b
        BY <3>1, <4>1 DEF a
      <4> QED BY <4>1, <4>2
    <3> QED BY <2>1, <3>1 DEF Occupied
  <2>3. h2 = h1 /\ h1.arena = ar1
    BY <1>3, <1>11, <1>16
  <2> QED BY <1>15, <1>18, <2>2, <2>3 DEF h2
<1>17. CASE ~(n < blocks_per_arena(d))
  <2>1. Blocks(a, d) \cap B = {} /\ n = blocks_per_arena(d)
    <3>1. IsFiniteSet(Blocks(a, d)) /\ Cardinality(Blocks(a, d)) = blocks_per_arena(d)
      BY <1>4, BlocksCounted
    <3>2. blocks_per_arena(d) \in Nat
      BY <1>4, Descriptor
    <3>3. Blocks(a, d) \ B \subseteq Blocks(a, d)
      OBVIOUS
    <3> HIDE DEF B
    <3>4. /\ Cardinality(Blocks(a, d) \ B) <= Cardinality(Blocks(a, d))
          /\ Cardinality(Blocks(a, d) \ B) = Cardinality(Blocks(a, d)) => Blocks(a, d) \ B = Blocks(a, d)
      BY <3>1, <3>3, FS_Subset
    <3>5. Cardinality(Blocks(a, d) \ B) = Cardinality(Blocks(a, d)) /\ n = blocks_per_arena(d)
      BY <1>10, <1>17, <3>1, <3>2, <3>4
    <3> QED BY <3>4, <3>5
  <2>2. Vacates(B, B, a)
    BY <1>5, <2>1 DEF Vacates
  <2> DEFINE fl2 == [fl1 EXCEPT ![d] = list_remove(l, Blocks(a, d))]
             h3 == [used_map  |-> palloc_free_multiple(h1.used_map, a, 1),
                    arena     |-> [h1.arena EXCEPT ![a] = NULL],
                    free_list |-> fl2, ok |-> TRUE]
  <2>3. fl2 \in [Desc -> Seq(Int)]
    BY <1>9, <1>13, ListRemove
  <2>4. h1.used_map = h.used_map /\ h1.arena = ar1 /\ h1.free_list = fl1 /\ h1.ok = TRUE
    BY <1>11
  <2>5. h1.arena[a] # NULL /\ h1.arena[a].desc = d
    BY <1>4, <1>12, <1>14, <2>4
  <2>6. TakenOff(h1.arena, h1.free_list, fl2, a)
    <3>1. \A e \in Desc : fl2[e] = IF e = d THEN list_remove(l, Blocks(a, d)) ELSE fl1[e]
      BY <1>13
    <3> HIDE DEF fl2
    <3> QED BY <1>13, <2>4, <2>5, <3>1 DEF TakenOff
  <2>7. MayFree(h1.used_map, a, 1) /\ Consistent(h3, B)
    <3>1. 1 \in Nat \ {0} /\ 1 = IF h1.arena[a].desc = NULL THEN h1.arena[a].free_cnt ELSE 1
      BY <1>4, <2>5
    <3> HIDE DEF fl2, B
    <3>2. B \in SUBSET B
      OBVIOUS
    <3> QED BY ONLY ~NoMemory, <1>4, <1>15, <2>2, <2>3, <2>5, <2>6, <3>1, <3>2, HeadRemoved
  <2>8. Blocks(a, d) \subseteq ToSet(h1.free_list[d])
    <3>1. ToSet(fl1[d]) = UNION {Blocks(x, d) \ B : x \in ArenasOf(ar1, d)}
      BY <1>4, <1>12 DEF ListsExact
    <3>2. a \in ArenasOf(ar1, d)
      BY <1>4, <2>4, <2>5 DEF ArenasOf
    <3> QED BY <2>1, <2>4, <3>1, <3>2
  <2>9. h2 = h3
    <3>1. h2 = [h1 EXCEPT !.free_list[d] = list_remove(@, Blocks(a, d)),
                          !.arena[a] = NULL,
                          !.used_map = palloc_free_multiple(@, a, 1),
                          !.ok = TRUE]
      BY <1>3, <1>17, <2>1, <2>4, <2>7, <2>8
    <3>2. h1 = [used_map |-> h1.used_map, arena |-> h1.arena, free_list |-> h1.free_list, ok |-> h1.ok]
      BY <1>11, <2>4
    <3>3. fl2 = [h1.free_list EXCEPT ![d] = list_remove(@, Blocks(a, d))]
      BY <1>13, <2>4
    <3> HIDE DEF fl2
    <3> QED BY <3>1, <3>2, <3>3
  <2>10. Occupied(h3.arena, B)
    <3>1. ASSUME NEW x \in Pages, x # a, ar1[x] # NULL  PROVE \E c \in B : pg_round_down(c) = x
      <4>1. PICK c \in A : pg_round_down(c) = x
        BY <1>6, <1>12, <3>1
      <4>2. c # b
        BY <3>1, <4>1 DEF a
      <4> QED BY <4>1, <4>2
    <3>2. \A x \in Pages : h3.arena[x] = IF x = a THEN NULL ELSE ar1[x]
      BY <1>12, <2>4
    <3> QED BY <3>1, <3>2 DEF Occupied
  <2>11. KeepsSizes(h.arena, h3.arena, B)
    <3>1. \A x \in Pages : x # a => h3.arena[x] = ar1[x]
      BY <1>12, <2>4
    <3>2. \A c \in B : pg_round_down(c) \in Pages /\ pg_round_down(c) # a
      BY <1>1, <2>2 DEF InArena, Vacates
    <3> HIDE DEF h3
    <3> QED BY <1>18, <3>1, <3>2 DEF KeepsSizes
  <2> HIDE DEF h3
  <2> QED BY <2>7, <2>9, <2>10, <2>11 DEF h2
<1> QED BY <1>16, <1>17

(* The pages of a big block go back. *)
LEMMA FreeBig ==
  ASSUME ~NoMemory, NEW h, NEW A, NEW b \in A, Consistent(h, A), Occupied(h.arena, A),
         h.arena[pg_round_down(b)].desc = NULL
  PROVE  /\ Consistent(free(h, b), A \ {b}) /\ Occupied(free(h, b).arena, A \ {b})
         /\ KeepsSizes(h.arena, free(h, b).arena, A \ {b})
<1> DEFINE a  == pg_round_down(b)
           n  == h.arena[a].free_cnt
           h2 == [h EXCEPT !.arena[a] = NULL,
                           !.used_map = palloc_free_multiple(@, a, n),
                           !.ok = @ /\ MayFree(h.used_map, a, n)]
           h3 == [used_map  |-> palloc_free_multiple(h.used_map, a, n),
                  arena     |-> [h.arena EXCEPT ![a] = NULL],
                  free_list |-> h.free_list, ok |-> TRUE]
           B == A \ {b}
           i == page_idx(a)
<1>1. /\ HeapTypeOK(h) /\ h.ok /\ SpansApart(h.used_map, h.arena) /\ InArena(h.arena, A)
  BY DEF Consistent
<1>2. /\ h.arena \in [Pages -> Header \cup {NULL}]
      /\ h.free_list \in [Desc -> Seq(Int)] /\ h.ok = TRUE
      /\ h = [used_map |-> h.used_map, arena |-> h.arena, free_list |-> h.free_list, ok |-> h.ok]
  BY <1>1 DEF HeapTypeOK
<1>3. /\ a \in Pages /\ h.arena[a] # NULL /\ h.arena[a] \in Header /\ b = a + sizeof_arena
  BY <1>1, <1>2 DEF InArena
<1>4. \A c \in A : pg_round_down(c) = a => c = a + sizeof_arena
  BY <1>1, <1>3 DEF InArena
<1>5. \A x \in Pages : h.arena[x] # NULL => \E c \in A : pg_round_down(c) = x
  BY DEF Occupied
<1>6. a = pg_round_down(b) /\ h.arena[a].desc = NULL
  OBVIOUS
<1>7. free(h, b) = h2
  <2>1. b \in Int /\ b # NULL /\ pg_ofs(b) = sizeof_arena
    BY <1>3, BigInPage, Headers
  <2>2. MayLookUp(h, b)
    BY <1>3, <1>6, <2>1 DEF MayLookUp
  <2> QED BY <2>1, <2>2 DEF free
<1> HIDE DEF a
<1>8. n \in Nat \ {0}
  <2>1. n \in Nat
    BY <1>3 DEF Header
  <2>2. i \in Heads(h.arena) /\ i \in Int /\ Page(i) = a
    BY <1>3, PagesDiffer DEF Heads
  <2>3. i \in i .. i + n - 1
    <3>1. i \in Span(h.arena, i)
      BY <1>1, <2>2 DEF SpansApart
    <3> HIDE DEF i
    <3> QED BY <1>6, <2>2, <3>1 DEF Span
  <2> HIDE DEF i, n
  <2> QED BY <2>1, <2>2, <2>3
<1>9. Vacates(A, B, a)
  BY <1>3, <1>4, <1>6 DEF Vacates
<1>10. TakenOff(h.arena, h.free_list, h.free_list, a)
  BY <1>6, Headers DEF TakenOff
<1>11. MayFree(h.used_map, a, n) /\ Consistent(h3, B)
  <2>1. n = IF h.arena[a].desc = NULL THEN h.arena[a].free_cnt ELSE 1
    BY <1>6
  <2>2. B \in SUBSET A
    OBVIOUS
  <2> HIDE DEF B, n
  <2> QED BY ONLY ~NoMemory, Consistent(h, A), <1>2, <1>3, <1>8, <1>9, <1>10, <2>1, <2>2, HeadRemoved
<1> HIDE DEF n
<1>12. h2 = h3
  <2>1. h2 = [h EXCEPT !.arena[a] = NULL, !.used_map = palloc_free_multiple(@, a, n), !.ok = TRUE]
    BY <1>2, <1>11
  <2> HIDE DEF h2
  <2> QED BY <1>2, <2>1
<1>13. Occupied(h3.arena, B)
  <2>1. ASSUME NEW x \in Pages, x # a, h.arena[x] # NULL  PROVE \E c \in B : pg_round_down(c) = x
    <3>1. PICK c \in A : pg_round_down(c) = x
      BY <1>5, <2>1
    <3>2. c # b
      BY <1>6, <2>1, <3>1
    <3> QED BY <3>1, <3>2
  <2>2. \A x \in Pages : h3.arena[x] = IF x = a THEN NULL ELSE h.arena[x]
    BY <1>2
  <2> QED BY <2>1, <2>2 DEF Occupied
<1>14. KeepsSizes(h.arena, h3.arena, B)
  <2>1. \A x \in Pages : x # a => h3.arena[x] = h.arena[x]
    BY <1>2
  <2>2. \A c \in B : pg_round_down(c) \in Pages /\ pg_round_down(c) # a
    BY <1>1, <1>9 DEF InArena, Vacates
  <2> HIDE DEF h3
  <2> QED BY <2>1, <2>2 DEF KeepsSizes
<1> HIDE DEF h2, h3
<1> QED BY <1>11, <1>12, <1>13, <1>7, <1>14

(* free() of a block in use. *)
LEMMA FreeStep ==
  ASSUME ~NoMemory, NEW h, NEW A, NEW b \in A, Consistent(h, A), Occupied(h.arena, A)
  PROVE  /\ Consistent(free(h, b), A \ {b}) /\ Occupied(free(h, b).arena, A \ {b})
         /\ KeepsSizes(h.arena, free(h, b).arena, A \ {b})
<1> DEFINE a == pg_round_down(b)
<1>1. /\ b \in Int /\ a \in Pages /\ h.arena[a] # NULL /\ h.arena[a] \in Header
      /\ IF h.arena[a].desc = NULL THEN b = a + sizeof_arena
                                   ELSE b \in Blocks(a, h.arena[a].desc)
  BY DEF Consistent, HeapTypeOK, InArena
<1>2. b # NULL
  BY <1>1, Headers
<1>3. CASE h.arena[a].desc = NULL
  BY <1>3, FreeBig
<1>4. CASE h.arena[a].desc # NULL
  <2>1. h.arena[a].desc \in Desc /\ a \in ArenasOf(h.arena, h.arena[a].desc)
    BY <1>1, <1>4 DEF ArenasOf, Header
  <2>2. MayLookUp(h, b)
    <3> HIDE DEF a
    <3> QED BY <1>1, <1>4, <2>1, LooksUp
  <2>3. free(h, b) = free_block(h, b)
    BY <1>2, <1>4, <2>2 DEF free
  <2>4. /\ Consistent(free_block(h, b), A \ {b}) /\ Occupied(free_block(h, b).arena, A \ {b})
        /\ KeepsSizes(h.arena, free_block(h, b).arena, A \ {b})
    BY <1>4, FreeBlock
  <2> QED BY <2>3, <2>4
<1> QED BY <1>3, <1>4

---------------------------------------------------------------------------
(* The invariant holds initially and every call keeps it. *)

(* The heap is sound after palloc_init() and malloc_init(). *)
LEMMA InitSound ==
  ASSUME Init
  PROVE  HeapInv
<1>1. PICK junk \in Words(page_cnt) :
        heap = [used_map  |-> bitmap_create_in_buf(page_cnt, junk),
                arena     |-> [a \in Pages |-> NULL],
                free_list |-> [d \in Desc |-> <<>>], ok |-> TRUE]
  BY DEF Init
<1>2. ~NoMemory /\ granted = {} /\ page_cnt \in Nat
  BY Pool DEF Init
<1> DEFINE b == [bit_cnt |-> page_cnt, bits |-> junk]
           map == bitmap_create_in_buf(page_cnt, junk)
<1>3. map \in [bit_cnt : {page_cnt}, bits : Words(page_cnt)] /\ Bits(map) = {}
  <2>1. IsBitmap(b) /\ b.bit_cnt = page_cnt
    BY <1>2 DEF IsBitmap, Words
  <2>2. map = bitmap_set_multiple(b, 0, page_cnt, FALSE)
    BY DEF bitmap_create_in_buf, bitmap_set_all
  <2> HIDE DEF b, map
  <2>3. IsBitmap(map) /\ map.bit_cnt = page_cnt /\ Bits(map) = Bits(b) \ (0 .. 0 + page_cnt - 1)
    BY <1>2, <2>1, <2>2, SetOff
  <2>4. map \in [bit_cnt : {page_cnt}, bits : Words(page_cnt)]
    BY <2>3 DEF IsBitmap, Words
  <2>5. 0 + page_cnt - 1 = page_cnt - 1
    BY <1>2
  <2> QED BY <2>1, <2>3, <2>4, <2>5 DEF Bits
<1> HIDE DEF map
<1>4. /\ heap.used_map = map /\ heap.ok = TRUE
      /\ heap.arena = [a \in Pages |-> NULL] /\ heap.free_list = [d \in Desc |-> <<>>]
  BY <1>1 DEF map
<1>5. HeapTypeOK(heap)
  BY <1>1, <1>3 DEF HeapTypeOK, map
<1>6. Heads(heap.arena) = {}
  BY <1>2, <1>4, PagesDiffer DEF Heads
<1>7. \A d \in Desc : ArenasOf(heap.arena, d) = {}
  BY <1>4 DEF ArenasOf
<1>8. \A d \in Desc : heap.free_list[d] = <<>>
  BY <1>4
<1>9. SpansApart(heap.used_map, heap.arena)
  BY <1>3, <1>4, <1>6 DEF SpansApart
<1>10. ListsExact(heap.arena, heap.free_list, {})
  <2>1. IsInjective(<<>>) /\ ToSet(<<>>) = {}
    BY DEF IsInjective, ToSet
  <2> QED BY <1>7, <1>8, <2>1 DEF ListsExact
<1>11. CountsExact(heap.arena, {}) /\ InArena(heap.arena, {})
  BY <1>7 DEF CountsExact, InArena
<1>12. Addresses(granted) = {} /\ Occupied(heap.arena, {})
  BY <1>2, <1>4 DEF Addresses, Occupied
<1> QED BY <1>2, <1>4, <1>5, <1>9, <1>10, <1>11, <1>12 DEF HeapInv, Sound, Consistent

(* What malloc returns is added to what clients have. *)
LEMMA Gives ==
  ASSUME NEW h, NEW gs, Sound(h, gs), NEW r, Allocated(h, Addresses(gs), r), NEW size \in Int
  PROVE  /\ r.block = NULL => r.heap = h
         /\ r.block # NULL =>
              /\ Sound(r.heap, gs \cup {[addr |-> r.block, size |-> size]})
              /\ [addr |-> r.block, size |-> size] \notin gs
<1> DEFINE new == [addr |-> r.block, size |-> size]
<1>1. CASE r.block = NULL
  BY <1>1 DEF Allocated
<1>2. CASE r.block # NULL
  <2>1. /\ r.block \in Int /\ r.block \notin Addresses(gs)
        /\ Consistent(r.heap, Addresses(gs) \cup {r.block})
        /\ Occupied(r.heap.arena, Addresses(gs) \cup {r.block})
    BY <1>2 DEF Allocated
  <2>2. \A g \in gs : g.addr # new.addr
    BY <2>1 DEF Addresses
  <2>3. Addresses(gs \cup {new}) = Addresses(gs) \cup {r.block}
    <3>1. new.addr = r.block
      OBVIOUS
    <3> HIDE DEF new
    <3> QED BY <3>1 DEF Addresses
  <2>4. new \in [addr : Int, size : Int]
    BY <2>1
  <2> HIDE DEF new
  <2>5. Sound(r.heap, gs \cup {new})
    BY <2>1, <2>2, <2>3, <2>4 DEF Sound
  <2> QED BY <1>2, <2>2, <2>5 DEF new
<1> QED BY <1>1, <1>2

(* What is freed is taken from what clients have. *)
LEMMA Takes ==
  ASSUME NEW h, NEW gs, Sound(h, gs), NEW g \in gs
  PROVE  Sound(free(h, g.addr), gs \ {g})
<1>1. Addresses(gs \ {g}) = Addresses(gs) \ {g.addr}
  BY DEF Sound, Addresses
<1>2. g.addr \in Addresses(gs)
  BY DEF Addresses
<1>3. /\ Consistent(free(h, g.addr), Addresses(gs) \ {g.addr})
      /\ Occupied(free(h, g.addr).arena, Addresses(gs) \ {g.addr})
  BY <1>2, FreeStep DEF Sound
<1> QED BY <1>1, <1>3 DEF Sound

(* Every call keeps it sound. *)
LEMMA StepSound ==
  ASSUME HeapInv, [Next]_vars
  PROVE  HeapInv'
<1>1. Sound(heap, granted)
  BY DEF HeapInv
<1>2. Sizes \cup Factors \subseteq Int
  BY MallocAssumption, PallocAssumption
<1>3. \A size \in Int : Allocated(heap, Addresses(granted), malloc(heap, size))
  <2>1. ~NoMemory /\ Consistent(heap, Addresses(granted)) /\ Occupied(heap.arena, Addresses(granted))
    BY <1>1 DEF Sound
  <2> QED BY <2>1, MallocStep
<1>4. SUFFICES Sound(heap', granted')
  BY DEF HeapInv, Sound, Consistent, HeapTypeOK, Occupied, Addresses
<1>5. ASSUME NEW size \in Int, NEW asked \in Int, Returns(malloc(heap, size), asked, granted)
      PROVE  Sound(heap', granted')
  <2> DEFINE r == malloc(heap, size)
  <2>1. /\ heap' = r.heap
        /\ granted' = IF r.block = NULL THEN granted
                      ELSE granted \cup {[addr |-> r.block, size |-> asked]}
    BY <1>5 DEF Returns
  <2>2. /\ r.block = NULL => r.heap = heap
        /\ r.block # NULL => Sound(r.heap, granted \cup {[addr |-> r.block, size |-> asked]})
    BY <1>1, <1>3, Gives
  <2> QED BY <1>1, <2>1, <2>2
<1>6. CASE \E size \in Sizes : Malloc(size)
  BY <1>2, <1>5, <1>6 DEF Malloc
<1>7. CASE \E a, b \in Factors : Calloc(a, b)
  <2>1. PICK a \in Factors, b \in Factors : Calloc(a, b)
    BY <1>7
  <2> DEFINE size == (a * b) % WORD
  <2>2. a * b \in Int /\ size \in Int
    <3>1. a \in Int /\ b \in Int /\ WORD \in Nat \ {0}
      BY <1>2, PallocAssumption
    <3>2. a * b \in Int
      BY <3>1
    <3> QED BY <3>1, <3>2, Divided
  <2> HIDE DEF size
  <2>3. CASE size < a \/ size < b
    <3>1. Returns([block |-> NULL, heap |-> heap], 0, granted)
      BY <2>1, <2>3 DEF Calloc, size
    <3> QED BY <1>1, <3>1 DEF Returns
  <2>4. CASE ~(size < a \/ size < b)
    <3>1. Returns(malloc(heap, size), a * b, granted)
      BY <2>1, <2>4 DEF Calloc, size
    <3> QED BY <1>5, <2>2, <3>1
  <2> QED BY <2>3, <2>4
<1>8. CASE \E g \in granted, size \in Sizes : Realloc(g, size)
  <2>1. PICK g \in granted, size \in Sizes : Realloc(g, size)
    BY <1>8
  <2> DEFINE r == malloc(heap, size)
  <2>2. CASE size = 0
    <3>1. heap' = free(heap, g.addr) /\ granted' = granted \ {g}
      BY <2>1, <2>2 DEF Realloc, Returns
    <3> QED BY <1>1, <3>1, Takes
  <2>3. CASE size # 0 /\ r.block = NULL
    <3>1. Returns(malloc(heap, size), size, granted)
      BY <2>1, <2>3 DEF Realloc
    <3> QED BY <1>2, <1>5, <3>1
  <2>4. CASE size # 0 /\ r.block # NULL
    <3> DEFINE new == [addr |-> r.block, size |-> size]
    <3>1. heap' = free(r.heap, g.addr) /\ granted' = (granted \ {g}) \cup {new}
      <4>1. Returns([r EXCEPT !.heap = free(@, g.addr)], size, granted \ {g})
        BY <2>1, <2>4 DEF Realloc
      <4>2. r = [block |-> r.block, heap |-> r.heap]
        BY MallocReturns
      <4>3. [r EXCEPT !.heap = free(@, g.addr)] = [block |-> r.block, heap |-> free(r.heap, g.addr)]
        BY <4>2
      <4> HIDE DEF r
      <4> QED BY <2>4, <4>1, <4>3 DEF Returns
    <3>2. Sound(r.heap, granted \cup {new}) /\ new \notin granted
      BY <1>1, <1>2, <1>3, <2>4, Gives
    <3> HIDE DEF r, new
    <3>3. (granted \cup {new}) \ {g} = (granted \ {g}) \cup {new}
      BY <3>2
    <3>4. Sound(free(r.heap, g.addr), (granted \cup {new}) \ {g})
      BY <3>2, Takes
    <3> QED BY <3>1, <3>3, <3>4
  <2> QED BY <2>2, <2>3, <2>4
<1>9. CASE \E g \in granted : Free(g)
  <2>1. PICK g \in granted : Free(g)
    BY <1>9
  <2>2. heap' = free(heap, g.addr) /\ granted' = granted \ {g}
    BY <2>1 DEF Free, Returns
  <2> QED BY <1>1, <2>2, Takes
<1>10. CASE UNCHANGED vars
  BY <1>1, <1>10 DEF vars
<1> QED BY <1>6, <1>7, <1>8, <1>9, <1>10 DEF Next

(* The headers, the bitmap, the free lists and what clients have agree     *)
(* after every call.                                                       *)
THEOREM HeapInvariantHolds == Spec => []HeapInv
<1>1. Init => HeapInv
  BY InitSound
<1>2. HeapInv /\ [Next]_vars => HeapInv'
  BY StepSound
<1> QED BY <1>1, <1>2, PTL DEF Spec

(* No ASSERT of the allocators fails: HeapAssertsHold. *)
THEOREM NoHeapAssertFails == Spec => []HeapAssertsHold
<1>1. HeapInv => HeapAssertsHold
  BY DEF HeapInv, Sound, Consistent, HeapAssertsHold
<1> QED BY <1>1, HeapInvariantHolds, PTL

---------------------------------------------------------------------------
(* What the invariant says of blocks and pages. *)

(* The blocks of an arena are each handed out or on its descriptor's free  *)
(* list, once, and free_cnt counts the latter: FreeListsExact.             *)
THEOREM FreeListsStayExact == Spec => []FreeListsExact
<1>1. ASSUME HeapInv  PROVE FreeListsExact
  <2> DEFINE A == Addresses(granted)
             ar == heap.arena
             fl == heap.free_list
  <2>1. /\ ~NoMemory /\ InArena(ar, A) /\ ListsExact(ar, fl, A) /\ CountsExact(ar, A)
    BY <1>1 DEF HeapInv, Sound, Consistent
  <2> HIDE DEF A, ar, fl
  <2>2. ASSUME NEW d \in Desc
        PROVE  /\ IsInjective(fl[d])
               /\ ToSet(fl[d]) \subseteq UNION {Blocks(a, d) : a \in ArenasOf(ar, d)}
               /\ \A a \in ArenasOf(ar, d) :
                    /\ Blocks(a, d) \ ToSet(fl[d]) = A \cap (a .. a + PGSIZE - 1)
                    /\ ar[a].free_cnt = Cardinality(Blocks(a, d) \cap ToSet(fl[d]))
    <3>1. IsInjective(fl[d]) /\ ToSet(fl[d]) = UNION {Blocks(a, d) \ A : a \in ArenasOf(ar, d)}
      BY <2>1 DEF ListsExact
    <3>2. ASSUME NEW a \in ArenasOf(ar, d)
          PROVE  /\ Blocks(a, d) \ ToSet(fl[d]) = A \cap (a .. a + PGSIZE - 1)
                 /\ ar[a].free_cnt = Cardinality(Blocks(a, d) \cap ToSet(fl[d]))
      <4>1. a \in Pages /\ ar[a] # NULL /\ ar[a].desc = d /\ d # NULL
        BY Headers DEF ArenasOf
      <4>2. Blocks(a, d) \cap ToSet(fl[d]) = Blocks(a, d) \ A
        BY <3>1
      <4>3. ASSUME NEW c \in Blocks(a, d)  PROVE c \in a .. a + PGSIZE - 1
        <5>1. c \in Int /\ a < c /\ c + d <= a + PGSIZE /\ d \in Nat \ {0}
          BY <2>1, <4>1, BlockInPage, Descriptor
        <5>2. a \in Int /\ PGSIZE \in Int
          BY <2>1, <4>1, PagesDiffer
        <5> QED BY <5>1, <5>2
      <4>4. ASSUME NEW c \in A, c \in a .. a + PGSIZE - 1  PROVE c \in Blocks(a, d)
        <5>1. pg_round_down(c) = a
          <6>1. PICK i \in Index : a = Page(i) /\ i \in Int /\ a \in Int
            BY <2>1, <4>1, PagesDiffer
          <6>2. c - a \in 0 .. PGSIZE - 1 /\ c = a + (c - a)
            <7>1. a \in Int /\ PGSIZE \in Int
              BY <6>1, PallocAssumption
            <7> QED BY ONLY <4>4, <7>1
          <6> HIDE DEF Index
          <6> QED BY <2>1, <6>1, <6>2, InPage
        <5> QED BY <2>1, <4>1, <5>1 DEF InArena
      <4>5. Blocks(a, d) \ ToSet(fl[d]) = A \cap (a .. a + PGSIZE - 1)
        <5>1. Blocks(a, d) \ ToSet(fl[d]) = Blocks(a, d) \cap A
          BY <4>2
        <5> QED BY <4>3, <4>4, <5>1
      <4>6. ar[a].free_cnt = Cardinality(Blocks(a, d) \ A)
        BY <2>1 DEF CountsExact
      <4> QED BY <4>2, <4>5, <4>6
    <3>3. ToSet(fl[d]) \subseteq UNION {Blocks(a, d) : a \in ArenasOf(ar, d)}
      BY <3>1
    <3> QED BY <3>1, <3>2, <3>3
  <2> QED BY <2>2 DEF FreeListsExact, Blocks, ArenasOf, Addresses, A, ar, fl
<1> QED BY <1>1, HeapInvariantHolds, PTL

(* Where a page lies that starts in a run of m pages. *)
LEMMA PageRange ==
  ASSUME ~NoMemory, NEW i \in Int, NEW j \in Int, NEW m \in Int, NEW e \in Int,
         Page(j) + PGSIZE * (m - 1) < e, e <= Page(j) + PGSIZE * m
  PROVE  /\ Page(i) \in Int /\ (Page(j) <= Page(i) <=> j <= i) /\ (Page(i) < e <=> i < j + m)
         /\ e <= Page(j + m)
<1>1. PGSIZE \in Nat \ {0} /\ base \in Int
  <2>1. PICK k \in Nat : base = PGSIZE * k
    BY Pool
  <2> QED BY <2>1, PallocAssumption
<1>2. /\ Page(i) = base + PGSIZE * i /\ Page(j) = base + PGSIZE * j
      /\ Page(j + m) = base + PGSIZE * (j + m)
  BY DEF Page
<1>3. /\ PGSIZE * i \in Int /\ PGSIZE * j \in Int /\ PGSIZE * m \in Int
      /\ PGSIZE * (m - 1) = PGSIZE * m - PGSIZE /\ PGSIZE * (j + m) = PGSIZE * j + PGSIZE * m
  BY <1>1
<1>4. j <= i => PGSIZE * j <= PGSIZE * i
  BY <1>1, TimesMonotonic
<1>5. i + 1 <= j => PGSIZE * i + PGSIZE <= PGSIZE * j
  <2>1. i + 1 <= j => PGSIZE * (i + 1) <= PGSIZE * j
    BY <1>1, TimesMonotonic
  <2> QED BY <1>1, <2>1
<1>6. i + 1 <= j + m => PGSIZE * i + PGSIZE <= PGSIZE * j + PGSIZE * m
  <2>1. i + 1 <= j + m => PGSIZE * (i + 1) <= PGSIZE * (j + m)
    BY <1>1, TimesMonotonic
  <2> QED BY <1>1, <1>3, <2>1
<1>7. j + m <= i => PGSIZE * j + PGSIZE * m <= PGSIZE * i
  <2>1. j + m <= i => PGSIZE * (j + m) <= PGSIZE * i
    BY <1>1, TimesMonotonic
  <2> QED BY <1>3, <2>1
<1> QED BY <1>1, <1>2, <1>3, <1>4, <1>5, <1>6, <1>7

(* The pages of a block are those it starts on or covers. *)
LEMMA Extent ==
  ASSUME NEW h, NEW gs, Sound(h, gs), NEW b \in Addresses(gs)
  PROVE  LET a == pg_round_down(b)
             i == page_idx(a)
             e == b + block_size(h, b)
         IN /\ a \in Pages /\ i \in Heads(h.arena) /\ i \in Int /\ Page(i) = a
            /\ a < b /\ b < e /\ e \in Int /\ b < a + PGSIZE /\ block_size(h, b) \in Int
            /\ \E m \in Nat \ {0} :
                 Span(h.arena, i) = i .. i + m - 1 /\ a + PGSIZE * (m - 1) < e /\ e <= a + PGSIZE * m
<1> DEFINE a == pg_round_down(b)
           i == page_idx(a)
           s == block_size(h, b)
<1>1. ~NoMemory /\ HeapTypeOK(h) /\ InArena(h.arena, Addresses(gs)) /\ SpansApart(h.used_map, h.arena)
  BY DEF Sound, Consistent
<1>2. /\ b \in Int /\ a \in Pages /\ h.arena[a] # NULL /\ h.arena[a] \in Header
      /\ IF h.arena[a].desc = NULL THEN b = a + sizeof_arena
                                   ELSE b \in Blocks(a, h.arena[a].desc)
  BY <1>1 DEF InArena, HeapTypeOK
<1>3. s = IF h.arena[a].desc # NULL THEN h.arena[a].desc ELSE PGSIZE * h.arena[a].free_cnt - pg_ofs(b)
  BY DEF block_size
<1> HIDE DEF s
<1>4. a \in Int /\ PGSIZE \in Nat \ {0}
  BY <1>1, <1>2, PagesDiffer
<1>5. i \in Heads(h.arena) /\ i \in Int /\ Page(i) = a
  BY <1>1, <1>2, PagesDiffer DEF Heads
<1> SUFFICES /\ a < b /\ b < b + s /\ b + s \in Int /\ b < a + PGSIZE /\ s \in Int
             /\ \E m \in Nat \ {0} : /\ Span(h.arena, i) = i .. i + m - 1
                                     /\ a + PGSIZE * (m - 1) < b + s /\ b + s <= a + PGSIZE * m
  BY <1>2, <1>5 DEF s
<1> HIDE DEF a, i
<1>6. CASE h.arena[a].desc # NULL
  <2> DEFINE d == h.arena[a].desc
  <2>1. d \in Desc /\ s = d /\ b \in Blocks(a, d)
    BY <1>2, <1>3, <1>6 DEF Header
  <2>2. Span(h.arena, i) = {i}
    BY <1>5, <1>6 DEF Span
  <2> HIDE DEF d
  <2>3. a < b /\ b + d <= a + PGSIZE /\ d \in Nat \ {0}
    BY <1>1, <1>2, <2>1, BlockInPage, Descriptor
  <2>4. Span(h.arena, i) = i .. i + 1 - 1
    BY <1>5, <2>2
  <2>5. PGSIZE * (1 - 1) = 0 /\ PGSIZE * 1 = PGSIZE
    BY <1>4
  <2>6. 1 \in Nat \ {0} /\ a + PGSIZE * (1 - 1) < b + s /\ b + s <= a + PGSIZE * 1
    BY <1>2, <1>4, <2>1, <2>3, <2>5
  <2> QED BY <1>2, <1>4, <2>1, <2>3, <2>4, <2>6
<1>7. CASE h.arena[a].desc = NULL
  <2> DEFINE m == h.arena[a].free_cnt
  <2>1. /\ b = a + sizeof_arena /\ pg_ofs(b) = sizeof_arena
        /\ sizeof_arena \in 1 .. PGSIZE - 1 /\ m \in Nat
    BY <1>1, <1>2, <1>7, BigInPage DEF Header
  <2>2. Span(h.arena, i) = i .. i + m - 1
    BY <1>5, <1>7 DEF Span
  <2>3. s = PGSIZE * m - sizeof_arena
    BY <1>3, <1>7, <2>1
  <2>4. i \in i .. i + m - 1
    BY <1>1, <1>5, <2>2 DEF SpansApart
  <2> HIDE DEF m
  <2>5. m # 0
    BY <1>5, <2>1, <2>4
  <2>6. PGSIZE * m \in Int /\ PGSIZE * (m - 1) = PGSIZE * m - PGSIZE /\ PGSIZE <= PGSIZE * m
    <3>1. PGSIZE * 1 <= PGSIZE * m
      BY <1>4, <2>1, <2>5, TimesMonotonic
    <3> QED BY <1>4, <2>1, <3>1
  <2>7. b + s = a + PGSIZE * m /\ s \in Int /\ s > 0
    BY <1>4, <2>1, <2>3, <2>6
  <2> QED BY <1>2, <1>4, <2>1, <2>2, <2>5, <2>6, <2>7
<1> QED BY <1>6, <1>7

(* Block b covers page i. *)
Covers(h, b, i) == pg_round_down(b) <= Page(i) /\ Page(i) < b + block_size(h, b)

(* The pages in use are those of the blocks that are out. *)
LEMMA UsedAreCovered ==
  ASSUME NEW h, NEW gs, Sound(h, gs)
  PROVE  /\ Bits(h.used_map) = {i \in Index : \E b \in Addresses(gs) : Covers(h, b, i)}
         /\ Index \subseteq Int
<1>1. /\ ~NoMemory /\ HeapTypeOK(h) /\ SpansApart(h.used_map, h.arena)
      /\ Occupied(h.arena, Addresses(gs))
  BY DEF Sound, Consistent
<1>2. \A i \in Index : i \in Int /\ Page(i) \in Pages /\ page_idx(Page(i)) = i
  BY <1>1, PagesDiffer
<1>3. ASSUME NEW b \in Addresses(gs), NEW i \in Index
      PROVE  Covers(h, b, i) <=> i \in Span(h.arena, page_idx(pg_round_down(b)))
  <2> DEFINE a == pg_round_down(b)
             j == page_idx(a)
             e == b + block_size(h, b)
  <2>1. /\ a \in Pages /\ j \in Int /\ Page(j) = a /\ e \in Int
        /\ \E m \in Nat \ {0} :
             Span(h.arena, j) = j .. j + m - 1 /\ a + PGSIZE * (m - 1) < e /\ e <= a + PGSIZE * m
    BY Extent
  <2>2. Covers(h, b, i) <=> a <= Page(i) /\ Page(i) < e
    BY DEF Covers
  <2> HIDE DEF a, j, e
  <2>3. PICK m \in Nat \ {0} :
          Span(h.arena, j) = j .. j + m - 1 /\ a + PGSIZE * (m - 1) < e /\ e <= a + PGSIZE * m
    BY <2>1
  <2>4. (a <= Page(i) <=> j <= i) /\ (Page(i) < e <=> i < j + m)
    BY <1>1, <1>2, <2>1, <2>3, PageRange
  <2>5. Covers(h, b, i) <=> i \in j .. j + m - 1
    BY <1>2, <2>1, <2>2, <2>4
  <2> QED BY <2>3, <2>5 DEF a, j
<1>4. ASSUME NEW b \in Addresses(gs)
      PROVE  page_idx(pg_round_down(b)) \in Heads(h.arena)
  BY Extent
<1>5. ASSUME NEW j \in Heads(h.arena)
      PROVE  \E b \in Addresses(gs) : page_idx(pg_round_down(b)) = j
  <2>1. j \in Index /\ h.arena[Page(j)] # NULL
    BY DEF Heads
  <2> QED BY <1>1, <1>2, <2>1 DEF Occupied
<1>6. /\ Bits(h.used_map) = UNION {Span(h.arena, j) : j \in Heads(h.arena)}
      /\ \A j \in Heads(h.arena) : Span(h.arena, j) \subseteq Index
  BY <1>1 DEF SpansApart
<1> QED BY <1>2, <1>3, <1>4, <1>5, <1>6

(* A page is used only if a block handed out covers it: NoPageLeak. *)
THEOREM NoPageLeaks == Spec => []NoPageLeak
<1>1. ASSUME HeapInv  PROVE NoPageLeak
  <2>1. ~NoMemory /\ heap.used_map \in [bit_cnt : {page_cnt}, bits : Words(page_cnt)]
    BY <1>1 DEF HeapInv, Sound, Consistent, HeapTypeOK
  <2>2. Used = Bits(heap.used_map)
    BY <2>1 DEF Used, Bits
  <2>3. Bits(heap.used_map) = {i \in Index : \E b \in Addresses(granted) : Covers(heap, b, i)}
    BY <1>1, UsedAreCovered DEF HeapInv
  <2>4. \A i \in Index : (\E b \in Addresses(granted) : Covers(heap, b, i))
                           <=> \E g \in granted : Covers(heap, g.addr, i)
    BY DEF Addresses
  <2> QED BY <2>2, <2>3, <2>4 DEF NoPageLeak, Covers, Index
<1> QED BY <1>1, HeapInvariantHolds, PTL

(* A request whose size overflows a size_t is for more than the pool has.  *)
LEMMA TooMuch ==
  ASSUME ~NoMemory, NEW size \in Nat, size + sizeof_arena + PGSIZE - 1 >= WORD
  PROVE  DIV_ROUND_UP(size + sizeof_arena, PGSIZE) > page_cnt
<1> DEFINE x == size + sizeof_arena + PGSIZE - 1
           n == x \div PGSIZE
<1>1. /\ PGSIZE \in Nat \ {0} /\ WORD \in Nat \ {0} /\ sizeof_arena \in Nat
      /\ free_pages \in Nat /\ bm_pages \in Nat \ {0} /\ AdjustedMem.size \in Nat
      /\ PGSIZE * free_pages <= AdjustedMem.size /\ AdjustedMem.size < WORD
  BY Chunk, PallocAssumption, MallocAssumption
<1>2. x \in Nat /\ x >= WORD
  BY <1>1
<1> HIDE DEF x
<1>3. n \in Int /\ x = PGSIZE * n + (x % PGSIZE) /\ x % PGSIZE \in 0 .. PGSIZE - 1
  BY <1>1, <1>2, Divided
<1> HIDE DEF n
<1>4. n >= free_pages
  <2>1. PGSIZE * (n + 1) = PGSIZE * n + PGSIZE /\ PGSIZE * n \in Int /\ PGSIZE * free_pages \in Int
    BY <1>1, <1>3
  <2>2. n + 1 <= free_pages => PGSIZE * (n + 1) <= PGSIZE * free_pages
    BY <1>1, <1>3, TimesMonotonic
  <2> QED BY <1>1, <1>2, <1>3, <2>1, <2>2
<1>5. n > page_cnt
  BY <1>1, <1>3, <1>4 DEF page_cnt
<1> QED BY <1>5 DEF DIV_ROUND_UP, n, x

(* malloc returns NULL only if every run of pages the request would fit    *)
(* into has one of a block handed out: RefusesOnlyWhenFull.                *)
THEOREM RefusedOnlyWhenFull == Spec => []RefusesOnlyWhenFull
<1>1. ASSUME HeapInv, NEW size \in Sizes \ {0}, malloc(heap, size).block = NULL,
             NEW i \in 0 .. page_cnt - DIV_ROUND_UP(size + sizeof_arena, PGSIZE)
      PROVE  \E g \in granted :
               /\ g.addr < Page(i) + DIV_ROUND_UP(size + sizeof_arena, PGSIZE) * PGSIZE
               /\ g.addr + block_size(heap, g.addr) > Page(i)
  <2> DEFINE n == DIV_ROUND_UP(size + sizeof_arena, PGSIZE)
             A == Addresses(granted)
  <2>1. Sound(heap, granted) /\ ~NoMemory
    BY <1>1 DEF HeapInv, Sound
  <2>2. /\ PGSIZE \in Nat \ {0} /\ WORD \in Nat \ {0} /\ sizeof_arena \in Nat \ {0}
        /\ size \in Nat \ {0} /\ page_cnt \in Nat
    BY <2>1, PallocAssumption, MallocAssumption, Pool
  <2>3. size + sizeof_arena + PGSIZE - 1 \in 0 .. WORD - 1
    <3>1. n \in Int
      <4>1. size + sizeof_arena + PGSIZE - 1 \in Int
        BY <2>2
      <4> QED BY <2>2, <4>1, Divided DEF DIV_ROUND_UP
    <3>2. i \in 0 .. page_cnt - n
      OBVIOUS
    <3>3. size + sizeof_arena + PGSIZE - 1 >= WORD => n > page_cnt
      BY <2>1, <2>2, TooMuch
    <3> HIDE DEF n
    <3> QED BY <2>2, <3>1, <3>2, <3>3
  <2>4. n = ((size + sizeof_arena + PGSIZE - 1) % WORD) \div PGSIZE /\ n \in Nat \ {0}
    <3> DEFINE x == size + sizeof_arena + PGSIZE - 1
    <3>1. x % WORD = x /\ x \in Nat /\ x >= PGSIZE
      <4>1. x \in 0 .. WORD - 1 /\ x >= PGSIZE
        BY <2>2, <2>3
      <4> HIDE DEF x
      <4> QED BY <2>2, <4>1, Unchanged
    <3>2. n = x \div PGSIZE
      BY DEF DIV_ROUND_UP
    <3> HIDE DEF x, n
    <3>3. x \div PGSIZE \in Int /\ x = PGSIZE * (x \div PGSIZE) + (x % PGSIZE)
          /\ x % PGSIZE \in 0 .. PGSIZE - 1
      <4>1. x \in Int
        BY <3>1
      <4> QED BY ONLY <2>2, <4>1, Divided
    <3>4. x \div PGSIZE <= 0 => PGSIZE * (x \div PGSIZE) <= PGSIZE * 0
      BY <2>2, <3>3, TimesMonotonic
    <3>5. x \div PGSIZE \in Nat \ {0}
      BY <2>2, <3>1, <3>3, <3>4
    <3>6. n = (x % WORD) \div PGSIZE
      BY <3>1, <3>2
    <3> QED BY <3>2, <3>5, <3>6 DEF x
  <2>5. i \in 0 .. page_cnt - n
    OBVIOUS
  <2>6. \/ Bits(heap.used_map) = Index
        \/ n # 0 => \A j \in 0 .. page_cnt - n : (j .. j + n - 1) \cap Bits(heap.used_map) # {}
    <3>1. Consistent(heap, A) /\ Occupied(heap.arena, A) /\ size \in Int /\ size # 0
      BY <2>1, <2>2 DEF Sound
    <3> DEFINE n2 == ((size + sizeof_arena + PGSIZE - 1) % WORD) \div PGSIZE
    <3>2. \/ Bits(heap.used_map) = Index
          \/ n2 # 0 => \A j \in 0 .. page_cnt - n2 : (j .. j + n2 - 1) \cap Bits(heap.used_map) # {}
      <4> HIDE DEF A
      <4> QED BY ONLY <1>1, <2>1, <3>1, MallocStep
    <3> HIDE DEF n, n2
    <3>3. n = n2
      BY <2>4 DEF n2
    <3> QED BY <3>2, <3>3
  <2> HIDE DEF n
  <2>7. PICK j \in i .. i + n - 1 : j \in Bits(heap.used_map)
    <3>1. i \in i .. i + n - 1 /\ i \in Index
      BY <2>2, <2>4, <2>5 DEF Index
    <3> QED BY <2>4, <2>5, <2>6, <3>1
  <2>8. PICK g \in granted : Covers(heap, g.addr, j)
    BY <2>1, <2>7, UsedAreCovered DEF Addresses
  <2> DEFINE b == g.addr
             a == pg_round_down(b)
             e == b + block_size(heap, b)
  <2>9. a <= Page(j) /\ Page(j) < e
    BY <2>8 DEF Covers
  <2>10. a \in Pages /\ a < b /\ b < e /\ e \in Int /\ b < a + PGSIZE /\ b \in Int
    <3>1. b \in A
      BY DEF Addresses
    <3>2. b \in Int
      BY <2>1, <3>1 DEF Sound, Consistent, InArena
    <3> HIDE DEF A
    <3> QED BY <2>1, <3>1, <3>2, Extent DEF A
  <2> HIDE DEF a, b, e
  <2>11. /\ base \in Int /\ a \in Int /\ i \in Int /\ j \in Int /\ n \in Int
         /\ PGSIZE * i <= PGSIZE * j /\ PGSIZE * j + PGSIZE <= PGSIZE * i + n * PGSIZE
         /\ PGSIZE * i \in Int /\ PGSIZE * j \in Int /\ n * PGSIZE \in Int
    <3>1. base \in Int /\ a \in Int
      <4>1. PICK k \in Nat : base = PGSIZE * k
        BY <2>1, Pool
      <4> QED BY <2>1, <2>2, <2>10, <4>1, PagesDiffer
    <3>2. i \in Int /\ j \in Int /\ i <= j /\ j + 1 <= i + n /\ n \in Int
      BY <2>2, <2>4, <2>5, <2>7
    <3>3. PGSIZE * i <= PGSIZE * j /\ PGSIZE * (j + 1) <= PGSIZE * (i + n)
      BY <2>2, <3>2, TimesMonotonic
    <3>4. PGSIZE * (j + 1) = PGSIZE * j + PGSIZE /\ PGSIZE * (i + n) = PGSIZE * i + n * PGSIZE
      BY <2>2, <3>2
    <3> QED BY <2>2, <3>1, <3>2, <3>3, <3>4
  <2>12. b < Page(i) + n * PGSIZE /\ e > Page(i)
    BY <2>2, <2>9, <2>10, <2>11 DEF Page
  <2> QED BY <2>12 DEF b, e, n
<1>2. HeapInv => RefusesOnlyWhenFull
  BY <1>1 DEF RefusesOnlyWhenFull
<1> QED BY <1>2, HeapInvariantHolds, PTL

---------------------------------------------------------------------------
(* The allocator implements Heap where no size overflows a size_t.         *)

NoWrap ==
  /\ \A size \in Sizes : size + sizeof_arena + PGSIZE - 1 < WORD
  /\ \A a, b \in Factors : a * b + sizeof_arena + PGSIZE - 1 < WORD

(* The bytes of the pool, behind its bitmap. *)
PoolBytes == base .. base + PGSIZE * page_cnt - 1

(* Every block has room for the bytes that were asked for. *)
Fits(h, gs) == \A g \in gs : g.size <= block_size(h, g.addr)

(* A call on another block does not change the size of this one. *)
LEMMA SizesKept ==
  ASSUME NEW h, NEW h2, NEW A, KeepsSizes(h.arena, h2.arena, A), NEW b \in A
  PROVE  block_size(h2, b) = block_size(h, b)
<1> DEFINE a == pg_round_down(b)
<1>1. /\ h2.arena[a].desc = h.arena[a].desc
      /\ h.arena[a].desc = NULL => h2.arena[a].free_cnt = h.arena[a].free_cnt
  BY DEF KeepsSizes
<1> HIDE DEF a
<1> QED BY <1>1 DEF block_size, a

(* The block malloc returns has room for what was asked for. *)
LEMMA RoomFor ==
  ASSUME ~NoMemory, NEW h, NEW A, Consistent(h, A), Occupied(h.arena, A), NEW size \in Nat,
         size + sizeof_arena + PGSIZE - 1 < WORD, malloc(h, size).block # NULL
  PROVE  size <= block_size(malloc(h, size).heap, malloc(h, size).block)
<1> DEFINE fits == {d \in Desc : d >= size}
           r    == malloc(h, size)
<1>1. r = IF size = 0 THEN [block |-> NULL, heap |-> h]
          ELSE IF fits # {} THEN malloc_block(h, Min(fits)) ELSE malloc_big(h, size)
  BY DEF malloc
<1>2. fits \in SUBSET Nat /\ fits \subseteq Desc /\ \A d \in fits : size <= d
  BY Descriptor
<1>3. r.block # NULL
  OBVIOUS
<1> HIDE DEF fits, r
<1>4. CASE fits # {}
  <2>1. Min(fits) \in fits
    BY <1>2, <1>4, MinIsLeast
  <2> DEFINE d == Min(fits)
  <2>2. d \in Desc /\ size <= d
    BY <1>2, <2>1
  <2> HIDE DEF d
  <2>3. r = malloc_block(h, d)
    BY <1>1, <1>3, <1>4 DEF d
  <2>4. block_size(r.heap, r.block) = d
    BY <1>3, <2>2, <2>3, MallocBlock
  <2> QED BY <2>2, <2>4 DEF r
<1>5. CASE fits = {}
  <2> DEFINE x == size + sizeof_arena + PGSIZE - 1
             n == (x % WORD) \div PGSIZE
  <2>1. r = malloc_big(h, size)
    BY <1>1, <1>3, <1>5
  <2>2. block_size(r.heap, r.block) = PGSIZE * n - sizeof_arena
    BY <1>3, <2>1, MallocBig
  <2>3. /\ PGSIZE \in Nat \ {0} /\ WORD \in Nat \ {0} /\ sizeof_arena \in Nat \ {0}
    BY PallocAssumption, MallocAssumption
  <2>4. x \in 0 .. WORD - 1 /\ x = size + sizeof_arena + PGSIZE - 1
    BY <2>3
  <2> HIDE DEF x
  <2>5. x % WORD = x
    BY <2>3, <2>4, Unchanged
  <2>6. n = x \div PGSIZE
    BY <2>5
  <2>7. x \in Int
    BY <2>4
  <2> HIDE DEF n
  <2>8. x = PGSIZE * n + (x % PGSIZE) /\ x % PGSIZE \in 0 .. PGSIZE - 1 /\ n \in Int
    BY ONLY <2>3, <2>6, <2>7, Divided
  <2>9. PGSIZE * n \in Int
    BY <2>3, <2>8
  <2>10. size <= PGSIZE * n - sizeof_arena
    BY ONLY <2>3, <2>4, <2>8, <2>9, size \in Nat
  <2> QED BY <2>2, <2>10 DEF r
<1> QED BY <1>4, <1>5

(* A block lies in the pool. *)
LEMMA InPool ==
  ASSUME NEW h, NEW gs, Sound(h, gs), NEW b \in Addresses(gs)
  PROVE  b .. (b + block_size(h, b)) - 1 \subseteq PoolBytes
<1> DEFINE a == pg_round_down(b)
           i == page_idx(a)
           e == b + block_size(h, b)
<1>1. /\ a \in Pages /\ i \in Heads(h.arena) /\ i \in Int /\ Page(i) = a
      /\ a < b /\ b < e /\ e \in Int /\ b < a + PGSIZE
      /\ \E m \in Nat \ {0} :
           Span(h.arena, i) = i .. i + m - 1 /\ a + PGSIZE * (m - 1) < e /\ e <= a + PGSIZE * m
  BY Extent
<1> HIDE DEF a, i, e
<1>2. PICK m \in Nat \ {0} :
        Span(h.arena, i) = i .. i + m - 1 /\ a + PGSIZE * (m - 1) < e /\ e <= a + PGSIZE * m
  BY <1>1
<1>3. ~NoMemory /\ b \in Int /\ Span(h.arena, i) \subseteq Index
  BY <1>1 DEF Sound, Consistent, InArena, SpansApart
<1>4. PGSIZE \in Nat \ {0} /\ base \in Int /\ page_cnt \in Nat
  <2>1. PICK k \in Nat : base = PGSIZE * k
    BY <1>3, Pool
  <2> QED BY <1>3, <2>1, Pool, PallocAssumption
<1>5. i + m <= page_cnt /\ 0 <= i
  <2>1. i + m - 1 \in Index /\ i \in Index
    BY <1>1, <1>2, <1>3
  <2> QED BY <1>1, <1>4, <2>1 DEF Index
<1>6. /\ PGSIZE * i \in Int /\ PGSIZE * m \in Int /\ PGSIZE * page_cnt \in Int
      /\ 0 <= PGSIZE * i /\ PGSIZE * i + PGSIZE * m <= PGSIZE * page_cnt
  <2>1. PGSIZE * 0 <= PGSIZE * i /\ PGSIZE * (i + m) <= PGSIZE * page_cnt
    BY <1>1, <1>4, <1>5, TimesMonotonic
  <2>2. PGSIZE * 0 = 0 /\ PGSIZE * (i + m) = PGSIZE * i + PGSIZE * m
    BY <1>1, <1>4
  <2> QED BY <1>1, <1>4, <2>1, <2>2
<1>7. a = base + PGSIZE * i
  BY <1>1 DEF Page
<1>8. b .. e - 1 \subseteq base .. base + PGSIZE * page_cnt - 1
  BY ONLY <1>1, <1>2, <1>3, <1>4, <1>6, <1>7
<1> QED BY <1>8 DEF e, PoolBytes

(* Two blocks do not overlap. *)
LEMMA Disjoint ==
  ASSUME NEW h, NEW gs, Sound(h, gs), NEW b \in Addresses(gs), NEW c \in Addresses(gs), b # c
  PROVE  b + block_size(h, b) <= c \/ c + block_size(h, c) <= b
<1> DEFINE i == page_idx(pg_round_down(b))
           j == page_idx(pg_round_down(c))
           eb == b + block_size(h, b)
           ec == c + block_size(h, c)
<1>1. ~NoMemory /\ InArena(h.arena, Addresses(gs)) /\ SpansApart(h.used_map, h.arena)
      /\ HeapTypeOK(h)
  BY DEF Sound, Consistent
<1>2. /\ b \in Int /\ c \in Int
      /\ pg_round_down(b) \in Pages /\ pg_round_down(c) \in Pages
  BY <1>1 DEF InArena
<1>3. /\ i \in Heads(h.arena) /\ i \in Int /\ Page(i) = pg_round_down(b)
      /\ Page(i) < b /\ b < eb /\ eb \in Int
      /\ \E m \in Nat \ {0} : /\ Span(h.arena, i) = i .. i + m - 1
                              /\ Page(i) + PGSIZE * (m - 1) < eb /\ eb <= Page(i) + PGSIZE * m
  BY Extent
<1>4. /\ j \in Heads(h.arena) /\ j \in Int /\ Page(j) = pg_round_down(c)
      /\ Page(j) < c /\ c < ec /\ ec \in Int
      /\ \E m \in Nat \ {0} : /\ Span(h.arena, j) = j .. j + m - 1
                              /\ Page(j) + PGSIZE * (m - 1) < ec /\ ec <= Page(j) + PGSIZE * m
  BY Extent
<1> HIDE DEF i, j, eb, ec
<1>5. CASE i # j
  <2>1. PICK m \in Nat \ {0} : /\ Span(h.arena, i) = i .. i + m - 1
                               /\ Page(i) + PGSIZE * (m - 1) < eb /\ eb <= Page(i) + PGSIZE * m
    BY <1>3
  <2>2. PICK n \in Nat \ {0} : /\ Span(h.arena, j) = j .. j + n - 1
                               /\ Page(j) + PGSIZE * (n - 1) < ec /\ ec <= Page(j) + PGSIZE * n
    BY <1>4
  <2>3. (i .. i + m - 1) \cap (j .. j + n - 1) = {}
    BY <1>1, <1>3, <1>4, <1>5, <2>1, <2>2 DEF SpansApart
  <2>4. ~(i \in j .. j + n - 1) /\ ~(j \in i .. i + m - 1)
    <3>1. i \in i .. i + m - 1 /\ j \in j .. j + n - 1
      BY <1>3, <1>4
    <3> QED BY <2>3, <3>1
  <2>5. i + m <= j \/ j + n <= i
    BY <1>3, <1>4, <2>4
  <2>6. /\ Page(i) \in Int /\ Page(j) \in Int
        /\ Page(j) < eb <=> j < i + m
        /\ Page(i) < ec <=> i < j + n
    <3>1. /\ i \in Int /\ j \in Int /\ m \in Int /\ n \in Int /\ eb \in Int /\ ec \in Int
          /\ ~NoMemory
      BY <1>1, <1>3, <1>4
    <3>2. Page(j) \in Int /\ (Page(j) < eb <=> j < i + m)
      BY ONLY <2>1, <3>1, PageRange
    <3>3. Page(i) \in Int /\ (Page(i) < ec <=> i < j + n)
      BY ONLY <2>2, <3>1, PageRange
    <3> QED BY <3>2, <3>3
  <2>7. eb <= c \/ ec <= b
    BY <1>2, <1>3, <1>4, <2>5, <2>6
  <2> QED BY <2>7 DEF eb, ec
<1>6. CASE i = j
  <2> DEFINE a == pg_round_down(b)
             d == h.arena[a].desc
  <2>1. pg_round_down(c) = a /\ a \in Pages /\ h.arena[a] \in Header
    <3>1. pg_round_down(c) = a
      BY <1>3, <1>4, <1>6
    <3>2. h.arena[a] # NULL
      BY <1>1 DEF InArena
    <3> QED BY <1>1, <1>2, <3>1, <3>2 DEF HeapTypeOK
  <2>2. d # NULL /\ b \in Blocks(a, d) /\ c \in Blocks(a, d)
    BY <1>1, <2>1 DEF InArena
  <2>3. block_size(h, b) = d /\ block_size(h, c) = d
    BY <2>1, <2>2 DEF block_size
  <2>4. d \in Desc
    BY <2>1, <2>2 DEF Header
  <2> HIDE DEF d
  <2>5. PICK k \in 0 .. blocks_per_arena(d) - 1 : b = a + sizeof_arena + k * d
    BY <2>2 DEF Blocks, arena_to_block
  <2>6. PICK m \in 0 .. blocks_per_arena(d) - 1 : c = a + sizeof_arena + m * d
    BY <2>2 DEF Blocks, arena_to_block
  <2>7. /\ d \in Nat \ {0} /\ sizeof_arena \in Nat /\ a \in Int /\ k \in Int /\ m \in Int
        /\ k * d \in Int /\ m * d \in Int
    BY <1>1, <2>1, <2>4, Descriptor, PagesDiffer
  <2> HIDE DEF a
  <2>8. k < m => k * d + d <= m * d
    <3>1. k < m => d * (k + 1) <= d * m
      BY <2>7, TimesMonotonic
    <3>2. d * (k + 1) = k * d + d /\ d * m = m * d
      BY <2>7
    <3> QED BY <3>1, <3>2
  <2>9. m < k => m * d + d <= k * d
    <3>1. m < k => d * (m + 1) <= d * k
      BY <2>7, TimesMonotonic
    <3>2. d * (m + 1) = m * d + d /\ d * k = k * d
      BY <2>7
    <3> QED BY <3>1, <3>2
  <2>10. k # m
    BY <2>5, <2>6
  <2>11. b + d <= c \/ c + d <= b
    BY <2>5, <2>6, <2>7, <2>8, <2>9, <2>10
  <2> QED BY <2>3, <2>11
<1> QED BY <1>5, <1>6

(* The invariant where no size overflows. *)
Keeps(h, gs) == Sound(h, gs) /\ Fits(h, gs)

(* The bytes of a block are in the pool, and in no other block. *)
LEMMA OwnBytes ==
  ASSUME NEW h, NEW gs, Keeps(h, gs), NEW g \in gs
  PROVE  /\ Promise!Bytes(g) \subseteq PoolBytes
         /\ \A f \in gs \ {g} : Promise!Bytes(g) \cap Promise!Bytes(f) = {}
<1>1. Sound(h, gs) /\ Fits(h, gs)
  BY DEF Keeps
<1>2. \A f \in gs : /\ f.addr \in Int /\ f.size \in Int /\ f.addr \in Addresses(gs)
                    /\ f.size <= block_size(h, f.addr)
                    /\ block_size(h, f.addr) \in Int
  <2>1. SUFFICES ASSUME NEW f \in gs
                 PROVE  /\ f.addr \in Int /\ f.size \in Int /\ f.addr \in Addresses(gs)
                        /\ f.size <= block_size(h, f.addr)
                        /\ block_size(h, f.addr) \in Int
    OBVIOUS
  <2>2. f.addr \in Int /\ f.size \in Int /\ f.addr \in Addresses(gs)
    BY <1>1 DEF Sound, Addresses
  <2>3. block_size(h, f.addr) \in Int
    BY <1>1, <2>2, Extent
  <2> QED BY <1>1, <2>2, <2>3 DEF Fits
<1>3. Promise!Bytes(g) \subseteq PoolBytes
  <2> DEFINE e == g.addr + block_size(h, g.addr)
  <2>1. g.addr .. e - 1 \subseteq PoolBytes
    BY <1>1, <1>2, InPool
  <2>2. /\ g.addr \in Int /\ g.size \in Int /\ block_size(h, g.addr) \in Int
        /\ g.size <= block_size(h, g.addr)
    BY <1>2
  <2>3. g.addr .. g.addr + g.size - 1 \subseteq g.addr .. e - 1
    BY ONLY <2>2
  <2>4. Promise!Bytes(g) = g.addr .. g.addr + g.size - 1
    BY DEF Promise!Bytes
  <2> QED BY ONLY <2>1, <2>3, <2>4
<1>4. ASSUME NEW f \in gs \ {g}
      PROVE  Promise!Bytes(g) \cap Promise!Bytes(f) = {}
  <2> DEFINE s == block_size(h, g.addr)
             t == block_size(h, f.addr)
  <2>1. g.addr # f.addr
    BY <1>1, <1>4 DEF Sound
  <2>2. g.addr + s <= f.addr \/ f.addr + t <= g.addr
    BY <1>1, <1>2, <1>4, <2>1, Disjoint
  <2>3. /\ g.addr \in Int /\ f.addr \in Int /\ g.size \in Int /\ f.size \in Int
        /\ s \in Int /\ t \in Int /\ g.size <= s /\ f.size <= t
    BY <1>2, <1>4
  <2> HIDE DEF s, t
  <2>4. (g.addr .. g.addr + g.size - 1) \cap (f.addr .. f.addr + f.size - 1) = {}
    BY ONLY <2>2, <2>3
  <2> QED BY <2>4 DEF Promise!Bytes
<1> QED BY <1>3, <1>4

(* What malloc gives has room for what was asked for, and takes no room    *)
(* from the others.                                                        *)
LEMMA GivesRoom ==
  ASSUME NEW h, NEW gs, Keeps(h, gs), NEW size \in Nat,
         size + sizeof_arena + PGSIZE - 1 < WORD, malloc(h, size).block # NULL
  PROVE  LET new == [addr |-> malloc(h, size).block, size |-> size]
         IN new \notin gs /\ Keeps(malloc(h, size).heap, gs \cup {new})
<1> DEFINE r   == malloc(h, size)
           new == [addr |-> r.block, size |-> size]
<1>1. /\ Sound(h, gs) /\ Fits(h, gs) /\ ~NoMemory
      /\ Consistent(h, Addresses(gs)) /\ Occupied(h.arena, Addresses(gs))
  BY DEF Keeps, Sound
<1>2. Allocated(h, Addresses(gs), r)
  BY <1>1, MallocStep
<1>3. new \notin gs /\ Sound(r.heap, gs \cup {new})
  <2>1. r.block # NULL /\ size \in Int
    OBVIOUS
  <2> HIDE DEF r
  <2> QED BY <1>1, <1>2, <2>1, Gives
<1>4. size <= block_size(r.heap, r.block)
  BY <1>1, RoomFor
<1>5. KeepsSizes(h.arena, r.heap.arena, Addresses(gs))
  BY <1>2 DEF Allocated
<1>6. \A g \in gs : g.size <= block_size(r.heap, g.addr)
  <2>1. SUFFICES ASSUME NEW g \in gs
                 PROVE  g.size <= block_size(r.heap, g.addr)
    OBVIOUS
  <2>2. g.addr \in Addresses(gs)
    BY DEF Addresses
  <2> HIDE DEF r
  <2>3. block_size(r.heap, g.addr) = block_size(h, g.addr)
    BY <1>5, <2>2, SizesKept
  <2> QED BY <1>1, <2>3 DEF Fits
<1>7. new.size <= block_size(r.heap, new.addr)
  BY <1>4
<1> HIDE DEF r, new
<1>8. Fits(r.heap, gs \cup {new})
  BY <1>6, <1>7 DEF Fits
<1> QED BY <1>3, <1>8 DEF Keeps, r, new

(* Nor does free. *)
LEMMA TakesRoom ==
  ASSUME NEW h, NEW gs, Keeps(h, gs), NEW g \in gs
  PROVE  Keeps(free(h, g.addr), gs \ {g})
<1> DEFINE h2 == free(h, g.addr)
<1>1. /\ Sound(h, gs) /\ Fits(h, gs) /\ ~NoMemory /\ g.addr \in Addresses(gs)
      /\ Consistent(h, Addresses(gs)) /\ Occupied(h.arena, Addresses(gs))
  BY DEF Keeps, Sound, Addresses
<1>2. Sound(h2, gs \ {g})
  BY <1>1, Takes
<1>3. KeepsSizes(h.arena, h2.arena, Addresses(gs) \ {g.addr})
  BY <1>1, FreeStep
<1> HIDE DEF h2
<1>4. \A f \in gs \ {g} : f.size <= block_size(h2, f.addr)
  <2>1. SUFFICES ASSUME NEW f \in gs \ {g}
                 PROVE  f.size <= block_size(h2, f.addr)
    OBVIOUS
  <2>2. f.addr \in Addresses(gs) \ {g.addr}
    BY <1>1 DEF Sound, Addresses
  <2>3. block_size(h2, f.addr) = block_size(h, f.addr)
    BY <1>3, <2>2, SizesKept
  <2> QED BY <1>1, <2>3 DEF Fits
<1> QED BY <1>2, <1>4 DEF Keeps, Fits, h2

(* A block is given out of unused bytes. *)
LEMMA GivesUnused ==
  ASSUME NEW h, NEW new, new \notin granted, Keeps(h, granted \cup {new})
  PROVE  Promise!Unused(new)
<1> DEFINE gs == granted \cup {new}
<1>1. new \in gs /\ \A g \in granted : g \in gs \ {new}
  OBVIOUS
<1> HIDE DEF gs
<1>2. Keeps(h, gs)
  BY DEF gs
<1>3. /\ Promise!Bytes(new) \subseteq PoolBytes
      /\ \A f \in gs \ {new} : Promise!Bytes(new) \cap Promise!Bytes(f) = {}
  BY <1>1, <1>2, OwnBytes
<1> QED BY <1>1, <1>3 DEF Promise!Unused, PoolBytes

(* Every call is a step of the promise. *)
LEMMA HeapPromiseStep ==
  ASSUME NoWrap, Keeps(heap, granted), [Next]_vars
  PROVE  Keeps(heap', granted') /\ [Promise!Next]_granted
<1>1. /\ WORD \in Nat \ {0} /\ PGSIZE \in Nat \ {0} /\ sizeof_arena \in Nat
      /\ \A size \in Sizes : size \in Nat /\ size + sizeof_arena + PGSIZE - 1 < WORD
      /\ \A a \in Factors : a \in Nat
  BY PallocAssumption, MallocAssumption DEF NoWrap
<1>2. ASSUME NEW size \in Nat, size + sizeof_arena + PGSIZE - 1 < WORD,
             Returns(malloc(heap, size), size, granted)
      PROVE  Keeps(heap', granted') /\ [Promise!Next]_granted
  <2> DEFINE r   == malloc(heap, size)
             new == [addr |-> r.block, size |-> size]
  <2>1. heap' = r.heap /\ granted' = IF r.block = NULL THEN granted ELSE granted \cup {new}
    BY <1>2 DEF Returns
  <2>2. CASE r.block = NULL
    <3>1. r.heap = heap
      <4>1. /\ ~NoMemory /\ Consistent(heap, Addresses(granted))
            /\ Occupied(heap.arena, Addresses(granted)) /\ size \in Int
        BY DEF Keeps, Sound
      <4>2. Allocated(heap, Addresses(granted), r)
        BY <4>1, MallocStep
      <4> HIDE DEF r
      <4> QED BY <2>2, <4>2 DEF Allocated
    <3> QED BY <2>1, <2>2, <3>1
  <2>3. CASE r.block # NULL
    <3>1. new \notin granted /\ Keeps(r.heap, granted \cup {new})
      BY <1>2, <2>3, GivesRoom
    <3> HIDE DEF r, new
    <3>2. Promise!Unused(new)
      BY <3>1, GivesUnused
    <3>3. Promise!Next
      BY <2>1, <2>3, <3>2 DEF Promise!Next, Promise!Grant
    <3> QED BY <2>1, <2>3, <3>1, <3>3
  <2> QED BY <2>2, <2>3
<1>3. ASSUME NEW g \in granted, heap' = free(heap, g.addr), granted' = granted \ {g}
      PROVE  Keeps(heap', granted') /\ [Promise!Next]_granted
  <2>1. Keeps(heap', granted')
    BY <1>3, TakesRoom
  <2>2. Promise!Next
    BY <1>3 DEF Promise!Next, Promise!Release
  <2> QED BY <2>1, <2>2
<1>4. CASE \E size \in Sizes : Malloc(size)
  BY <1>1, <1>2, <1>4 DEF Malloc
<1>5. CASE \E a, b \in Factors : Calloc(a, b)
  <2>1. PICK a \in Factors, b \in Factors : Calloc(a, b)
    BY <1>5
  <2>2. a * b \in Nat /\ a * b + sizeof_arena + PGSIZE - 1 < WORD
    BY <1>1 DEF NoWrap
  <2> DEFINE size == a * b
  <2>3. size \in Nat /\ size + sizeof_arena + PGSIZE - 1 < WORD
    BY <2>2
  <2>4. Calloc(a, b) <=> IF size % WORD < a \/ size % WORD < b
                         THEN Returns([block |-> NULL, heap |-> heap], 0, granted)
                         ELSE Returns(malloc(heap, size % WORD), size, granted)
    BY DEF Calloc
  <2> HIDE DEF size
  <2>5. size % WORD = size
    <3>1. size \in 0 .. WORD - 1
      BY <1>1, <2>3
    <3> QED BY <1>1, <3>1, Unchanged
  <2>6. CASE Returns([block |-> NULL, heap |-> heap], 0, granted)
    BY <2>6 DEF Returns
  <2>7. CASE Returns(malloc(heap, size % WORD), size, granted)
    <3>1. Returns(malloc(heap, size), size, granted)
      BY <2>5, <2>7
    <3> QED BY <1>2, <2>3, <3>1
  <2> QED BY <2>1, <2>4, <2>6, <2>7
<1>6. CASE \E g \in granted, size \in Sizes : Realloc(g, size)
  <2>1. PICK g \in granted, size \in Sizes : Realloc(g, size)
    BY <1>6
  <2> DEFINE r == malloc(heap, size)
  <2>2. CASE size = 0
    <3>1. heap' = free(heap, g.addr) /\ granted' = granted \ {g}
      BY <2>1, <2>2 DEF Realloc, Returns
    <3> QED BY <1>3, <3>1
  <2>3. CASE size # 0 /\ r.block = NULL
    <3>1. Returns(malloc(heap, size), size, granted)
      BY <2>1, <2>3 DEF Realloc
    <3> QED BY <1>1, <1>2, <3>1
  <2>4. CASE size # 0 /\ r.block # NULL
    <3> DEFINE new == [addr |-> r.block, size |-> size]
    <3>1. heap' = free(r.heap, g.addr) /\ granted' = (granted \ {g}) \cup {new}
      <4>1. Returns([r EXCEPT !.heap = free(@, g.addr)], size, granted \ {g})
        BY <2>1, <2>4 DEF Realloc
      <4>2. r = [block |-> r.block, heap |-> r.heap]
        BY MallocReturns
      <4>3. [r EXCEPT !.heap = free(@, g.addr)] = [block |-> r.block, heap |-> free(r.heap, g.addr)]
        BY <4>2
      <4> HIDE DEF r
      <4> QED BY <2>4, <4>1, <4>3 DEF Returns
    <3>2. new \notin granted /\ Keeps(r.heap, granted \cup {new})
      BY <1>1, <2>4, GivesRoom
    <3> HIDE DEF r, new
    <3>3. (granted \cup {new}) \ {g} = (granted \ {g}) \cup {new} /\ g \in granted \cup {new}
      BY <3>2
    <3>4. Keeps(free(r.heap, g.addr), (granted \cup {new}) \ {g})
      BY <3>2, <3>3, TakesRoom
    <3>5. Keeps(heap', granted')
      BY <3>1, <3>3, <3>4
    <3>6. Promise!Unused(new)
      BY <3>2, GivesUnused
    <3>7. new \in granted' /\ Promise!Resize(g, new)
      BY <3>1, <3>6 DEF Promise!Resize
    <3> QED BY <3>5, <3>7 DEF Promise!Next
  <2> QED BY <2>2, <2>3, <2>4
<1>7. CASE \E g \in granted : Free(g)
  <2>1. PICK g \in granted : Free(g)
    BY <1>7
  <2>2. heap' = free(heap, g.addr) /\ granted' = granted \ {g}
    BY <2>1 DEF Free, Returns
  <2> QED BY <1>3, <2>2
<1>8. CASE UNCHANGED vars
  BY <1>8 DEF vars
<1> QED BY <1>4, <1>5, <1>6, <1>7, <1>8 DEF Next

(* Where no size overflows, a block has room for what was asked for: only  *)
(* the sizes NoWrap leaves out can break BlocksFit.                        *)
THEOREM BlocksKeepRoom ==
  ASSUME NoWrap
  PROVE  Spec => []BlocksFit
<1> DEFINE K == Keeps(heap, granted)
<1>1. Init => K
  BY InitSound DEF HeapInv, Keeps, Fits, Init
<1>2. K /\ [Next]_vars => K'
  BY HeapPromiseStep
<1>3. K => BlocksFit
  BY DEF Keeps, Fits, BlocksFit
<1> HIDE DEF K
<1> QED BY <1>1, <1>2, <1>3, PTL DEF Spec

(* The allocator implements Heap: no byte is given to two clients, none    *)
(* lies outside of the pool, and realloc copies between blocks that do not *)
(* overlap, wherever the kernel is.  The hypothesis leaves out the sizes   *)
(* that overflow in calloc or malloc_big.                                  *)
THEOREM HeapKeepsPromise ==
  ASSUME NoWrap
  PROVE  Spec => KeepsHeap
<1> DEFINE K == Keeps(heap, granted)
<1>1. Init => K /\ Promise!Init
  BY InitSound DEF HeapInv, Keeps, Fits, Init, Promise!Init
<1>2. K /\ [Next]_vars => K'
  BY HeapPromiseStep
<1>3. K /\ [Next]_vars => [Promise!Next]_granted
  BY HeapPromiseStep
<1> HIDE DEF K
<1> QED BY <1>1, <1>2, <1>3, PTL DEF Spec, KeepsHeap, Promise!Spec

---------------------------------------------------------------------------
(* Where the pool is, with the kernel in the chunk or elsewhere.           *)

(* A kernel that begins below the chunk does not reach into it: then       *)
(* palloc_init, which looks where __start is, would not see it.            *)
NotFromBelow == mem.start <= kernel.start \/ kernel.end <= mem.start

KernelInside == mem.start <= kernel.start /\ kernel.start < mem.start + mem.size

(* The chunk is moved and not made shorter. *)
LEMMA ChunkMoved ==
  ASSUME ~NoMemory
  PROVE  AdjustedMem.size = mem.size /\ AdjustedMem.start = mem.start + BelowEnd
<1>1. /\ mem.start \in Nat /\ mem.size \in Nat /\ mem.size < WORD /\ WORD \in Nat \ {0}
      /\ kernel.start \in Nat /\ kernel.end \in Nat
  BY Chunk, PallocAssumption
<1>2. CASE KernelInside
  <2>1. AdjustedMem.start = kernel.end /\ AdjustedMem.size = (kernel.end + mem.size - kernel.end) % WORD
    BY <1>2 DEF AdjustedMem, KernelInside
  <2>2. kernel.end + mem.size - kernel.end = mem.size /\ mem.size \in 0 .. WORD - 1
    BY <1>1
  <2>3. mem.size % WORD = mem.size
    BY <1>1, <2>2, Unchanged
  <2>4. BelowEnd = kernel.end - mem.start
    BY <1>2 DEF BelowEnd, KernelInside
  <2> QED BY <1>1, <2>1, <2>2, <2>3, <2>4
<1>3. CASE ~KernelInside
  BY <1>1, <1>3 DEF AdjustedMem, KernelInside, BelowEnd
<1> QED BY <1>2, <1>3

(* The pages of the pool, from the first to the last one. *)
LEMMA PoolExtent ==
  ASSUME ~NoMemory, NEW i \in Index
  PROVE  /\ Page(i) \in Int /\ PGSIZE \in Nat \ {0}
         /\ mem.start + BelowEnd <= Page(i)
         /\ Page(i) + PGSIZE <= mem.start + BelowEnd + mem.size
<1>1. /\ PGSIZE \in Nat \ {0} /\ page_cnt \in Nat /\ free_pages \in Nat /\ bm_pages \in Nat
      /\ AdjustedMem.start \in Nat /\ AdjustedMem.size \in Nat
      /\ PGSIZE * free_pages <= AdjustedMem.size /\ page_cnt = free_pages - bm_pages
  BY Chunk, PallocAssumption DEF page_cnt
<1>2. i \in Int /\ 0 <= i /\ i + 1 <= page_cnt
  BY <1>1 DEF Index
<1>3. Page(i) = AdjustedMem.start + bm_pages * PGSIZE + PGSIZE * i
  BY DEF Page, base
<1>4. PGSIZE * 0 <= PGSIZE * (bm_pages + i) /\ PGSIZE * (bm_pages + i + 1) <= PGSIZE * free_pages
  BY <1>1, <1>2, TimesMonotonic
<1>5. /\ PGSIZE * 0 = 0 /\ PGSIZE * (bm_pages + i) = bm_pages * PGSIZE + PGSIZE * i
      /\ PGSIZE * (bm_pages + i + 1) = bm_pages * PGSIZE + PGSIZE * i + PGSIZE
      /\ bm_pages * PGSIZE \in Int /\ PGSIZE * i \in Int /\ PGSIZE * free_pages \in Int
  BY <1>1, <1>2
<1>6. /\ Page(i) \in Int /\ AdjustedMem.start <= Page(i)
      /\ Page(i) + PGSIZE <= AdjustedMem.start + AdjustedMem.size
  BY <1>1, <1>3, <1>4, <1>5
<1> QED BY <1>1, <1>6, ChunkMoved

(* In the layout palloc_init is written for, with the kernel in the chunk, *)
(* and in any other but that of a kernel that reaches into the chunk from  *)
(* below: the kernel's pages are never given out, nor any from below the   *)
(* chunk, and none lies further behind the chunk than what is below __end. *)
THEOREM PagesStayNear ==
  ASSUME NotFromBelow
  PROVE  Spec => []PagesNearMemory
<1>1. ASSUME ~NoMemory, NEW i \in Index
      PROVE  /\ Page(i) >= mem.start
             /\ Page(i) + PGSIZE <= mem.start + mem.size + BelowEnd
             /\ Page(i) >= kernel.end \/ Page(i) + PGSIZE <= kernel.start
  <2>1. /\ Page(i) \in Int /\ PGSIZE \in Nat \ {0}
        /\ mem.start + BelowEnd <= Page(i)
        /\ Page(i) + PGSIZE <= mem.start + BelowEnd + mem.size
    BY <1>1, PoolExtent
  <2>2. /\ mem.start \in Nat /\ mem.size \in Nat
        /\ kernel.start \in Nat /\ kernel.end \in Nat /\ kernel.start <= kernel.end
    BY <1>1, Chunk, PallocAssumption
  <2>3. CASE KernelInside
    <3>1. BelowEnd = kernel.end - mem.start /\ mem.start <= kernel.start
      BY <2>3 DEF BelowEnd, KernelInside
    <3> QED BY <2>1, <2>2, <3>1
  <2>4. CASE ~KernelInside
    <3>1. BelowEnd = 0 /\ (kernel.end <= mem.start \/ mem.start + mem.size <= kernel.start)
      BY <2>2, <2>4 DEF BelowEnd, KernelInside, NotFromBelow
    <3> QED BY <2>1, <2>2, <3>1
  <2> QED BY <2>3, <2>4
<1>2. HeapInv => PagesNearMemory
  BY <1>1 DEF HeapInv, Sound, PagesNearMemory, Used, Index
<1> QED BY <1>2, HeapInvariantHolds, PTL

(* In that layout the pool always has a page that is not memory: what      *)
(* Heap_around_kernel shows of one chunk is so for every chunk and kernel. *)
THEOREM PoolOverruns ==
  ASSUME ~NoMemory, KernelInside, kernel.start < kernel.end, page_cnt > 0
  PROVE  Page(page_cnt - 1) + PGSIZE > mem.start + mem.size
<1>1. /\ PGSIZE \in Nat \ {0} /\ page_cnt \in Nat /\ free_pages \in Nat /\ bm_pages \in Nat
      /\ mem.start \in Nat /\ mem.size \in Nat
      /\ kernel.start \in Nat /\ kernel.end \in Nat
      /\ page_cnt = free_pages - bm_pages
  BY Chunk, PallocAssumption DEF page_cnt
<1>2. AdjustedMem.size = mem.size /\ AdjustedMem.start = kernel.end
  BY <1>1, ChunkMoved DEF BelowEnd, KernelInside
<1>3. Page(page_cnt - 1) + PGSIZE = kernel.end + PGSIZE * free_pages
  <2>1. Page(page_cnt - 1) = kernel.end + bm_pages * PGSIZE + PGSIZE * (page_cnt - 1)
    BY <1>2 DEF Page, base
  <2>2. bm_pages * PGSIZE + PGSIZE * (page_cnt - 1) + PGSIZE = PGSIZE * free_pages
    BY <1>1
  <2>3. /\ bm_pages * PGSIZE \in Int /\ PGSIZE * (page_cnt - 1) \in Int
        /\ PGSIZE * free_pages \in Int
    BY <1>1
  <2> QED BY ONLY <1>1, <2>1, <2>2, <2>3
<1>4. mem.size < PGSIZE * free_pages + PGSIZE
  <2> DEFINE z == mem.size
  <2>1. free_pages = z \div PGSIZE /\ z \in Int
    BY <1>1, <1>2 DEF free_pages
  <2> HIDE DEF z
  <2>2. z = PGSIZE * free_pages + (z % PGSIZE) /\ z % PGSIZE \in 0 .. PGSIZE - 1
    BY <1>1, <2>1, Divided
  <2>3. PGSIZE * free_pages \in Int
    BY <1>1
  <2>4. z < PGSIZE * free_pages + PGSIZE
    BY ONLY <1>1, <2>1, <2>2, <2>3
  <2> QED BY <2>4 DEF z
<1>5. mem.start + PGSIZE <= kernel.end
  <2>1. mem.start % PGSIZE = 0 /\ kernel.end % PGSIZE = 0 /\ mem.start < kernel.end
    <3>1. mem.start % PGSIZE = 0
      BY Chunk
    <3> QED BY <1>1, <3>1, PallocAssumption DEF KernelInside
  <2>2. PICK j \in Int, k \in Int : mem.start = PGSIZE * j /\ kernel.end = PGSIZE * k
    <3> DEFINE z == mem.start
               e == kernel.end
    <3>1. z \in Int /\ e \in Int /\ z % PGSIZE = 0 /\ e % PGSIZE = 0
      BY <1>1, <2>1
    <3> HIDE DEF z, e
    <3>2. z \div PGSIZE \in Int /\ z = PGSIZE * (z \div PGSIZE) + (z % PGSIZE)
      BY <1>1, <3>1, Divided
    <3>3. e \div PGSIZE \in Int /\ e = PGSIZE * (e \div PGSIZE) + (e % PGSIZE)
      BY <1>1, <3>1, Divided
    <3>4. z = PGSIZE * (z \div PGSIZE) /\ e = PGSIZE * (e \div PGSIZE)
      BY <1>1, <3>1, <3>2, <3>3
    <3> QED BY <3>2, <3>3, <3>4 DEF z, e
  <2>3. k <= j => PGSIZE * k <= PGSIZE * j
    BY <1>1, <2>2, TimesMonotonic
  <2>4. j + 1 <= k
    BY <1>1, <2>1, <2>2, <2>3
  <2>5. PGSIZE * (j + 1) <= PGSIZE * k /\ PGSIZE * (j + 1) = PGSIZE * j + PGSIZE
    BY <1>1, <2>2, <2>4, TimesMonotonic
  <2> QED BY <1>1, <2>2, <2>5
<1>6. PGSIZE * free_pages \in Int
  BY <1>1
<1> QED BY <1>1, <1>3, <1>4, <1>5, <1>6
============================================================================
