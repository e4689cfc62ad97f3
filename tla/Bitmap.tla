------------------------------- MODULE Bitmap -------------------------------
(***************************************************************************)
(* The bitmaps of lib/bitmap.c, in whatever memory holds their words.      *)
(*                                                                         *)
(* A bitmap is a record of bit_cnt and bits, an array of words.  A word is *)
(* the set of the positions of its bits that are on: |= mask adds to it    *)
(* and &= ~mask removes from it.                                           *)
(***************************************************************************)
EXTENDS Integers, FiniteSetsExt

CONSTANTS
  ELEM_BITS,     \* bits in a word: 32 on the target
  BITMAP_ERROR   \* SIZE_MAX, the index of no bit

ASSUME BitmapAssumption ==
  /\ ELEM_BITS \in Nat \ {0}
  /\ BITMAP_ERROR \notin Nat

DIV_ROUND_UP(x, step) == (x + step - 1) \div step

elem_idx(i) == i \div ELEM_BITS

bit_mask(i) == {i % ELEM_BITS}

elem_cnt(n) == DIV_ROUND_UP(n, ELEM_BITS)

Words(n) == [0 .. elem_cnt(n) - 1 -> SUBSET (0 .. ELEM_BITS - 1)]

bitmap_test(b, i) == b.bits[elem_idx(i)] \cap bit_mask(i) # {}

bitmap_mark(b, i) == [b EXCEPT !.bits[elem_idx(i)] = @ \cup bit_mask(i)]

bitmap_reset(b, i) == [b EXCEPT !.bits[elem_idx(i)] = @ \ bit_mask(i)]

(* word ^= mask: the bits that are on in one of the two. *)
bitmap_flip(b, i) ==
  [b EXCEPT !.bits[elem_idx(i)] = (@ \ bit_mask(i)) \cup (bit_mask(i) \ @)]

(* The bits of word e among the cnt bits from start. *)
MaskOf(e, start, cnt) ==
  UNION {bit_mask(i) : i \in {j \in start .. start + cnt - 1 : elem_idx(j) = e}}

(* Slip: a range that ends in another word is cut off at its first word. *)
bitmap_set_first_word(b, start, cnt, on) ==
  [b EXCEPT !.bits = [e \in DOMAIN @ |->
     IF e # elem_idx(start) THEN @[e]
     ELSE IF on THEN @[e] \cup MaskOf(e, start, cnt) ELSE @[e] \ MaskOf(e, start, cnt)]]

(* One bitmap_set, so one |= or &=, for each bit of the range. *)
bitmap_set_multiple(b, start, cnt, on) ==
  [b EXCEPT !.bits = [e \in DOMAIN @ |->
     IF on THEN @[e] \cup MaskOf(e, start, cnt) ELSE @[e] \ MaskOf(e, start, cnt)]]

bitmap_set_all(b, on) == bitmap_set_multiple(b, 0, b.bit_cnt, on)

(* The words start as the memory of the buffer happens to be. *)
bitmap_create_in_buf(n, junk) ==
  bitmap_set_all([bit_cnt |-> n, bits |-> junk], FALSE)

bitmap_count(b, start, cnt, on) ==
  Cardinality({i \in start .. start + cnt - 1 : bitmap_test(b, i) = on})

bitmap_contains(b, start, cnt, on) ==
  \E i \in start .. start + cnt - 1 : bitmap_test(b, i) = on

bitmap_any(b, start, cnt) == bitmap_contains(b, start, cnt, TRUE)

bitmap_none(b, start, cnt) == ~bitmap_contains(b, start, cnt, TRUE)

bitmap_all(b, start, cnt) == ~bitmap_contains(b, start, cnt, FALSE)

(* Slip: the last place where cnt bits fit is not tried. *)
bitmap_scan_short(b, start, cnt, on) ==
  LET found == {i \in start .. b.bit_cnt - cnt - 1 : ~bitmap_contains(b, i, cnt, ~on)}
  IN IF found = {} THEN BITMAP_ERROR ELSE Min(found)

(* The first of the places from start on where cnt bits are all on (off). *)
bitmap_scan(b, start, cnt, on) ==
  LET found == {i \in start .. b.bit_cnt - cnt : ~bitmap_contains(b, i, cnt, ~on)}
  IN IF found = {} THEN BITMAP_ERROR ELSE Min(found)

bitmap_scan_and_flip(b, start, cnt, on) ==
  LET i == bitmap_scan(b, start, cnt, on)
  IN [idx    |-> i,
      bitmap |-> IF i = BITMAP_ERROR THEN b ELSE bitmap_set_multiple(b, i, cnt, ~on)]
============================================================================
