---------------------------- MODULE BitmapClient ----------------------------
(***************************************************************************)
(* A client of Bitmap that keeps a set of numbers in a bitmap: it makes    *)
(* one in memory that holds anything, and sets, clears and searches bits.  *)
(***************************************************************************)
EXTENDS Bitmap

CONSTANT BitCnt   \* the bits of the largest bitmap

ASSUME BitmapClientAssumption == BitCnt \in Nat

VARIABLES
  bitmap,
  on        \* history: the numbers the client has put into the set

bitmapVars == <<bitmap, on>>

BitsOf(start, cnt) == start .. start + cnt - 1

(* The ranges of bits of a bitmap; one of no bits is one of them. *)
BitRange == {r \in (0 .. BitCnt) \X (0 .. BitCnt) : r[1] + r[2] <= bitmap.bit_cnt}

BitmapInit ==
  /\ \E n \in 0 .. BitCnt : \E junk \in Words(n) : bitmap = bitmap_create_in_buf(n, junk)
  /\ on = {}

SetBit ==
  \E i \in 0 .. bitmap.bit_cnt - 1 :
    \/ bitmap' = bitmap_mark(bitmap, i) /\ on' = on \cup {i}
    \/ bitmap' = bitmap_reset(bitmap, i) /\ on' = on \ {i}
    \/ bitmap' = bitmap_flip(bitmap, i)
         /\ on' = IF i \in on THEN on \ {i} ELSE on \cup {i}

SetRange ==
  \E r \in BitRange, value \in BOOLEAN :
    /\ bitmap' = bitmap_set_multiple(bitmap, r[1], r[2], value)
    /\ on' = IF value THEN on \cup BitsOf(r[1], r[2]) ELSE on \ BitsOf(r[1], r[2])

Claim ==
  \E start \in 0 .. bitmap.bit_cnt, cnt \in 0 .. BitCnt + 1, value \in BOOLEAN :
    LET r == bitmap_scan_and_flip(bitmap, start, cnt, value)
    IN /\ bitmap' = r.bitmap
       /\ on' = IF r.idx = BITMAP_ERROR THEN on
                ELSE IF value THEN on \ BitsOf(r.idx, cnt)
                ELSE on \cup BitsOf(r.idx, cnt)

BitmapNext ==
  \/ SetBit
  \/ SetRange
  \/ Claim

BitmapSpec == BitmapInit /\ [][BitmapNext]_bitmapVars

---------------------------------------------------------------------------
(* Properties. *)

(* The places from start on at which cnt bits fit and are all on (off). *)
RunPlaces(start, cnt, value) ==
  {p \in start .. bitmap.bit_cnt - cnt :
     IF value THEN BitsOf(p, cnt) \subseteq on ELSE BitsOf(p, cnt) \cap on = {}}

(* A bitmap is the set of the bits that are on, although they are spread   *)
(* over words and the memory it was made in held anything: tests, counts   *)
(* and searches see that set, and a search finds the first place where the *)
(* bits fit, or none if they fit nowhere.                                  *)
BitmapIsSet ==
  /\ \A i \in 0 .. bitmap.bit_cnt - 1 : bitmap_test(bitmap, i) <=> i \in on
  /\ \A r \in BitRange :
       LET n == Cardinality(on \cap BitsOf(r[1], r[2]))
       IN /\ bitmap_count(bitmap, r[1], r[2], TRUE) = n
          /\ bitmap_count(bitmap, r[1], r[2], FALSE) = r[2] - n
          /\ bitmap_any(bitmap, r[1], r[2]) <=> n > 0
          /\ bitmap_none(bitmap, r[1], r[2]) <=> n = 0
          /\ bitmap_all(bitmap, r[1], r[2]) <=> n = r[2]
  /\ \A start \in 0 .. bitmap.bit_cnt, cnt \in 0 .. BitCnt + 1, value \in BOOLEAN :
       bitmap_scan(bitmap, start, cnt, value)
         = IF RunPlaces(start, cnt, value) = {} THEN BITMAP_ERROR
           ELSE Min(RunPlaces(start, cnt, value))
============================================================================
