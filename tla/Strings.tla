------------------------------ MODULE Strings ------------------------------
(***************************************************************************)
(* The functions of lib/string.c, as operators on a memory m: a function   *)
(* from addresses to bytes, the null byte being 0.  A function that writes *)
(* gives the memory it leaves and what it returns.                         *)
(***************************************************************************)
EXTENDS Integers, FiniteSetsExt, SequencesExt

CONSTANT NULL

ASSUME StringsAssumption == NULL \notin Nat

Upward(size) == [i \in 1 .. size |-> i - 1]

Downward(size) == Reverse(Upward(size))

(* One byte after the other, in the given order of their offsets. *)
CopyByte(m, dst, src, i) == [m EXCEPT ![dst + i] = m[src + i]]

CopyBytes(m, dst, src, order) ==
  LET copied[n \in 0 .. Len(order)] ==
        IF n = 0 THEN m ELSE CopyByte(copied[n - 1], dst, src, order[n])
  IN copied[Len(order)]

memcpy(m, dst, src, size) ==
  [mem |-> CopyBytes(m, dst, src, Upward(size)), ret |-> dst]

(* Slip: the blocks are copied from their low ends whichever is higher. *)
memmove_upward(m, dst, src, size) ==
  [mem |-> CopyBytes(m, dst, src, Upward(size)), ret |-> dst + size]

(* The pointer returned is the one the loop has moved. *)
memmove(m, dst, src, size) ==
  IF dst < src
  THEN [mem |-> CopyBytes(m, dst, src, Upward(size)), ret |-> dst + size]
  ELSE [mem |-> CopyBytes(m, dst, src, Downward(size)), ret |-> dst]

memset(m, dst, value, size) ==
  [mem |-> [a \in DOMAIN m |-> IF a \in dst .. dst + size - 1 THEN value ELSE m[a]],
   ret |-> dst]

(* What a loop finds that stops at the first of the places, and what it    *)
(* has otherwise.                                                          *)
FirstOf(places, otherwise) == IF places = {} THEN otherwise ELSE Min(places)

strlen(m, s) == Min({a \in DOMAIN m : a >= s /\ m[a] = 0}) - s

strnlen(m, s, maxlen) ==
  FirstOf({i \in 0 .. maxlen - 1 : s + i \in DOMAIN m /\ m[s + i] = 0}, maxlen)

(* The addresses of the characters of a string, without the null byte. *)
Chars(m, s) == s .. s + strlen(m, s) - 1

(* The sign of the difference of two bytes. *)
Order(a, b) == IF a < b THEN -1 ELSE IF a > b THEN 1 ELSE 0

memcmp(m, a, b, size) ==
  LET i == FirstOf({j \in 0 .. size - 1 : m[a + j] # m[b + j]}, size)
  IN IF i = size THEN 0 ELSE Order(m[a + i], m[b + i])

strcmp(m, a, b) ==
  LET i == Min({j \in 0 .. Min({strlen(m, a), strlen(m, b)}) :
                  m[a + j] = 0 \/ m[a + j] # m[b + j]})
  IN Order(m[a + i], m[b + i])

memchr(m, block, ch, size) ==
  FirstOf({a \in block .. block + size - 1 : m[a] = ch}, NULL)

strchr(m, s, c) ==
  FirstOf({a \in Chars(m, s) \cup {s + strlen(m, s)} : m[a] = c}, NULL)

strcspn(m, s, stop) ==
  FirstOf({a \in Chars(m, s) : strchr(m, stop, m[a]) # NULL}, s + strlen(m, s)) - s

strpbrk(m, s, stop) ==
  FirstOf({a \in Chars(m, s) : strchr(m, stop, m[a]) # NULL}, NULL)

strrchr(m, s, c) ==
  LET found == {a \in Chars(m, s) : m[a] = c}
  IN IF found = {} THEN NULL ELSE Max(found)

strspn(m, s, skip) ==
  FirstOf({a \in Chars(m, s) : strchr(m, skip, m[a]) = NULL}, s + strlen(m, s)) - s

(* Slip: the last place where the needle fits is not tried. *)
strstr_short(m, haystack, needle) ==
  LET len == strlen(m, needle)
  IN FirstOf({a \in haystack .. haystack + strlen(m, haystack) - len - 1 :
                memcmp(m, a, needle, len) = 0}, NULL)

strstr(m, haystack, needle) ==
  LET len == strlen(m, needle)
  IN FirstOf({a \in haystack .. haystack + strlen(m, haystack) - len :
                memcmp(m, a, needle, len) = 0}, NULL)

(* Slip: the next call begins at the delimiter that has become a null byte.*)
strtok_r_at_end(m, s, delimiters) ==
  LET token == s + strspn(m, s, delimiters)
      end   == token + strcspn(m, token, delimiters)
  IN IF m[token] = 0
     THEN [mem |-> m, save_ptr |-> token, ret |-> NULL]
     ELSE [mem |-> [m EXCEPT ![end] = 0], save_ptr |-> end, ret |-> token]

(* strtok_r: s is the string, or save_ptr as the last call left it. *)
strtok_r(m, s, delimiters) ==
  LET token == s + strspn(m, s, delimiters)
      end   == token + strcspn(m, token, delimiters)
  IN IF m[token] = 0
     THEN [mem |-> m, save_ptr |-> token, ret |-> NULL]
     ELSE [mem |-> [m EXCEPT ![end] = 0],
           save_ptr |-> IF m[end] = 0 THEN end ELSE end + 1,
           ret |-> token]

(* Slip: the null byte is put behind the size bytes. *)
strlcpy_all(m, dst, src, size) ==
  LET len == Min({strlen(m, src), size})
  IN [mem |-> IF size = 0 THEN m
              ELSE [memcpy(m, dst, src, len).mem EXCEPT ![dst + len] = 0],
      ret |-> strlen(m, src)]

strlcpy(m, dst, src, size) ==
  LET len == Min({strlen(m, src), size - 1})
  IN [mem |-> IF size = 0 THEN m
              ELSE [memcpy(m, dst, src, len).mem EXCEPT ![dst + len] = 0],
      ret |-> strlen(m, src)]

strlcat(m, dst, src, size) ==
  LET end == dst + strlen(m, dst)
      len == Min({strlen(m, src), dst + size - end - 1})
  IN [mem |-> IF dst + size <= end THEN m
              ELSE [memcpy(m, end, src, len).mem EXCEPT ![end + len] = 0],
      ret |-> strlen(m, src) + strlen(m, dst)]
============================================================================
