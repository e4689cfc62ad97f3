--------------------------- MODULE StringsClient ---------------------------
(***************************************************************************)
(* Clients of Strings: one moves or fills a block of memory, one copies a  *)
(* string into a buffer of bounded size or appends it to the string there, *)
(* and one breaks a string into tokens.  The first two make one call.      *)
(***************************************************************************)
EXTENDS Strings

CONSTANTS
  Top,         \* the last address; the byte there is null in every string
  Byte,        \* the characters of strings
  Content,     \* of the memories in which blocks are moved
  Delimiters   \* where the string of the delimiters of tokens is

Addr == 0 .. Top

ASSUME StringsClientAssumption ==
  /\ Top \in Nat
  /\ Byte \subseteq Nat \ {0}
  /\ Content \subseteq [Addr -> Nat]
  /\ Delimiters \in Addr

VARIABLES
  mem,
  before,     \* history: the memory the client began with
  call,       \* the client's last call, its arguments and what it returned
  save_ptr,   \* of the client that calls strtok_r
  tokens      \* where the tokens it has had begin, and the characters it saw

stringVars == <<mem, before, call, save_ptr, tokens>>

(* Memories that end in a null byte, so that every address is a string. *)
Memory == {m \in [Addr -> Byte \cup {0}] : m[Top] = 0}

(* The characters of a string. *)
Text(m, s) == [i \in 1 .. strlen(m, s) |-> m[s + i - 1]]

Start(op) == [op |-> op, first |-> TRUE]

StringsInit ==
  /\ \/ call \in {Start("copy"), Start("tokens")} /\ mem \in Memory
     \/ call = Start("move") /\ mem \in Content
  /\ before = mem
  /\ save_ptr = NULL
  /\ tokens = <<>>

(* memcpy is called for blocks that do not overlap. *)
Move ==
  /\ call = Start("move")
  /\ \E dst, src \in Addr, size \in 0 .. Top + 1 :
       /\ dst + size <= Top + 1 /\ src + size <= Top + 1
       /\ \/ mem' = memmove(mem, dst, src, size).mem
          \/ /\ dst + size <= src \/ src + size <= dst
             /\ mem' = memcpy(mem, dst, src, size).mem
       /\ call' = [op |-> "moved", dst |-> dst, src |-> src, size |-> size]
  /\ UNCHANGED <<before, save_ptr, tokens>>

Fill ==
  /\ call = Start("move")
  /\ \E dst \in Addr, value \in Byte, size \in 0 .. Top + 1 :
       /\ dst + size <= Top + 1
       /\ mem' = memset(mem, dst, value, size).mem
       /\ call' = [op |-> "filled", dst |-> dst, value |-> value, size |-> size]
  /\ UNCHANGED <<before, save_ptr, tokens>>

(* The string lies behind the buffer. *)
Copy ==
  /\ call = Start("copy")
  /\ \E dst, src \in Addr, size \in 0 .. Top + 1, append \in BOOLEAN :
       LET r == IF append THEN strlcat(mem, dst, src, size)
                          ELSE strlcpy(mem, dst, src, size)
       IN /\ dst + size <= src /\ dst + strlen(mem, dst) < src
          /\ mem' = r.mem
          /\ call' = [op |-> "copied", append |-> append, dst |-> dst,
                      src |-> src, size |-> size, ret |-> r.ret]
  /\ UNCHANGED <<before, save_ptr, tokens>>

(* The string at 0 is broken up; it ends before that of the delimiters. *)
Tokenize ==
  LET r == strtok_r(mem, IF call = Start("tokens") THEN 0 ELSE save_ptr, Delimiters)
  IN /\ call.op = "tokens"
     /\ strlen(before, 0) < Delimiters
     /\ mem' = r.mem
     /\ save_ptr' = r.save_ptr
     /\ IF r.ret = NULL
        THEN call' = [op |-> "no_tokens"] /\ UNCHANGED tokens
        ELSE /\ tokens' = Append(tokens, [first |-> r.ret, text |-> Text(r.mem, r.ret)])
             /\ call' = [op |-> "tokens", first |-> FALSE]
     /\ UNCHANGED before

StringsNext ==
  \/ Move
  \/ Fill
  \/ Copy
  \/ Tokenize

StringsSpec == StringsInit /\ [][StringsNext]_stringVars

---------------------------------------------------------------------------
(* Properties. *)

(* memmove, and memcpy for blocks that do not overlap, move every byte as  *)
(* it was before the call, and memset its value; nothing outside of the    *)
(* target changes.                                                         *)
MovesBytes ==
  call.op \in {"moved", "filled"} =>
    \A a \in Addr :
      mem[a] = IF a \notin call.dst .. call.dst + call.size - 1 THEN before[a]
               ELSE IF call.op = "filled" THEN call.value
               ELSE before[call.src + (a - call.dst)]

(* strlcpy and strlcat write nothing outside of the buffer, and return the *)
(* length the whole string would have had.  They leave as much of it in    *)
(* the buffer as fits with a null byte, unless the string there fills the  *)
(* buffer already (see NullAlwaysWritten).                                 *)
BoundedCopies ==
  call.op = "copied" =>
    LET old   == IF call.append THEN Text(before, call.dst) ELSE <<>>
        whole == old \o Text(before, call.src)
    IN /\ call.ret = Len(whole)
       /\ \A a \in Addr \ (call.dst .. call.dst + call.size - 1) : mem[a] = before[a]
       /\ call.size > Len(old) =>
            Text(mem, call.dst) = SubSeq(whole, 1, Min({Len(whole), call.size - 1}))

(* string.c:382-384 says of strlcat, as :352-354 does of strlcpy, that the *)
(* string is limited to size - 1 characters and that a null byte is always *)
(* written, unless size is 0.                                              *)
NullAlwaysWritten ==
  call.op = "copied" /\ call.size > 0 => strlen(mem, call.dst) <= call.size - 1

(* The places of the characters that are not delimiters, in the string to  *)
(* be broken up, and those of a token.                                     *)
Kept == {a \in Chars(before, 0) : before[a] \notin ToSet(Text(before, Delimiters))}

Run(token) == token.first .. token.first + Len(token.text) - 1

(* Over repeated calls strtok_r returns, in order and with its characters  *)
(* as they were, each field of the string once -- a longest run of         *)
(* characters that are not delimiters -- then NULL, and it overwrites      *)
(* nothing but delimiters.                                                 *)
TokensAreFields ==
  call.op \in {"tokens", "no_tokens"} /\ strlen(before, 0) < Delimiters =>
    /\ \A k \in DOMAIN tokens :
         LET first == tokens[k].first
             next  == first + Len(tokens[k].text)
         IN /\ first < next /\ first .. next - 1 \subseteq Kept
            /\ first - 1 \notin Kept /\ next \notin Kept
            /\ \A a \in first .. next - 1 : tokens[k].text[a - first + 1] = before[a]
            /\ \A a \in Kept : a < next => \E j \in 1 .. k : a \in Run(tokens[j])
            /\ \A j \in 1 .. k - 1 : tokens[j].first < first
    /\ call.op = "no_tokens" => \A a \in Kept : \E k \in DOMAIN tokens : a \in Run(tokens[k])
    /\ \A a \in Addr : mem[a] # before[a] => mem[a] = 0 /\ a \in Chars(before, 0) \ Kept

(* The needle is at the place strstr returns and at none before it. *)
NeedleFound(m, s, t) ==
  LET found == strstr(m, s, t)
  IN /\ found # NULL => IsPrefix(Text(m, t), Text(m, found))
     /\ \A a \in Chars(m, s) :
          (found = NULL \/ a < found) => ~IsPrefix(Text(m, t), Text(m, a))

(* strcspn and strpbrk stop at the first character of the set, strspn at   *)
(* the first that is not in it.                                            *)
SpansEnd(m, s, t) ==
  LET chars   == ToSet(Text(m, t))
      stop    == s + strcspn(m, s, t)
      skipped == s + strspn(m, s, t)
  IN /\ strpbrk(m, s, t) = IF m[stop] = 0 THEN NULL ELSE stop
     /\ m[stop] \in chars \cup {0}
     /\ \A a \in s .. stop - 1 : m[a] \notin chars
     /\ m[skipped] \notin chars
     /\ \A a \in s .. skipped - 1 : m[a] \in chars

(* strrchr finds what has no other behind it. *)
LastFound(m, s, c) ==
  LET last == strrchr(m, s, c)
  IN IF last = NULL THEN strchr(m, s, c) = NULL
     ELSE m[last] = c /\ strchr(m, last + 1, c) = NULL

(* strcmp tells strings apart the way memcmp does, in either order. *)
StringsCompared(m, s, t) ==
  LET n == 1 + Min({strlen(m, s), strlen(m, t)})
  IN /\ strcmp(m, s, t) = -strcmp(m, t, s)
     /\ strcmp(m, s, t) = 0 <=> Text(m, s) = Text(m, t)
     /\ strcmp(m, s, t) = memcmp(m, s, t, n)

(* The searches of string.c agree with one another and with what they look *)
(* for, in every memory and for every two strings in it; strchr looks at   *)
(* the null byte too, and strnlen is strlen up to its bound.               *)
SearchesAgree ==
  call = Start("tokens") =>
    \A s, t \in Addr :
      /\ NeedleFound(mem, s, t)
      /\ SpansEnd(mem, s, t)
      /\ \A c \in Byte : LastFound(mem, s, c)
      /\ StringsCompared(mem, s, t)
      /\ \A c \in Byte \cup {0} :
           strchr(mem, s, c) = memchr(mem, s, c, strlen(mem, s) + 1)
      /\ \A n \in 0 .. Top + 1 : strnlen(mem, s, n) = Min({strlen(mem, s), n})
============================================================================
