------------------------------- MODULE Stdio -------------------------------
(***************************************************************************)
(* The formatted output of lib/stdio.c.                                    *)
(*                                                                         *)
(* A character is a string of length one; text in memory and what printf   *)
(* has sent to the console are sequences of them.  A format is a sequence  *)
(* of items, each a character to copy or a conversion; a conversion is     *)
(* what its text says: the flags, the width and the precision, STAR for    *)
(* one taken from the arguments and -1 for none, the type the length       *)
(* modifier stands for and the conversion character.                       *)
(***************************************************************************)
EXTENDS Strings

CONSTANTS
  bits,        \* the width of each type of integer
  sizeof_buf,  \* of buf in format_integer: 64
  STAR

Type == {"CHAR", "SHORT", "INT", "INTMAX", "LONG", "LONGLONG", "PTRDIFFT", "SIZET"}

ASSUME StdioAssumption ==
  /\ bits \in [Type -> Nat \ {0}]
  /\ \A t \in Type : bits[t] <= bits["INTMAX"]
  /\ sizeof_buf \in Nat \ {0}
  /\ STAR \notin Int

MINUS == "-"
PLUS == "+"
SPACE == " "
POUND == "#"
ZERO == "0"
GROUP == "'"

Lower == <<"0", "1", "2", "3", "4", "5", "6", "7", "8", "9", "a", "b", "c", "d", "e", "f">>
Upper == <<"0", "1", "2", "3", "4", "5", "6", "7", "8", "9", "A", "B", "C", "D", "E", "F">>

base_d == [base |-> 10, digits |-> Lower, x |-> <<>>, group |-> 3]
base_o == [base |-> 8, digits |-> Lower, x |-> <<>>, group |-> 3]
base_x == [base |-> 16, digits |-> Lower, x |-> <<"0", "x">>, group |-> 4]
base_X == [base |-> 16, digits |-> Upper, x |-> <<"0", "X">>, group |-> 4]

output_dup(ch, cnt) == [i \in 1 .. cnt |-> ch]

(* The text if the condition holds. *)
When(condition, text) == IF condition THEN text ELSE <<>>

---------------------------------------------------------------------------
(* Conversions. *)

(* A number of the format and the arguments after it. *)
Take(number, args) ==
  IF number = STAR THEN [number |-> Head(args), args |-> Tail(args)]
                   ELSE [number |-> number, args |-> args]

(* The '-' of a negative width is set after '0' has been cleared for '-'.  *)
parse_conversion(f, args) ==
  LET width     == Take(f.width, args)
      precision == Take(f.precision, width.args)
      cleared   == {g \in {ZERO, SPACE} :
                      \/ g = ZERO /\ (MINUS \in f.flags \/ precision.number >= 0)
                      \/ g = SPACE /\ PLUS \in f.flags}
  IN [flags     |-> (f.flags \ cleared) \cup (IF width.number < 0 THEN {MINUS} ELSE {}),
      width     |-> IF width.number < 0 THEN -width.number ELSE width.number,
      precision |-> Max({precision.number, -1}),
      type      |-> f.type,
      args      |-> precision.args]

SignOf(is_signed, negative, flags) ==
  CASE is_signed /\ negative       -> <<"-">>
    [] is_signed /\ ~negative /\ PLUS \in flags  -> <<"+">>
    [] is_signed /\ ~negative /\ PLUS \notin flags /\ SPACE \in flags -> <<" ">>
    [] OTHER -> <<>>

(* The digits of a value, the last one first. *)
RECURSIVE Accumulate(_, _, _, _)
Accumulate(value, digit_cnt, b, grouped) ==
  IF value = 0 THEN <<>>
  ELSE When(grouped /\ digit_cnt > 0 /\ digit_cnt % b.group = 0, <<",">>)
       \o <<b.digits[(value % b.base) + 1]>>
       \o Accumulate(value \div b.base, digit_cnt + 1, b, grouped)

(* What buf holds when the digits and the zeros of the precision are in it.*)
Rendered(value, b, c) ==
  LET digits    == Accumulate(value, 0, b, GROUP \in c.flags)
      precision == IF c.precision < 0 THEN 1 ELSE c.precision
      zeros     == digits \o output_dup("0", Min({precision, sizeof_buf - 1}) - Len(digits))
  IN zeros \o When(/\ POUND \in c.flags /\ b.base = 8
                   /\ zeros = <<>> \/ Last(zeros) # "0", <<"0">>)

(* Slip: sign and 0x are not counted as part of the field. *)
format_integer_pads(value, is_signed, negative, b, c) ==
  LET sign == SignOf(is_signed, negative, c.flags)
      x    == When(POUND \in c.flags /\ value # 0, b.x)
      buf  == Rendered(value, b, c)
      pad_cnt == c.width - Len(buf)
  IN When(c.flags \cap {MINUS, ZERO} = {}, output_dup(" ", pad_cnt))
     \o sign \o x
     \o When(ZERO \in c.flags, output_dup("0", pad_cnt))
     \o Reverse(buf)
     \o When(MINUS \in c.flags, output_dup(" ", pad_cnt))

format_integer(value, is_signed, negative, b, c) ==
  LET sign == SignOf(is_signed, negative, c.flags)
      x    == When(POUND \in c.flags /\ value # 0, b.x)
      buf  == Rendered(value, b, c)
      pad_cnt == c.width - Len(buf) - Len(x) - Len(sign)
  IN When(c.flags \cap {MINUS, ZERO} = {}, output_dup(" ", pad_cnt))
     \o sign \o x
     \o When(ZERO \in c.flags, output_dup("0", pad_cnt))
     \o Reverse(buf)
     \o When(MINUS \in c.flags, output_dup(" ", pad_cnt))

format_string(string, c) ==
  LET pad == output_dup(" ", c.width - Len(string))
  IN IF MINUS \in c.flags THEN string \o pad ELSE pad \o string

(* The value of an argument as an unsigned and as a signed integer. *)
Unsigned(arg, type) == arg % 2^bits[type]

(* Slip: every type is taken for an int. *)
Signed_as_int(arg, type) ==
  LET value == Unsigned(arg, "INT")
  IN IF 2 * value >= 2^bits["INT"] THEN value - 2^bits["INT"] ELSE value

Signed(arg, type) ==
  LET value == Unsigned(arg, type)
  IN IF 2 * value >= 2^bits[type] THEN value - 2^bits[type] ELSE value

(* value < 0 ? -value : value, with the least intmax_t negated to itself. *)
Magnitude(value) == Unsigned(IF value < 0 THEN -value ELSE value, "INTMAX")

(* The text of argument arg; conversions that are not supported, and       *)
(* characters that are none, take no argument and print a message.         *)
Converted(conv, c, arg) ==
  CASE conv \in {"d", "i"} ->
         LET value == Signed(arg, c.type)
         IN format_integer(Magnitude(value), TRUE, value < 0, base_d, c)
    [] conv = "o" -> format_integer(Unsigned(arg, c.type), FALSE, FALSE, base_o, c)
    [] conv = "u" -> format_integer(Unsigned(arg, c.type), FALSE, FALSE, base_d, c)
    [] conv = "x" -> format_integer(Unsigned(arg, c.type), FALSE, FALSE, base_x, c)
    [] conv = "X" -> format_integer(Unsigned(arg, c.type), FALSE, FALSE, base_X, c)
    [] conv = "p" -> format_integer(Unsigned(arg, "SIZET"), FALSE, FALSE, base_x,
                                    [c EXCEPT !.flags = {POUND}])
    [] conv = "c" -> format_string(<<arg>>, c)
    [] conv = "s" ->
         LET s == IF arg = NULL THEN <<"(", "n", "u", "l", "l", ")">> ELSE arg
         IN format_string(IF c.precision < 0 THEN s
                          ELSE SubSeq(s, 1, Min({Len(s), c.precision})), c)

Conversions == {"d", "i", "o", "u", "x", "X", "p", "c", "s"}

(* One turn of the loop: r is what has been output and the arguments left. *)
Turn(r, item) ==
  IF "char" \in DOMAIN item
  THEN [r EXCEPT !.out = @ \o When(item.char = "\n", <<"\r">>) \o <<item.char>>]
  ELSE LET c == parse_conversion(item, r.args)
       IN IF item.conv \in Conversions
          THEN [out  |-> r.out \o Converted(item.conv, c, Head(c.args)),
                args |-> Tail(c.args)]
          ELSE [out |-> r.out \o <<"%", item.conv, " not supported">>, args |-> c.args]

__vprintf(format, args) == FoldLeft(Turn, [out |-> <<>>, args |-> args], format)
============================================================================
