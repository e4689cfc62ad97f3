----------------------------- MODULE MCLibrary -----------------------------
(***************************************************************************)
(* Stdio on a small instance, next to the clients of Strings and Bitmap: a *)
(* client that makes one call of printf.  The memory has seven bytes,      *)
(* strings have two characters, integers 3 to 20 bits.                     *)
(***************************************************************************)
EXTENDS Stdio, StringsClient, BitmapClient

(* One memory whose bytes are all different. *)
Distinct == {[a \in 0 .. 6 |-> 6 - a]}

(* In the order of the widths on the target, 8, 16, 32 and 64. *)
Bits == [t \in Type |->
           CASE t = "CHAR" -> 3 [] t = "SHORT" -> 5
             [] t \in {"INTMAX", "LONGLONG"} -> 20 [] OTHER -> 12]

AllFlags == SUBSET {MINUS, PLUS, SPACE, POUND, ZERO, GROUP}

Width == {-6, 0, 6}

Precision == {-1, 0, 11}

(* The least and the greatest values of the types, and numbers at which    *)
(* the count of digits or groups changes.                                  *)
Argument ==
  {-(2^19), 2^20 - 1, 2^19 - 1, 65536, 4095, 2048, 1000, 999, 31, 4, 0, -1, -16,
   -1000, -2048}

VARIABLES
  part,      \* of the library: the one that is called
  printed,   \* the last call of printf
  out        \* what has been printed

printVars == <<printed, out>>
libraryVars == <<part, printVars, stringVars, bitmapVars>>

Nothing == [op |-> "nothing"]

LibraryInit ==
  /\ part \in {"strings", "print", "bits"}
  /\ StringsInit /\ (part # "strings" => call = Start("move"))
  /\ IF part = "bits" THEN BitmapInit
                      ELSE bitmap = bitmap_create_in_buf(0, <<>>) /\ on = {}
  /\ printed = Nothing
  /\ out = <<>>

---------------------------------------------------------------------------
UseStrings ==
  /\ part = "strings"
  /\ StringsNext
  /\ UNCHANGED <<part, printVars, bitmapVars>>

(* The values that an argument of a type can have in a call of printf.     *)
Passed(type, conv) ==
  LET wide == 2^bits[IF type \in {"CHAR", "SHORT"} THEN "INT" ELSE type]
  IN IF type = "PTRDIFFT" \/ (conv = "d" /\ type # "SIZET")
     THEN {n \in Argument : -wide <= 2 * n /\ 2 * n < wide}
     ELSE {n \in Argument : 0 <= n /\ n < wide}

(* printf("%...\n", ...) of an integer: with any flags, width and precision*)
(* for the widest type, and without them for the others.                   *)
PrintNumber ==
  /\ part = "print" /\ printed = Nothing
  /\ \E type \in Type, conv \in {"d", "o", "u", "x", "X"}, star \in BOOLEAN :
     \E flags \in IF type = "INTMAX" THEN AllFlags ELSE {{}},
        width \in IF type = "INTMAX" THEN Width ELSE {0},
        precision \in IF type = "INTMAX" THEN Precision ELSE {-1},
        n \in Passed(type, conv) :
       LET item == [flags |-> flags, width |-> IF star THEN STAR ELSE width,
                    precision |-> IF star THEN STAR ELSE precision,
                    type |-> type, conv |-> conv]
           args == IF star THEN <<width, precision, n>> ELSE <<n>>
       IN /\ ~star => width >= 0
          /\ out' = __vprintf(<<item, [char |-> "\n"]>>, args).out
          /\ printed' = [op |-> "number", item |-> item, width |-> width,
                         precision |-> precision, n |-> n]
  /\ UNCHANGED <<part, stringVars, bitmapVars>>

(* printf of a string, a character or a pointer, or through a conversion   *)
(* that is not supported.                                                  *)
PrintText ==
  /\ part = "print" /\ printed = Nothing
  /\ \E flags \in {{}, {MINUS}}, width \in Width, precision \in Precision :
     \E text \in {<<"s", <<"a", "b", "c">>>>, <<"s", NULL>>, <<"c", "a">>, <<"p", 31>>, <<"f", NULL>>} :
       LET item == [flags |-> flags, width |-> STAR, precision |-> STAR,
                    type |-> "INT", conv |-> text[1]]
           args == <<width, precision, text[2]>>
       IN /\ out' = __vprintf(<<item, [char |-> "\n"]>>, args).out
          /\ printed' = [op |-> "text", item |-> item, width |-> width,
                         precision |-> precision, n |-> text[2]]
  /\ UNCHANGED <<part, stringVars, bitmapVars>>

UseBitmap ==
  /\ part = "bits"
  /\ BitmapNext
  /\ UNCHANGED <<part, stringVars, printVars>>

LibraryNext ==
  \/ UseStrings
  \/ PrintNumber
  \/ PrintText
  \/ UseBitmap

LibrarySpec == LibraryInit /\ [][LibraryNext]_libraryVars

---------------------------------------------------------------------------
(* Properties. *)

Digit(ch) == Min({i \in 1 .. 16 : Lower[i] = ch \/ Upper[i] = ch}) - 1

(* The number that printed text shows. *)
Shown(text, base) ==
  LET digits == SelectSeq(text, LAMBDA ch : ch \in ToSet(Lower) \cup ToSet(Upper))
      value  == FoldLeft(LAMBDA n, ch : n * base + Digit(ch), 0, digits)
  IN IF \E i \in DOMAIN text : text[i] = "-" THEN -value ELSE value

(* What is printed of an integer reads as its value in its own type, down  *)
(* to the least one, whatever the flags, the width and the precision.      *)
NumbersReadBack ==
  printed.op = "number" =>
    LET base  == CASE printed.item.conv = "o" -> 8 [] printed.item.conv \in {"x", "X"} -> 16
                   [] OTHER -> 10
        n     == Shown(out, base)
        range == 2^bits[printed.item.type]
    IN /\ (n - printed.n) % range = 0
       /\ IF printed.item.conv = "d" THEN -range <= 2 * n /\ 2 * n < range
                                  ELSE 0 <= n /\ n < range

(* The same call with a width of 0. *)
Unpadded ==
  LET item == [printed.item EXCEPT !.width = 0, !.precision = printed.precision]
  IN Front(Front(__vprintf(<<item, [char |-> "\n"]>>, <<printed.n>>).out))

(* A field is as wide as was asked for, or as wide as its text if that is  *)
(* wider; the text is to the left of the blanks with '-' or a negative     *)
(* width, else to their right, where a pointer always is.  No precision    *)
(* makes buf overflow or lets a string be longer.  Left out is a '0' flag  *)
(* with a negative width from the arguments: both '0' and '-' stay set and *)
(* the field is filled twice.                                              *)
FieldsFilled ==
  /\ printed.op \in {"number", "text"}
  /\ printed.item.conv \in Conversions
  /\ ~ /\ ZERO \in printed.item.flags /\ MINUS \notin printed.item.flags
       /\ printed.width < 0 /\ printed.precision < 0
  =>
    LET text  == Unpadded
        field == Front(Front(out))
        width == IF printed.width < 0 THEN -printed.width ELSE printed.width
        left  == printed.item.conv # "p" /\ (MINUS \in printed.item.flags \/ printed.width < 0)
        digits == SelectSeq(text, LAMBDA ch : ch \notin {"-", "+", " ", "x", "X"})
    IN /\ Len(field) = Max({width, Len(text)})
       /\ left => IsPrefix(text, field)
       /\ ~left /\ ZERO \notin printed.item.flags => IsSuffix(text, field)
       /\ Len(digits) <= sizeof_buf + Cardinality({"x", "X"} \cap ToSet(text))
       /\ printed.item.conv = "s" /\ printed.precision >= 0 => Len(text) <= printed.precision
============================================================================
