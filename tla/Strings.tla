------------------------------- MODULE Strings -------------------------------
(***************************************************************************)
(* The kernel's conversions of numbers (src/kernel/src/c_str.cpp).  Every  *)
(* function has a static buffer, gives its address to the caller and is    *)
(* called again while others still hold it; the buffers lie next to each   *)
(* other, and not every write stays in its own.                            *)
(*                                                                         *)
(* A character is its code.  A double is a number of sixteenths.           *)
(***************************************************************************)
EXTENDS Integers, Sequences, FiniteSets, TLC

CONSTANTS
  Layouts,     \* orders in which the linker may place the buffers
  IntBits,     \* width of the integers of to_string
  Ints, Uints, \* values that are converted
  Doubles, Precisions,
  Words,       \* bytes of the values of to_hstring, the least first
  Garbage,     \* what an unset variable of eight bits may hold
  MaxConversions

VARIABLES
  layout,
  bytes,       \* what has been written, by address; zero elsewhere
  converted,   \* history: what each buffer was last asked to hold
  conversions

string_vars == <<layout, bytes, converted, conversions>>

Functions == {"int", "uint", "double", "hex64", "hex32", "hex16", "hex8"}
Nothing_converted == [value |-> 0, precision |-> 0, defined |-> FALSE]

StringsInit ==
  /\ layout \in Layouts
  /\ bytes = << >>
  /\ converted = [f \in Functions |-> Nothing_converted]
  /\ conversions = 0

\* A mutation: buffers for sixteen digits and no more.
Length_Exact == 17
Length == 128

\* Where a buffer begins.
Base(f) == Length * ((CHOOSE n \in DOMAIN layout : layout[n] = f) - 1)
Owner(address) == {layout[n] : n \in {m \in DOMAIN layout : address \div Length = m - 1}}

Byte(m, address) == IF address \in DOMAIN m THEN m[address] ELSE 0

\* The text at an address: up to the first zero.
TextAt(m, address) ==
  LET end == CHOOSE n \in 0 .. Cardinality(DOMAIN m) :
               /\ Byte(m, address + n) = 0
               /\ \A k \in 0 .. n - 1 : Byte(m, address + k) # 0
  IN  [n \in 1 .. end |-> Byte(m, address + n - 1)]

Written(m, f, text) == [a \in {Base(f) + n : n \in DOMAIN text} |-> text[a - Base(f)]] @@ m

\* What a caller may rely on: the value of the buffer, if it was converted by the
\* book, and nothing where a conversion gone astray has written.
Kept(f, what, old, text) ==
  LET strayed == UNION {Owner(Base(f) + n) : n \in DOMAIN text} \ {f}
  IN  [g \in Functions |->
         IF g = f THEN what
         ELSE IF ~what.defined /\ g \in strayed THEN Nothing_converted ELSE old[g]]

-------------------------------------------------------------------------------
Zero == 48
Minus == 45
Point == 46

\* Decimal places of a number.
Places(v) == CHOOSE d \in 1 .. 10 : v < 10 ^ d /\ (d > 1 => v >= 10 ^ (d - 1))

\* to_string of an integer.  size and is_negative begin as whatever is on the
\* stack.  The least value cannot be negated: its digits are lost but for the
\* remainder, below zero.
Decimal(value, garbage, sign) ==
  LET least == value = -(2 ^ (IntBits - 1))
      magnitude == IF value < 0 THEN -value ELSE value
      is_negative == IF value < 0 THEN 1 ELSE sign
      size == (garbage + Places(magnitude) - 1) % 256
      digits == IF least THEN 0 .. 0 ELSE 0 .. Places(magnitude) - 1
      Digit(i) == IF least THEN ((256 - (magnitude % 10)) + Zero) % 256
                  ELSE ((magnitude \div 10 ^ i) % 10) + Zero
      index == [p \in {is_negative + size - i : i \in digits} |-> is_negative + size - p]
  IN  (is_negative + size + 1 :> 0)
        @@ [p \in DOMAIN index |-> Digit(index[p])]
        @@ (IF value < 0 THEN 0 :> Minus ELSE << >>)

\* Whether the variables that are not set happened to be right.
ByTheBook(value, garbage, sign) ==
  garbage = 0 /\ (value < 0 \/ sign = 0) /\ value # -(2 ^ (IntBits - 1))

Converted(value, precision, defined) ==
  [value |-> value, precision |-> precision, defined |-> defined]

to_string_int(value, garbage, sign) ==
  LET text == Decimal(value, garbage, sign)
  IN  /\ bytes' = Written(bytes, "int", text)
      /\ converted' = Kept("int", Converted(value, 0, ByTheBook(value, garbage, sign)),
                           converted, text)

to_string_uint(value, garbage) ==
  LET text == Decimal(value, garbage, 0)
  IN  /\ bytes' = Written(bytes, "uint", text)
      /\ converted' = Kept("uint", Converted(value, 0, garbage = 0), converted, text)

\* The integer part is converted by the function above, in its buffer, and copied.
Fraction(sixteenths, n) ==
  LET new_value[k \in 0 .. n] ==
        IF k = 0 THEN sixteenths ELSE (new_value[k - 1] * 10) % 16
  IN  [k \in 1 .. n |-> ((new_value[k - 1] * 10) \div 16) + Zero]

to_string_double(sixteenths, precision, garbage, sign) ==
  LET magnitude == IF sixteenths < 0 THEN -sixteenths ELSE sixteenths
      integer == IF sixteenths < 0 THEN -(magnitude \div 16) ELSE magnitude \div 16
      int_text == Decimal(integer, garbage, sign)
      with_int == Written(bytes, "int", int_text)
      places == IF precision > 20 THEN 20 ELSE precision
      all == TextAt(with_int, Base("int")) \o <<Point>> \o Fraction(magnitude % 16, places) \o <<0>>
      text == [n \in 0 .. Len(all) - 1 |-> all[n + 1]]
      right == ByTheBook(integer, garbage, sign)
  IN  /\ bytes' = Written(with_int, "double", text)
      /\ converted' = Kept("double", Converted(sixteenths, places, right),
                           Kept("int", Converted(integer, 0, right), converted, int_text), text)

\* to_hstring of n bytes: there are 2n - 1 rounds and not n, which read on behind the
\* value and write on in front of the buffer.
HexDigit(d) == d + (IF d > 9 THEN 55 ELSE Zero)

to_hstring(word, behind) ==
  LET f == CASE Len(word) = 8 -> "hex64" [] Len(word) = 4 -> "hex32"
             [] Len(word) = 2 -> "hex16" [] Len(word) = 1 -> "hex8"
      size == Len(word) * 2 - 1
      ValueByte(i) == IF i < Len(word) THEN word[i + 1] ELSE behind
      text == [p \in 1 - size .. size + 1 |->
                 IF p = size + 1 THEN 0
                 ELSE LET i == (size - p) \div 2
                      IN  HexDigit(IF (size - p) % 2 = 1 THEN ValueByte(i) \div 16
                                   ELSE ValueByte(i) % 16)]
  IN  /\ bytes' = Written(bytes, f, text)
      /\ converted' = Kept(f, Converted(word, 0, TRUE), converted, text)

StringsNext ==
  /\ conversions < MaxConversions /\ conversions' = conversions + 1
  /\ UNCHANGED layout
  /\ \/ \E value \in Ints, garbage \in Garbage, sign \in {0, 1} :
          to_string_int(value, garbage, sign)
     \/ \E value \in Uints, garbage \in Garbage : to_string_uint(value, garbage)
     \/ \E sixteenths \in Doubles, precision \in Precisions, garbage \in Garbage,
           sign \in {0, 1} : to_string_double(sixteenths, precision, garbage, sign)
     \/ \E word \in Words, behind \in Garbage : to_hstring(word, behind)

StringsSpec == StringsInit /\ [][StringsNext]_string_vars

-------------------------------------------------------------------------------
\* Reading a text back.
DigitOf(c) == IF c >= 65 THEN c - 55 ELSE c - Zero
NumberIn(text, base) ==
  LET upto[n \in 0 .. Len(text)] ==
        IF n = 0 THEN 0 ELSE base * upto[n - 1] + DigitOf(text[n])
  IN  upto[Len(text)]

ReadsAsInteger(text, value) ==
  LET digits == IF text # << >> /\ text[1] = Minus THEN Tail(text) ELSE text
  IN  /\ digits # << >> /\ \A n \in DOMAIN digits : digits[n] \in Zero .. Zero + 9
      /\ Len(digits) > 1 => digits[1] # Zero
      /\ value = (IF digits = text THEN 1 ELSE -1) * NumberIn(digits, 10)

\* Four decimals say all there is of a sixteenth.
ReadsAsDouble(text, sixteenths, precision) ==
  LET magnitude == IF sixteenths < 0 THEN -sixteenths ELSE sixteenths
      unsigned == IF text[1] = Minus THEN Tail(text) ELSE text
      whole == Len(unsigned) - precision - 1
      places == IF precision < 4 THEN precision ELSE 4
      number == NumberIn(SubSeq(unsigned, 1, whole)
                           \o SubSeq(unsigned, whole + 2, whole + 1 + places), 10)
  IN  /\ unsigned[whole + 1] = Point
      /\ number * 16 <= magnitude * 10 ^ places
      /\ magnitude * 10 ^ places < (number + 1) * 16
      /\ \A n \in whole + 2 + places .. Len(unsigned) : unsigned[n] = Zero
      /\ (unsigned # text) = (sixteenths <= -16)

ReadsAsWord(text, word) ==
  /\ Len(text) = 2 * Len(word)
  /\ \A n \in DOMAIN word :
       word[n] = NumberIn(SubSeq(text, Len(text) - 2 * n + 1, Len(text) - 2 * n + 2), 16)

\* A text reads back as the number it was made from, the sign of what is between -1
\* and 0 apart, and goes on doing so until its function is called again, whatever
\* the others write and wherever the linker placed their buffers: the rounds
\* to_hstring makes too many land where no text reaches.  Not so, for to_string,
\* unless the size it does not set happens to be zero, nor for the least integer.
NumbersReadBack ==
  \A f \in Functions :
    converted[f].defined =>
      LET text == TextAt(bytes, Base(f))
      IN  CASE f \in {"int", "uint"} -> ReadsAsInteger(text, converted[f].value)
            [] f = "double" -> ReadsAsDouble(text, converted[f].value, converted[f].precision)
            [] OTHER -> ReadsAsWord(text, converted[f].value)
===============================================================================
