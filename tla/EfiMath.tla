-------------------------------- MODULE EfiMath --------------------------------
(***************************************************************************)
(* gnu-efi's arithmetic on double words: lib/<machine>/math.c, and the     *)
(* compiler's helpers for ARM, which has neither a division nor shifts of  *)
(* two words (lib/arm/*.S).                                                *)
(*                                                                         *)
(* A word has W bits and a double word is <<high, low>>.  The shifts by    *)
(* constants of the source, 16 and 8 of 32 bits, are W / 2 and W / 4.      *)
(***************************************************************************)
EXTENDS Answers, SequencesExt

CONSTANTS
  W,           \* bits of a word
  Operands,    \* double words that are given
  Multipliers, \* words that are given with them
  WordBits,    \* bits of a word in the division of single words
  Dividends    \* the words that are given to it

B == 2 ^ W
Double(v) == <<(v \div B) % B, v % B>>
Value(d) == d[1] * B + d[2]

Lsl(x, n) == (x * 2 ^ n) % B
Lsr(x, n) == x \div 2 ^ n
Carry(b) == IF b THEN 1 ELSE 0
Negated(x) == (2 ^ WordBits - x) % 2 ^ WordBits

-------------------------------------------------------------------------------
(***************************************************************************)
(* Shifts and products.                                                    *)
(***************************************************************************)
\* shld and shl take the count modulo the word; what is a word or more moves on.
LShiftU64(d, Count) ==
  LET n == Count % W
      high == Lsl(d[1], n) + Lsr(d[2], W - n)
  IN  IF Count < W THEN <<high, Lsl(d[2], n)>> ELSE <<Lsl(d[2], n), 0>>

RShiftU64(d, Count) ==
  LET n == Count % W
      low == Lsr(d[2], n) + Lsl(d[1], W - n)
  IN  IF Count < W THEN <<Lsr(d[1], n), low>> ELSE <<0, Lsr(d[1], n)>>

__aeabi_llsl(d, n) ==
  IF n >= W THEN <<Lsl(d[2], n - W), 0>>
  ELSE <<Lsl(d[1], n) + Lsr(d[2], W - n), Lsl(d[2], n)>>

__aeabi_llsr(d, n) ==
  IF n >= W THEN <<0, Lsr(d[1], n - W)>>
  ELSE <<Lsr(d[1], n), Lsr(d[2], n) + Lsl(d[1], W - n)>>

\* The low words' product has two words; of the other products only the low one counts.
MultU64x32(d, m) == LET low == d[2] * m IN <<(low \div B + d[1] * m) % B, low % B>>

__aeabi_lmul(x, y) ==
  LET low == y[2] * x[2] IN <<(low \div B + y[2] * x[1] + y[1] * x[2]) % B, low % B>>

-------------------------------------------------------------------------------
(***************************************************************************)
(* Division of a double word, bit by bit (ia32, and x86_64 elsewhere than  *)
(* with GCC).  The divisor has a bit less than a word: it is asserted.     *)
(***************************************************************************)
DivU64x32(d, Divisor) ==
  LET bit(s, k) ==
        LET shifted == Double(2 * Value(s.dividend))
            Rem == (2 * s.rem + s.dividend[1] \div 2 ^ (W - 1)) % B
        IN  IF Rem >= Divisor THEN [dividend |-> <<shifted[1], shifted[2] + 1>>, rem |-> Rem - Divisor]
            ELSE [dividend |-> shifted, rem |-> Rem]
  IN  FoldLeft(bit, [dividend |-> d, rem |-> 0], [k \in 1 .. 2 * W |-> k])

-------------------------------------------------------------------------------
(***************************************************************************)
(* Division on ARM.                                                        *)
(***************************************************************************)
\* Halving shifts move a word's first bit to the last but one; zero moves the most.
Shift(x) == IF x = 0 THEN W - 1
            ELSE CHOOSE n \in 0 .. W - 2 : 2 ^ (W - 2) <= x * 2 ^ n /\ x * 2 ^ n < 2 ^ (W - 1)

\* Steps that would only shift are taken W / 2 and W / 4 at a time.
Skipped(r4, passes) ==
  LET half == IF passes >= W \div 2 /\ Lsr(r4, W \div 2 - 2) = 0 THEN W \div 2 ELSE 0
      moved == Lsl(r4, half)
  IN  half + (IF passes - half >= W \div 4 /\ Lsr(moved, W - W \div 4 - 2) = 0
              THEN W \div 4 ELSE 0)

\* r4 and r5 moved to the left together.
Moved(r4, r5, n) == [r4 |-> Lsl(r4, n) + Lsr(r5, W - n), r5 |-> Lsl(r5, n)]

\* One step of restoring division by ip: the carry, the last bit of the quotient, is
\* shifted into r5, and the bit that falls out of r5 into r4.
SmallPass(s, ip) ==
  LET r5 == 2 * s.r5 + s.carry
      r4 == 2 * s.r4 + r5 \div B
  IN  [r4 |-> IF r4 >= ip THEN r4 - ip ELSE r4, r5 |-> r5 % B, carry |-> Carry(r4 >= ip)]

_ll_udiv_small(d, divisor) ==
  LET r6 == Shift(divisor)
      ip == Lsl(divisor, r6)
      twice == IF d[1] >= 2 * ip THEN 2 ELSE 0
      once == IF d[1] - twice * ip >= ip THEN 1 ELSE 0
      high == d[1] - (twice + once) * ip
      low_only == high = 0 /\ Lsr(d[2], W - 2) = 0
      from == IF low_only THEN <<d[2], 0>> ELSE <<high, d[2]>>
      passes == IF low_only THEN r6 ELSE r6 + W
      skip == Skipped(from[1], passes)
      m == Moved(from[1], from[2], skip)
      s == FoldLeft(LAMBDA t, k : SmallPass(t, ip), [r4 |-> m.r4, r5 |-> m.r5, carry |-> 0],
                    [k \in 1 .. passes - skip |-> k])
      r0 == 2 * s.r5 + s.carry
  IN  [q |-> <<(2 * (s.r4 % 2 ^ r6) + r0 \div B + Lsl(twice + once, r6)) % B, r0 % B>>,
       r |-> <<0, Lsr(s.r4, r6)>>]

\* The same for a divisor of two words.
BigPass(s, divisor) ==
  LET v == 2 * Value(<<s.r4, s.r5>>) + s.carry
      fits == v >= divisor
      rest == Double(IF fits THEN v - divisor ELSE v)
  IN  [r4 |-> rest[1], r5 |-> rest[2], carry |-> Carry(fits)]

_ll_udiv_big(d, divisor) ==
  LET r6 == Shift(divisor[1])
      ip == Value(divisor) * 2 ^ r6
      r3 == CHOOSE n \in 0 .. 3 : n * ip <= Value(d) /\ (n = 3 \/ Value(d) < (n + 1) * ip)
      high == Double(Value(d) - r3 * ip)
      skip == Skipped(high[1], r6)
      m == Moved(high[1], high[2], skip)
      s == FoldLeft(LAMBDA t, k : BigPass(t, ip), [r4 |-> m.r4, r5 |-> m.r5, carry |-> 0],
                    [k \in 1 .. r6 - skip |-> k])
  IN  [q |-> Double(2 * (s.r5 % 2 ^ r6) + s.carry + r3 * 2 ^ r6),
       r |-> <<Lsr(s.r4, r6), Lsr(s.r5, r6) + Lsl(s.r4, W - r6)>>]

_ll_udiv_ginormous(d, divisor) ==
  IF Value(d) >= Value(divisor) THEN [q |-> <<0, 1>>, r |-> Double(Value(d) - Value(divisor))]
  ELSE [q |-> <<0, 0>>, r |-> d]

\* By the divisor's size; what is divided by zero is zero.
__aeabi_uldivmod(d, divisor) ==
  CASE Value(divisor) = 0 -> [q |-> <<0, 0>>, r |-> <<0, 0>>]
    [] Value(divisor) \in 1 .. 2 ^ (W - 1) - 1 -> _ll_udiv_small(d, divisor[2])
    [] divisor[1] >= 2 ^ (W - 1) -> _ll_udiv_ginormous(d, divisor)
    [] OTHER -> _ll_udiv_big(d, divisor)

Negative(d) == d[1] >= 2 ^ (W - 1)
Opposite(d) == Double(B * B - Value(d))

remainder_sign(d, divisor) == Negative(d)

\* The magnitudes are divided; r4 keeps the two signs.
__aeabi_ldivmod(d, divisor) ==
  LET abs == __aeabi_uldivmod(IF Negative(d) THEN Opposite(d) ELSE d,
                              IF Negative(divisor) THEN Opposite(divisor) ELSE divisor)
  IN  [q |-> IF Negative(d) # Negative(divisor) THEN Opposite(abs.q) ELSE abs.q,
       r |-> IF remainder_sign(d, divisor) THEN Opposite(abs.r) ELSE abs.r]

\* Words: the divisor is moved six bits at a time until eight more bits of quotient
\* are all, and back; the marks in r2 count how often.
Shifts(r0, r1) ==
  CHOOSE n \in 0 .. 4 : /\ n = 4 \/ Lsr(r0, 8) < r1 * 2 ^ (6 * n)
                        /\ \A k \in 0 .. n - 1 : Lsr(r0, 8) >= r1 * 2 ^ (6 * k)

\* Bits of the quotient from number n down, then the last.
Bits(r0, r1, n) ==
  FoldLeft(LAMBDA s, k :
             IF Lsr(s.r, n - k) >= r1 THEN [q |-> 2 * s.q + 1, r |-> s.r - r1 * 2 ^ (n - k)]
             ELSE [q |-> 2 * s.q, r |-> s.r],
           [q |-> 0, r |-> r0], [k \in 1 .. n + 1 |-> k - 1])

\* Division by zero returns at once, with nothing moved to where the results are.
__aeabi_uidivmod(r0, r1) ==
  IF r1 = 0 THEN [q |-> r0, r |-> r1]
  ELSE Bits(r0, r1, IF Lsr(r0, 4) < r1 THEN 3 ELSE 7 + 6 * Shifts(r0, r1))

__aeabi_idivmod(r0, r1) ==
  LET minus(x) == x >= 2 ^ (WordBits - 1)
      abs(x) == IF minus(x) THEN Negated(x) ELSE x
      u == IF ~minus(r0) /\ ~minus(r1) /\ Lsr(r0, 1) < r1 THEN Bits(r0, r1, 0)
           ELSE __aeabi_uidivmod(abs(r0), abs(r1))
  IN  IF r1 = 0 THEN u
      ELSE [q |-> IF minus(r0) # minus(r1) THEN Negated(u.q) ELSE u.q,
            r |-> IF minus(r0) THEN Negated(u.r) ELSE u.r]

-------------------------------------------------------------------------------
compute ==
  \/ \E d \in Operands, n \in 0 .. 2 * W - 1 :
       \/ Answers("left", <<d, n>>, <<LShiftU64(Double(d), n), __aeabi_llsl(Double(d), n)>>)
       \/ Answers("right", <<d, n>>, <<RShiftU64(Double(d), n), __aeabi_llsr(Double(d), n)>>)
  \/ \E x, y \in Operands :
       \/ Answers("product", <<x, y>>, __aeabi_lmul(Double(x), Double(y)))
       \/ Answers("quotient", <<x, y>>, __aeabi_uldivmod(Double(x), Double(y)))
       \/ Answers("signed", <<x, y>>, __aeabi_ldivmod(Double(x), Double(y)))
  \/ \E x \in Operands, y \in Multipliers :
       \/ Answers("product", <<x, y>>, MultU64x32(Double(x), y))
       \/ /\ y \in 1 .. 2 ^ (W - 1) - 1
          /\ LET s == DivU64x32(Double(x), y)
             IN  Answers("quotient", <<x, y>>, [q |-> s.dividend, r |-> <<0, s.rem>>])
  \/ \E x, y \in Dividends :
       \/ Answers("word", <<x, y>>, __aeabi_uidivmod(x, y))
       \/ Answers("signed word", <<x, y>>, __aeabi_idivmod(x, y))

-------------------------------------------------------------------------------
\* A number of so many bits, with its sign.
Signed(v, bits) == IF v >= 2 ^ (bits - 1) THEN v - 2 ^ bits ELSE v

\* Quotient and remainder as C has them: rounded to zero, the remainder of the
\* dividend's sign.
Truncated(x, y, q, r, bits) ==
  LET abs(v) == IF v < 0 THEN -v ELSE v
  IN  /\ (q - (IF (x < 0) = (y < 0) THEN abs(x) \div abs(y) ELSE -(abs(x) \div abs(y))))
           % 2 ^ bits = 0
      /\ r = IF x < 0 THEN -(abs(x) % abs(y)) ELSE abs(x) % abs(y)

\* Shifts, products, quotients and remainders of double words and of words are the
\* mathematical ones, whatever way they are put together from instructions on single
\* words; signed ones are C's.  (A division by zero has no result.)
MathAgrees ==
  LET x == answer.in[1]
      y == answer.in[2]
      out == answer.out
  IN  CASE answer.of = "left" -> \A n \in 1 .. 2 : Value(out[n]) = (x % 2 ^ (2 * W - y)) * 2 ^ y
        [] answer.of = "right" -> \A n \in 1 .. 2 : Value(out[n]) = x \div 2 ^ y
        [] answer.of = "product" -> Value(out) = (x * (y % B) + (x * (y \div B) % B) * B) % (B * B)
        [] answer.of = "quotient" ->
             y # 0 => Value(out.q) = x \div y /\ Value(out.r) = x % y
        [] answer.of = "signed" ->
             y # 0 => Truncated(Signed(x, 2 * W), Signed(y, 2 * W), Signed(Value(out.q), 2 * W),
                                Signed(Value(out.r), 2 * W), 2 * W)
        [] answer.of = "word" -> y # 0 => out.q = x \div y /\ out.r = x % y
        [] answer.of = "signed word" ->
             y # 0 => Truncated(Signed(x, WordBits), Signed(y, WordBits), Signed(out.q, WordBits),
                                Signed(out.r, WordBits), WordBits)
        [] OTHER -> TRUE
===============================================================================
