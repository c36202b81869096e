------------------------------ MODULE EfiStrings ------------------------------
(***************************************************************************)
(* gnu-efi's functions on strings and numbers (lib/str.c, lib/print.c,     *)
(* lib/runtime/rtstr.c, lib/runtime/efirtlib.c, lib/cmdline.c).  One of    *)
(* them is called with one argument and gives one answer; no state is left *)
(* but the command line's buffer.                                          *)
(*                                                                         *)
(* A character is its code; the NUL at the end of a string is left out.    *)
(***************************************************************************)
EXTENDS Answers, SequencesExt

CONSTANTS
  Subjects, Patterns,  \* strings; patterns, as sequences of tokens
  UintnBits, Numbers,  \* width of an UINTN; values that are converted, as INT64
  Floats,              \* doubles, in sixteenths
  Hours, Decimals,     \* hours of a clock; numbers for BCD
  Copies,              \* [dest, src, len] of copies in a memory of MemorySize bytes
  MemorySize,
  CommandLines,        \* what is in the load options
  MAX_CMDLINE_ARGC

STAR == 42
ANY == 63
OPEN == 91
CLOSE == 93
TO == 45
SPACE == 32
COMMA == 44
ZERO == 48

\* Where a character stands next in a string, or 0.
NextOf(s, from, c) ==
  LET at == {n \in from .. Len(s) : s[n] = c}
  IN  IF at = {} THEN 0 ELSE CHOOSE n \in at : \A m \in at : n <= m

-------------------------------------------------------------------------------
(***************************************************************************)
(* MetaMatch: a pattern of characters, "*", "?" and sets in brackets.      *)
(***************************************************************************)
InRange(c, l, p) == c >= l /\ c <= p

\* The set that begins behind position from of the pattern: where the pattern goes on
\* when c is in it, 0 when it is not.  After a range that does not hold c, its high
\* end is looked at once more as a character.
SetMatch(p, from, c) ==
  LET scan[l \in 0 .. 127, n \in 1 .. Len(p)] ==
        CASE p[n] = CLOSE -> 0
          [] p[n] = TO /\ p[n + 1] = CLOSE -> 0
          [] p[n] = TO /\ p[n + 1] # CLOSE ->
               IF InRange(c, l, p[n + 1]) \/ c = p[n + 1] THEN NextOf(p, n + 1, CLOSE)
               ELSE scan[p[n + 1], n + 1]
          [] OTHER -> IF c = p[n] THEN NextOf(p, n + 1, CLOSE) ELSE scan[p[n], n + 1]
  IN  scan[0, from]

\* Patterns whose last set is not closed are read past their end, and left out.
MetaMatch(s, p) ==
  LET match[i \in 0 .. Len(s), j \in 0 .. Len(p)] ==
        IF j = Len(p) THEN i = Len(s)
        ELSE CASE p[j + 1] = STAR -> \E k \in i .. Len(s) : match[k, j + 1]
               [] p[j + 1] = ANY -> i < Len(s) /\ match[i + 1, j + 1]
               [] p[j + 1] = OPEN ->
                    IF i = Len(s) THEN FALSE
                    ELSE LET on == SetMatch(p, j + 2, s[i + 1])
                         IN  on # 0 /\ match[i + 1, on]
               [] OTHER -> IF i = Len(s) THEN FALSE
                           ELSE s[i + 1] = p[j + 1] /\ match[i + 1, j + 1]
  IN  match[0, 0]

\* A pattern's text: tokens are STAR, ANY, a character, or a set of ranges.
RangeText(range) == IF range[1] = range[2] THEN <<range[1]>> ELSE <<range[1], TO, range[2]>>
TokenText(t) ==
  CASE t.is = "set" -> <<OPEN>> \o FlattenSeq([n \in DOMAIN t.ranges |-> RangeText(t.ranges[n])])
                         \o <<CLOSE>>
    [] OTHER -> <<t.c>>
PatternText(tokens) == FlattenSeq([n \in DOMAIN tokens |-> TokenText(tokens[n])])

match ==
  \E s \in Subjects, tokens \in Patterns :
    Answers("MetaMatch", <<s, tokens>>, MetaMatch(s, PatternText(tokens)))

-------------------------------------------------------------------------------
(***************************************************************************)
(* Numbers and their texts.                                                *)
(***************************************************************************)
Unsigned(v) == v % (2 ^ UintnBits)

\* The digits of a number above zero; for zero there is one.
DigitsOf(v, base) ==
  LET n == IF v = 0 THEN 1 ELSE CHOOSE d \in 1 .. 16 : base ^ (d - 1) <= v /\ v < base ^ d
  IN  [k \in 1 .. n |-> (v \div base ^ (n - k)) % base]

ValueToHex(v) ==
  LET digits == DigitsOf(Unsigned(v), 16)
  IN  [k \in DOMAIN digits |-> digits[k] + (IF digits[k] > 9 THEN 55 ELSE ZERO)]

\* The least value is its own negation, and divided as an unsigned number.
ValueToString(v, Comma) ==
  LET digits == DigitsOf(IF v < 0 THEN Unsigned(-v) ELSE v, 10)
      before(k) == Comma /\ k > 1 /\ (Len(digits) - k + 1) % 3 = 0
  IN  (IF v < 0 THEN <<TO>> ELSE << >>)
        \o FlattenSeq([k \in DOMAIN digits |->
                         IF before(k) THEN <<COMMA, digits[k] + ZERO>> ELSE <<digits[k] + ZERO>>])

\* After the integer part, its sign with it, the fraction's leading zeros, then its
\* digits up to the last.
FloatToString(sixteenths, Comma) ==
  LET magnitude == IF sixteenths < 0 THEN -sixteenths ELSE sixteenths
      i == IF sixteenths < 0 THEN -(magnitude \div 16) ELSE magnitude \div 16
      zeros[f \in 0 .. 159] ==
        IF f # 0 /\ f < 16 THEN <<ZERO>> \o zeros[f * 10] ELSE << >>
      digits[f \in Nat] == IF f % 16 = 0 THEN f \div 16 ELSE digits[f * 10]
      f0 == (magnitude % 16) * 10
  IN  ValueToString(i, Comma) \o <<46>> \o zeros[f0] \o ValueToString(digits[f0], FALSE)

DigitValue(c) == IF c >= 97 THEN c - 87 ELSE IF c >= 65 THEN c - 55 ELSE c - ZERO

\* xtoi and Atoi: blanks are skipped, and reading ends at what is no digit.
Read(text, base) ==
  LET IsDigit(c) == c \in ZERO .. ZERO + 9 \/ (base = 16 /\ c \in (65 .. 70) \union (97 .. 102))
      start == CHOOSE n \in 1 .. Len(text) + 1 :
                 /\ n <= Len(text) => text[n] # SPACE
                 /\ \A m \in 1 .. n - 1 : text[m] = SPACE
      u[n \in start - 1 .. Len(text)] == IF n < start THEN 0
                                         ELSE Unsigned(u[n - 1] * base + DigitValue(text[n]))
      last == CHOOSE n \in start - 1 .. Len(text) :
                /\ n < Len(text) => ~IsDigit(text[n + 1])
                /\ \A m \in start .. n : IsDigit(text[m])
  IN  u[last]
xtoi(text) == Read(text, 16)
Atoi(text) == Read(text, 10)

\* TimeToString prints two digits of this, and a letter.
TwelveHours(Hour) ==
  <<IF Hour = 0 THEN 12 ELSE IF Hour >= 13 THEN Hour - 12 ELSE Hour,
    IF Hour >= 12 THEN "p" ELSE "a">>

RtDecimaltoBCD(v) == ((v % 10) + (v \div 10) * 16) % 256
RtBCDtoDecimal(v) == ((v % 16) + (v \div 16) * 10) % 256

convert ==
  \/ \E v \in Numbers, Comma \in BOOLEAN :
       Answers("ValueToString", <<v, Comma>>, ValueToString(v, Comma))
  \/ \E v \in Numbers : Answers("ValueToHex", v, ValueToHex(v))
  \/ \E f \in Floats, Comma \in BOOLEAN :
       Answers("FloatToString", <<f, Comma>>, FloatToString(f, Comma))
  \/ \E h \in Hours : Answers("TimeToString", h, TwelveHours(h))
  \/ \E d \in Decimals : Answers("RtDecimaltoBCD", d, RtDecimaltoBCD(d))

-------------------------------------------------------------------------------
(***************************************************************************)
(* Copying, and the command line.                                          *)
(***************************************************************************)
\* A mutation: always from the front.
Backward_Never(d, s, len) == FALSE
Backward(d, s, len) == d > s /\ d < s + len

\* RtCopyMem: byte by byte, from the end if the destination begins in the source.
RtCopyMem(memory, d, s, len) ==
  LET order == [k \in 1 .. len |-> IF Backward(d, s, len) THEN len - k ELSE k - 1]
  IN  FoldLeft(LAMBDA m, k : [m EXCEPT ![d + k] = m[s + k]], memory, order)

Memory == [n \in 0 .. MemorySize - 1 |-> n]

copy ==
  \E c \in Copies :
    Answers("RtCopyMem", c, RtCopyMem(Memory, c.dest, c.src, c.len))

\* GetShellArgcArgvFromLoadedImage: every blank ends an argument, an empty one too;
\* what is behind the last one is an argument if it is not empty.
GetShellArgcArgvFromLoadedImage(line) ==
  LET stop[from \in 1 .. Len(line) + 1] ==
        LET blank == NextOf(line, from, SPACE)
        IN  IF blank = 0
            THEN IF from > Len(line) THEN << >> ELSE <<SubSeq(line, from, Len(line))>>
            ELSE <<SubSeq(line, from, blank - 1)>> \o stop[blank + 1]
      all == stop[1]
  IN  SubSeq(all, 1, IF Len(all) < MAX_CMDLINE_ARGC THEN Len(all) ELSE MAX_CMDLINE_ARGC)

split ==
  \E line \in CommandLines :
    Answers("GetShellArgcArgv", line, GetShellArgcArgvFromLoadedImage(line))

StringNext == Unanswered /\ (match \/ convert \/ copy \/ split)
StringSpec == AnswerInit /\ [][StringNext]_answer

-------------------------------------------------------------------------------
\* MetaMatch matches exactly the strings that can be cut into one piece for each
\* token of the pattern: any piece for "*", one character for the others, of the
\* set's ranges for a set.
Takes(t, piece) ==
  CASE t.is = "set" -> /\ Len(piece) = 1
                       /\ \E n \in DOMAIN t.ranges : piece[1] \in t.ranges[n][1] .. t.ranges[n][2]
    [] t.is = "char" -> piece = <<t.c>>
    [] t.is = "any" -> Len(piece) = 1
    [] t.is = "star" -> TRUE

PatternsMatch ==
  answer.of = "MetaMatch" =>
    LET s == answer.in[1]
        tokens == answer.in[2]
    IN  answer.out <=>
          \E cut \in [0 .. Len(tokens) -> 0 .. Len(s)] :
            /\ cut[0] = 0 /\ cut[Len(tokens)] = Len(s)
            /\ \A n \in DOMAIN tokens :
                 cut[n - 1] <= cut[n] /\ Takes(tokens[n], SubSeq(s, cut[n - 1] + 1, cut[n]))

OnlyDigits(text) == SelectSeq(text, LAMBDA c : c \in ZERO .. ZERO + 9)

\* What is converted reads back: a decimal as the number, the least one and its sign
\* included, with a comma before every third digit; a hexadecimal as the number's
\* bits; a double exactly, the sign of what is between -1 and 0 apart; an hour of
\* twelve as one hour of the day; BCD as the number.  A copy leaves in the
\* destination what was in the source, and nothing anywhere else, though they
\* overlap.  The arguments are the command line's, up to as many as there is room for.
StringsAgree ==
  LET in == answer.in
      out == answer.out
  IN  CASE answer.of = "ValueToString" ->
             /\ (out[1] = TO) = (in[1] < 0)
             /\ Atoi(OnlyDigits(out)) = Unsigned(IF in[1] < 0 THEN -in[1] ELSE in[1])
             /\ LET back == Reverse(IF out[1] = TO THEN Tail(out) ELSE out)
                IN  \A n \in DOMAIN back : (back[n] = COMMA) = (in[2] /\ n % 4 = 0)
        [] answer.of = "ValueToHex" -> xtoi(out) = Unsigned(in)
        [] answer.of = "FloatToString" ->
             LET point == NextOf(out, 1, 46)
                 places == Len(out) - point
             IN  /\ 16 * Atoi(OnlyDigits(out)) = 10 ^ places * (IF in[1] < 0 THEN -in[1] ELSE in[1])
                 /\ (out[1] = TO) = (in[1] <= -16)
        [] answer.of = "TimeToString" ->
             \A h \in Hours : TwelveHours(h) = out => h = in
        [] answer.of = "RtDecimaltoBCD" -> in < 100 => RtBCDtoDecimal(out) = in
        [] answer.of = "RtCopyMem" ->
             \A n \in 0 .. MemorySize - 1 :
               out[n] = IF n \in in.dest .. in.dest + in.len - 1
                        THEN Memory[n - in.dest + in.src] ELSE Memory[n]
        [] answer.of = "GetShellArgcArgv" ->
             LET line == FlattenSeq([n \in DOMAIN out |-> out[n] \o <<SPACE>>])
             IN  /\ \A n \in DOMAIN out : \A k \in DOMAIN out[n] : out[n][k] # SPACE
                 /\ IF Len(out) = MAX_CMDLINE_ARGC THEN IsPrefix(line, in \o <<SPACE>>)
                    ELSE line \in {in, in \o <<SPACE>>}
        [] OTHER -> TRUE
===============================================================================
