-------------------------------- MODULE EfiText --------------------------------
(***************************************************************************)
(* gnu-efi's C strings and blocks of memory (lib/str.c, lib/misc.c,        *)
(* lib/runtime/rtstr.c, lib/runtime/efirtlib.c): functions on addresses in *)
(* a memory of characters, most of them under two names, the second for    *)
(* what still runs when the firmware's services have ended.                *)
(***************************************************************************)
EXTENDS EfiStrings

CONSTANTS
  Memories,   \* what is in the memory, from address 0
  Lengths,    \* lengths that are given
  Unused      \* what is in a block nothing has been written to

NUL == 0
Cells(m) == DOMAIN m

\* A memory in which no string runs to the end.
Ends(m, s) == \E n \in Cells(m) : n >= s /\ m[n] = NUL

RtStrLen(m, s) ==
  CHOOSE n \in 0 .. Cardinality(Cells(m)) : m[s + n] = NUL /\ \A k \in 0 .. n - 1 : m[s + k] # NUL
RtStrSize(m, s) == 2 * (RtStrLen(m, s) + 1)
\* The character is looked at before the length, the one behind the last too.
RtStrnLen(m, s, Len_) == IF RtStrLen(m, s) < Len_ THEN RtStrLen(m, s) ELSE Len_

\* Where two strings differ first, or the first one ends.
Parting(m, s1, s2) ==
  CHOOSE n \in 0 .. RtStrLen(m, s1) :
    /\ m[s1 + n] = NUL \/ m[s1 + n] # m[s2 + n]
    /\ \A k \in 0 .. n - 1 : m[s1 + k] # NUL /\ m[s1 + k] = m[s2 + k]
RtStrCmp(m, s1, s2) == LET n == Parting(m, s1, s2) IN m[s1 + n] - m[s2 + n]

StrnCmp(m, s1, s2, len) ==
  LET n == Parting(m, s1, s2) IN IF n < len THEN m[s1 + n] - m[s2 + n] ELSE 0

RtStrCpy(m, d, s) ==
  FoldLeft(LAMBDA t, k : [t EXCEPT ![d + k] = t[s + k]], m, [k \in 1 .. RtStrLen(m, s) + 1 |-> k - 1])
RtStpCpy(m, d, s) == [m |-> RtStrCpy(m, d, s), end |-> d + RtStrLen(m, s)]

RtSetMem(m, d, Size, value) == [n \in Cells(m) |-> IF n \in d .. d + Size - 1 THEN value ELSE m[n]]
RtZeroMem(m, d, Size) == [n \in Cells(m) |-> IF n \in d .. d + Size - 1 THEN 0 ELSE m[n]]

\* What is left of the destination is cleared before the text is copied.
RtStrnCpy(m, d, s, Len_) ==
  LET Size == RtStrnLen(m, s, Len_)
      cleared == IF Size # Len_ THEN RtSetMem(m, d + Size, Len_ - Size, NUL) ELSE m
  IN  RtCopyMem(cleared, d, s, Size)
RtStpnCpy(m, d, s, Len_) ==
  LET Size == RtStrnLen(m, s, Len_)
      cleared == IF Size # Len_ THEN RtSetMem(m, d + Size, Len_ - Size, NUL) ELSE m
  IN  [m |-> RtCopyMem(cleared, d, s, Size), end |-> d + Size]

RtStrCat(m, d, s) == RtStrCpy(m, d + RtStrLen(m, d), s)
RtStrnCat(m, d, s, Len_) ==
  LET DestSize == RtStrLen(m, d)
      Size == RtStrnLen(m, s, Len_)
  IN  [RtCopyMem(m, d + DestSize, s, Size) EXCEPT ![d + DestSize + Size] = NUL]

RtCompareMem(m, d, s, len) ==
  LET differ == {k \in 0 .. len - 1 : m[d + k] # m[s + k]}
  IN  IF differ = {} THEN 0
      ELSE LET k == CHOOSE k \in differ : \A l \in differ : k <= l IN m[d + k] - m[s + k]

\* The differences of the four words, or-ed: here, whether there is any.
RtCompareGuid(m, d, s) == IF \E k \in 0 .. 3 : m[d + k] - m[s + k] # 0 THEN 1 ELSE 0

-------------------------------------------------------------------------------
(***************************************************************************)
(* The names for use while the services last.                              *)
(***************************************************************************)
StrCmp(m, s1, s2) == RtStrCmp(m, s1, s2)
StrCpy(m, d, s) == RtStrCpy(m, d, s)
StrnCpy(m, d, s, Len_) == RtStrnCpy(m, d, s, Len_)
StpCpy(m, d, s) == RtStpCpy(m, d, s)
StpnCpy(m, d, s, Len_) == RtStpnCpy(m, d, s, Len_)
StrCat(m, d, s) == RtStrCat(m, d, s)
StrnCat(m, d, s, Len_) == RtStrnCat(m, d, s, Len_)
StrnLen(m, s, Len_) == RtStrnLen(m, s, Len_)
StrLen(m, s) == RtStrLen(m, s)
StrSize(m, s) == RtStrSize(m, s)
SetMem(m, d, Size, value) == RtSetMem(m, d, Size, value)
ZeroMem(m, d, Size) == RtZeroMem(m, d, Size)
CopyMem(m, d, s, len) == RtCopyMem(m, d, s, len)
CompareMem(m, d, s, len) == RtCompareMem(m, d, s, len)

\* Strings of bytes.
strlena(m, s) == RtStrLen(m, s)
strcmpa(m, s1, s2) == LET n == Parting(m, s1, s2) IN m[s1 + n] - m[s2 + n]
strncmpa(m, s1, s2, len) ==
  LET n == Parting(m, s1, s2) IN IF n < len THEN m[s1 + n] - m[s2 + n] ELSE 0

\* The firmware's collation, if there is one; the stub's is of the characters as they
\* are, and leaves them as they are.
Small(c) == IF c \in 65 .. 90 THEN c + 32 ELSE c
Folded(m) == [n \in Cells(m) |-> Small(m[n])]
LibStubStriCmp(m, s1, s2) == StrCmp(m, s1, s2)
LibStubStrLwrUpr(m, s) == m
StriCmp(stub, m, s1, s2) ==
  IF stub THEN LibStubStriCmp(m, s1, s2) ELSE StrCmp(Folded(m), s1, s2)
Cased(m, s, lower) ==
  [n \in Cells(m) |->
     IF n \notin s .. s + StrLen(m, s) - 1 THEN m[n]
     ELSE IF lower THEN Small(m[n]) ELSE IF Small(m[n]) \in 97 .. 122 THEN Small(m[n]) - 32 ELSE m[n]]
StrLwr(stub, m, s) == IF stub THEN LibStubStrLwrUpr(m, s) ELSE Cased(m, s, TRUE)
StrUpr(stub, m, s) == IF stub THEN LibStubStrLwrUpr(m, s) ELSE Cased(m, s, FALSE)

-------------------------------------------------------------------------------
(***************************************************************************)
(* Blocks of the pool: sequences, or nothing.                              *)
(***************************************************************************)
Block == [is |-> FALSE, of |-> << >>]
AllocatePool(Size, refused) ==
  IF refused THEN Block ELSE [is |-> TRUE, of |-> [k \in 1 .. Size |-> Unused]]
AllocateZeroPool(Size, refused) ==
  LET p == AllocatePool(Size, refused)
  IN  IF p.is THEN [p EXCEPT !.of = [k \in 1 .. Size |-> 0]] ELSE p

\* The old block is given back even when there is no new one.
ReallocatePool(old, NewSize, refused) ==
  LET new == IF NewSize # 0 THEN AllocatePool(NewSize, refused) ELSE Block
      kept == IF Len(old.of) < NewSize THEN Len(old.of) ELSE NewSize
  IN  [freed |-> old.is,
       new |-> IF old.is /\ new.is
               THEN [new EXCEPT !.of = [k \in 1 .. NewSize |-> IF k <= kept THEN old.of[k] ELSE @[k]]]
               ELSE new]

StrDuplicate(m, s, refused) ==
  LET new == AllocatePool(StrSize(m, s) \div 2, refused)
  IN  IF new.is THEN [new EXCEPT !.of = [k \in DOMAIN @ |-> m[s + k - 1]]] ELSE new

-------------------------------------------------------------------------------
\* Copies that stay inside, and do not write over the end they are looking for.
Roomy(m, d, s, len) == s + len < Cardinality(Cells(m)) /\ d + len < Cardinality(Cells(m))
Forward(m, d, s) == Roomy(m, d, s, RtStrLen(m, s)) /\ d \notin s + 1 .. s + RtStrLen(m, s)

use_text ==
  \E m \in Memories : \E d, s \in {n \in Cells(m) : Ends(m, n)} :
    LET in == [m |-> m, d |-> d, s |-> s, len |-> 0, stub |-> FALSE]
    IN  \/ Answers("StrLen", in, <<StrLen(m, s), StrSize(m, s), strlena(m, s)>>)
        \/ Answers("StrCmp", in, <<StrCmp(m, d, s), strcmpa(m, d, s)>>)
        \/ Forward(m, d, s) /\ Answers("StrCpy", in, StpCpy(m, d, s))
        \/ /\ Roomy(m, d + RtStrLen(m, d), s, RtStrLen(m, s)) /\ Forward(m, d + RtStrLen(m, d), s)
           /\ Answers("StrCat", in, StrCat(m, d, s))
        \/ Roomy(m, d, s, 3) /\ Answers("CompareGuid", in, RtCompareGuid(m, d, s))
        \/ \E refused \in BOOLEAN :
             Answers("StrDuplicate", [in EXCEPT !.stub = refused], StrDuplicate(m, s, refused))
        \/ \E stub \in BOOLEAN :
             Answers("StriCmp", [in EXCEPT !.stub = stub],
                     <<StriCmp(stub, m, d, s), StrLwr(stub, m, s), StrUpr(stub, m, s)>>)
        \/ \E len \in Lengths :
             LET of == [in EXCEPT !.len = len]
             IN  \/ Answers("StrnCmp", of, <<StrnCmp(m, d, s, len), strncmpa(m, d, s, len)>>)
                 \/ Answers("StrnLen", of, StrnLen(m, s, len))
                 \/ /\ Roomy(m, d, s, len)
                    /\ \/ Answers("StrnCpy", of, StpnCpy(m, d, s, len))
                       \/ Answers("CompareMem", of, CompareMem(m, d, s, len))
                       \/ Answers("SetMem", of, <<SetMem(m, d, len, 97), ZeroMem(m, s, len)>>)
                 \/ /\ Roomy(m, d + RtStrLen(m, d), s, len)
                    /\ Answers("StrnCat", of, StrnCat(m, d, s, len))

use_pool ==
  \E old \in {Block} \union {[is |-> TRUE, of |-> [k \in 1 .. n |-> k]] : n \in Lengths},
     NewSize \in Lengths, refused \in BOOLEAN :
    \/ Answers("ReallocatePool", [old |-> old, NewSize |-> NewSize, refused |-> refused],
               ReallocatePool(old, NewSize, refused))
    \/ Answers("AllocateZeroPool", [NewSize |-> NewSize, refused |-> refused],
               AllocateZeroPool(NewSize, refused))

-------------------------------------------------------------------------------
\* The string at an address, and at most so much of it.
String(m, s) == [k \in 1 .. RtStrLen(m, s) |-> m[s + k - 1]]
Start(string, len) == SubSeq(string, 1, IF Len(string) < len THEN Len(string) ELSE len)
Bytes(m, from, n) == [k \in 1 .. n |-> m[from + k - 1]]

\* In the order of a dictionary, the end before any character.
Precedes(a, b) ==
  \/ Len(a) < Len(b) /\ IsPrefix(a, b)
  \/ \E k \in 1 .. Len(a) : k <= Len(b) /\ a[k] < b[k] /\ SubSeq(a, 1, k - 1) = SubSeq(b, 1, k - 1)
Orders(result, a, b) == (result < 0) = Precedes(a, b) /\ (result = 0) = (a = b)

\* Only these cells of the memory were written to.
Writes(in, m, from, n) == \A c \in Cells(m) : c \notin from .. from + n - 1 => m[c] = in.m[c]

\* Copying, appending, comparing and measuring strings do what they do to sequences of
\* characters, and write nowhere else: also where the destination begins before the
\* source and reaches into it, and where the length is that of the string, or less, or
\* more; a length that ends a copy leaves no NUL.  Two strings are equal, and one before
\* the other, whichever function is asked.  A block that is enlarged or made smaller
\* keeps its beginning, unless there is no room: then it is gone.  (What a copy of a
\* shorter string clears must not be that string.)
TextAgrees ==
  LET in == answer.in
      out == answer.out
      a == String(in.m, in.d)
      b == String(in.m, in.s)
      size == Len(Start(b, in.len))
  IN  CASE answer.of = "StrLen" -> out = <<Len(b), 2 * Len(b) + 2, Len(b)>>
        [] answer.of = "StrCmp" -> \A n \in 1 .. 2 : Orders(out[n], a, b)
        [] answer.of = "StrCpy" ->
             String(out.m, in.d) = b /\ out.m[out.end] = NUL /\ Writes(in, out.m, in.d, Len(b) + 1)
        [] answer.of = "StrCat" -> String(out, in.d) = a \o b /\ Writes(in, out, in.d + Len(a), Len(b) + 1)
        [] answer.of = "CompareGuid" ->
             (out = 0) = (Bytes(in.m, in.d, 4) = Bytes(in.m, in.s, 4))
        [] answer.of = "StrDuplicate" -> out.is = ~in.stub /\ (out.is => out.of = b \o <<NUL>>)
        [] answer.of = "StriCmp" ->
             IF in.stub THEN Orders(out[1], a, b) /\ out[2] = in.m /\ out[3] = in.m
             ELSE /\ Orders(out[1], [k \in DOMAIN a |-> Small(a[k])], [k \in DOMAIN b |-> Small(b[k])])
                  /\ \A n \in 2 .. 3 : Folded(out[n]) = Folded(in.m) /\ Writes(in, out[n], in.s, Len(b))
        [] answer.of = "StrnCmp" ->
             \A n \in 1 .. 2 : Orders(out[n], Start(a, in.len), Start(b, in.len))
        [] answer.of = "StrnLen" -> out = size
        [] answer.of = "StrnCpy" ->
             LET cleared == in.d + size .. in.d + in.len - 1
             IN  cleared \intersect (in.s .. in.s + size - 1) = {} =>
                   /\ Bytes(out.m, in.d, in.len) = Start(b, in.len) \o [k \in 1 .. in.len - size |-> NUL]
                   /\ out.end = in.d + size /\ Writes(in, out.m, in.d, in.len)
        [] answer.of = "StrnCat" ->
             String(out, in.d) = a \o Start(b, in.len) /\ Writes(in, out, in.d + Len(a), size + 1)
        [] answer.of = "CompareMem" -> (out = 0) = (Bytes(in.m, in.d, in.len) = Bytes(in.m, in.s, in.len))
        [] answer.of = "SetMem" ->
             /\ \A k \in 1 .. in.len : out[1][in.d + k - 1] = 97 /\ out[2][in.s + k - 1] = 0
             /\ Writes(in, out[1], in.d, in.len) /\ Writes(in, out[2], in.s, in.len)
        [] answer.of = "ReallocatePool" ->
             /\ out.freed = in.old.is
             /\ out.new.is = (in.NewSize # 0 /\ ~in.refused)
             /\ out.new.is => \A k \in 1 .. in.NewSize :
                  out.new.of[k] = IF k \in DOMAIN in.old.of THEN in.old.of[k] ELSE Unused
        [] answer.of = "AllocateZeroPool" -> \A k \in DOMAIN out.of : out.of[k] = 0
        [] OTHER -> TRUE
===============================================================================
