------------------------------- MODULE EfiPrint -------------------------------
(***************************************************************************)
(* gnu-efi's formatted printing (lib/print.c): _Print walks over the       *)
(* format and puts characters into a small buffer, which PFLUSH hands to   *)
(* the console, to a string of fixed size (_SPrint) or to one in pool      *)
(* memory that grows (_PoolPrint).                                         *)
(*                                                                         *)
(* An argument is the text its conversion gives, or the number for "*":    *)
(* the conversions themselves are in EfiStrings.  A newline is "\n", and   *)
(* the arguments that a format needs are there.                            *)
(***************************************************************************)
EXTENDS Integers, Sequences, SequencesExt

CONSTANTS
  Prints,             \* formats with their arguments
  Sinks,              \* where they print to
  PRINT_STRING_LEN,
  MaxLength,          \* the largest UINTN
  MaxGrowRefusals     \* bound: reallocations that are refused

IsSequence(s) == s \in Seq({s[n] : n \in DOMAIN s})

\* Sizes are UINTNs; CatPrint's string is one that PoolPrint made.
ASSUME PrintAssumption ==
  /\ MaxLength \in Nat /\ PRINT_STRING_LEN \in Nat /\ MaxGrowRefusals \in Nat
  /\ \A s \in Sinks : s.StrSize \in 0 .. MaxLength /\ IsSequence(s.str) /\ s.maxlen \in Nat
  /\ \A p \in Prints : IsSequence(p.fmt)

VARIABLES
  print,              \* [fmt, args]
  sink,               \* [to, StrSize, str, maxlen, attr, mask]; to is "console", "debug",
                      \* "string", "ascii" or "pool"
  fi,                 \* fmt.Index: characters of the format read
  args,               \* arguments not taken yet
  inside,             \* a format item is being read
  Item,               \* the PRINT_ITEM
  todo,               \* characters still to be put, before the format goes on
  Chars,              \* the buffer, up to Pos
  now, RestoreAttr,   \* ps->Attr; the attribute to go back to, 0 for none
  setting,            \* an attribute about to be set, once the buffer is flushed
  str, maxlen, ended, \* the string, its limit, whether a NUL follows it
  shown, shown_attr,  \* the console: characters with their attributes; its attribute
  text,               \* history: the characters put, with the attribute in force
  sank,               \* history: text that was lost with a reallocation
  done,               \* "no"; "copy": only AsciiVSPrint's copy is left; "yes";
                      \* "overrun": the format is read past its end
  grow_refusals

print_vars == <<print, sink, fi, args, inside, Item, todo, Chars, now,
                RestoreAttr, setting, str, maxlen, ended, shown, shown_attr, text, sank,
                done, grow_refusals>>

\* EFI_TEXT_ATTR of light gray, white and yellow, on the background there is.
Normal(a) == 7 + 16 * ((a \div 16) % 16)
Highlight(a) == 15 + 16 * ((a \div 16) % 16)
Yellow(a) == 14 + 16 * ((a \div 16) % 16)

NewItem == [FieldWidth |-> -1, Width |-> 0, parse |-> "Width", Pad |-> " ",
            PadBefore |-> TRUE, Long |-> FALSE]

\* StrSize / sizeof(CHAR16) - 1, in an UINTN.
Limit(StrSize) == (StrSize \div 2 + MaxLength) % (MaxLength + 1)

Strings == {"string", "ascii"}

\* UnicodeSPrint, UnicodeVSPrint, and AsciiVSPrint by way of the latter.
StringSink == sink.to \in Strings /\ str = << >> /\ maxlen = Limit(sink.StrSize)

\* VPoolPrint and PoolPrint begin a string; CatPrint goes on with an earlier one.
PoolSink == sink.to = "pool" /\ str = sink.str /\ maxlen = sink.maxlen

\* Print, VPrint, PrintAt and the IPrints: straight to a console, as DbgPrint.
Consoles == {"console", "debug"}
ConsoleSink == sink.to \in Consoles /\ str = << >> /\ maxlen = 0

\* DbgPrint begins in an attribute by what is said, and sets it.
DbgPrint ==
  CASE sink.mask = "error" -> Yellow(sink.attr)
    [] sink.mask = "warn" -> Highlight(sink.attr)
    [] OTHER -> Normal(sink.attr)
FirstAttr == IF sink.to = "debug" THEN DbgPrint ELSE sink.attr

PrintInit ==
  /\ print \in Prints /\ sink \in Sinks
  /\ fi = 0 /\ args = print.args /\ inside = FALSE /\ Item = NewItem
  /\ todo = << >> /\ Chars = << >>
  /\ now = FirstAttr /\ RestoreAttr = 0 /\ setting = << >>
  /\ StringSink \/ PoolSink \/ ConsoleSink
  /\ ended = (sink.str # << >>)
  /\ shown = << >> /\ shown_attr = FirstAttr
  /\ text = << >> /\ sank = 0 /\ done = "no" /\ grow_refusals = 0

-------------------------------------------------------------------------------
(***************************************************************************)
(* Output.                                                                 *)
(***************************************************************************)
Format == <<print, sink, fi, args, inside, Item, todo, now, RestoreAttr,
            text, done>>

\* The console writes in its own attribute.
Shown == shown \o [n \in DOMAIN Chars |-> <<Chars[n], shown_attr>>]

\* _SPrint: what fits is appended, and terminated unless nothing ever fits.
Appended(s, max) ==
  /\ str' = s \o SubSeq(Chars, 1, IF Len(s) + Len(Chars) > max THEN max - Len(s)
                                  ELSE Len(Chars))
  /\ maxlen' = max
  /\ ended' = (ended \/ max > 0)

\* _PoolPrint: the string is reallocated when it gets too small; if that fails all
\* of it is lost, and what comes later begins a new one.
Grown ==
  LET newlen == Len(str) + Len(Chars) + 1
  IN  IF newlen <= maxlen THEN Appended(str, maxlen) /\ UNCHANGED <<sank, grow_refusals>>
      ELSE \/ Appended(str, newlen + PRINT_STRING_LEN) /\ UNCHANGED <<sank, grow_refusals>>
           \/ /\ grow_refusals < MaxGrowRefusals /\ grow_refusals' = grow_refusals + 1
              /\ str' = << >> /\ maxlen' = 0 /\ ended' = FALSE
              /\ sank' = Len(sink.str) + Len(text)

Flushed ==
  /\ Chars' = << >>
  /\ CASE sink.to \in Consoles -> /\ shown' = Shown
                                  /\ UNCHANGED <<str, maxlen, ended, sank, grow_refusals>>
       [] sink.to \in Strings -> Appended(str, maxlen) /\ UNCHANGED <<shown, sank, grow_refusals>>
       [] sink.to = "pool"    -> Grown /\ UNCHANGED shown

\* Pos >= End
Full == Len(Chars) >= PRINT_STRING_LEN - 1

PFLUSH == done = "no" /\ Full /\ Flushed /\ UNCHANGED <<Format, setting, shown_attr>>

\* A mutation: what is in the buffer is shown in the new attribute.
before_attribute_Not == UNCHANGED <<Chars, shown, str, maxlen, ended, sank, grow_refusals>>
before_attribute == Flushed

\* PSETATTR: flush, then set the attribute; strings have none to set.
PSETATTR ==
  /\ ~Full /\ setting # << >>
  /\ before_attribute
  /\ shown_attr' = IF sink.to \in Consoles THEN setting[1] ELSE shown_attr
  /\ now' = setting[1]
  /\ RestoreAttr' = IF setting[2] THEN now ELSE 0
  /\ setting' = << >>
  /\ UNCHANGED <<print, sink, fi, args, inside, Item, todo, text, done>>

Sets(attr, for_field) == setting' = <<attr, for_field>>

Output == UNCHANGED <<print, sink, str, maxlen, ended, shown, shown_attr, sank,
                      grow_refusals>>

\* A newline is put after a carriage return.
PPUTC ==
  /\ ~Full /\ setting = << >> /\ todo # << >>
  /\ Chars' = Append(Chars, Head(todo))
  /\ text' = Append(text, <<Head(todo), now>>)
  /\ todo' = Tail(todo)
  /\ UNCHANGED <<fi, args, inside, Item, now, RestoreAttr, setting, done>> /\ Output

\* Characters as PPUTC puts them.
Lines(s) == FlattenSeq([n \in DOMAIN s |-> IF s[n] = "\n" THEN <<"\r", "\n">> ELSE <<s[n]>>])
Times(n, c) == [k \in 1 .. n |-> c]

-------------------------------------------------------------------------------
(***************************************************************************)
(* The format.                                                             *)
(***************************************************************************)
Reading == done = "no" /\ ~Full /\ setting = << >> /\ todo = << >>
AtEnd == fi = Len(print.fmt)
PGETC == print.fmt[fi + 1]

Unmoved == UNCHANGED <<Chars, now, text>>

plain ==
  /\ Reading /\ ~inside /\ RestoreAttr = 0 /\ ~AtEnd
  /\ fi' = fi + 1
  /\ IF PGETC = "%" THEN /\ inside' = TRUE /\ Item' = NewItem /\ UNCHANGED todo
     ELSE todo' = Lines(<<PGETC>>) /\ UNCHANGED <<inside, Item>>
  /\ UNCHANGED <<args, RestoreAttr, setting, done>> /\ Unmoved /\ Output

\* Attributes of one field are taken back when it is over.
restore ==
  /\ Reading /\ ~inside /\ RestoreAttr # 0
  /\ Sets(RestoreAttr, FALSE)
  /\ UNCHANGED <<fi, args, inside, Item, todo, RestoreAttr, done>> /\ Unmoved /\ Output

\* The end of the format; inside an item its NUL has been read, and what lies
\* behind it is read as more format.  DbgPrint puts the attribute back.
finish ==
  /\ Reading /\ AtEnd /\ (~inside => RestoreAttr = 0)
  /\ \/ inside /\ done' = "overrun"
     \/ ~inside /\ done' = IF sink.to = "ascii" THEN "copy" ELSE "yes"
  /\ Flushed
  /\ shown_attr' = IF sink.to = "debug" THEN sink.attr ELSE shown_attr
  /\ UNCHANGED <<print, sink, fi, args, inside, Item, todo, now, RestoreAttr, setting, text>>

Digits == <<"0", "1", "2", "3", "4", "5", "6", "7", "8", "9">>
IsDigit(x) == \E d \in DOMAIN Digits : Digits[d] = x
Digit(x) == (CHOOSE d \in DOMAIN Digits : Digits[d] = x) - 1

Parsed(n) == IF Item.parse = "Width" THEN [Item EXCEPT !.Width = n]
             ELSE [Item EXCEPT !.FieldWidth = n]

\* Flags and widths.
flag ==
  /\ Reading /\ inside /\ ~AtEnd
  /\ \/ /\ PGETC \in {"0", "-", ",", ".", "l"} /\ fi' = fi + 1 /\ UNCHANGED args
        /\ Item' = CASE PGETC = "0" -> [Item EXCEPT !.Pad = "0"]
                     [] PGETC = "-" -> [Item EXCEPT !.PadBefore = FALSE]
                     [] PGETC = "." -> [Item EXCEPT !.parse = "FieldWidth"]
                     [] PGETC = "l" -> [Item EXCEPT !.Long = TRUE]
                     [] OTHER -> Item      \* commas are the conversion's
     \/ PGETC = "*" /\ fi' = fi + 1 /\ Item' = Parsed(Head(args)) /\ args' = Tail(args)
     \/ /\ IsDigit(PGETC) /\ PGETC # "0"
        /\ \E last \in fi + 1 .. Len(print.fmt) :
             /\ \A n \in fi + 1 .. last : IsDigit(print.fmt[n])
             /\ last < Len(print.fmt) => ~IsDigit(print.fmt[last + 1])
             /\ fi' = last
             /\ Item' = Parsed(FoldLeft(LAMBDA v, x : 10 * v + Digit(x), 0,
                                        SubSeq(print.fmt, fi + 1, last)))
        /\ UNCHANGED args
  /\ UNCHANGED <<inside, todo, RestoreAttr, setting, done>> /\ Unmoved /\ Output

\* Attributes: for the field, which goes on; or for good, which ends the item.
attribute ==
  /\ Reading /\ inside /\ ~AtEnd /\ fi' = fi + 1
  /\ \/ PGETC = "n" /\ Sets(Normal(sink.attr), TRUE) /\ UNCHANGED inside
     \/ PGETC = "h" /\ Sets(Highlight(sink.attr), TRUE) /\ UNCHANGED inside
     \/ PGETC = "e" /\ Sets(Yellow(sink.attr), TRUE) /\ UNCHANGED inside
     \/ PGETC = "N" /\ Sets(Normal(sink.attr), FALSE) /\ inside' = FALSE
     \/ PGETC = "H" /\ Sets(Highlight(sink.attr), FALSE) /\ inside' = FALSE
     \/ PGETC = "E" /\ Sets(Yellow(sink.attr), FALSE) /\ inside' = FALSE
  /\ UNCHANGED <<args, Item, todo, RestoreAttr, done>> /\ Unmoved /\ Output

Conversions == {"a", "s", "c", "X", "x", "g", "u", "d", "D", "f", "t", "r"}

\* PITEM: no more of the text than the field is wide; padded to the width with Pad,
\* and to the field with spaces on one side.
Padded(s, item) ==
  LET len == IF item.FieldWidth = -1 \/ Len(s) <= item.FieldWidth THEN Len(s)
             ELSE item.FieldWidth
      field == IF item.FieldWidth = -1 THEN len ELSE item.FieldWidth
      width == IF len > item.Width THEN len ELSE item.Width
      spaces == Times(field - width, " ")
      body == Times(width - len, item.Pad) \o SubSeq(s, 1, len)
  IN  IF item.PadBefore THEN spaces \o body ELSE body \o spaces

PITEM ==
  /\ Reading /\ inside /\ ~AtEnd /\ fi' = fi + 1
  /\ \/ /\ PGETC \in Conversions /\ args' = Tail(args)
        /\ LET item == IF PGETC = "X"
                       THEN [Item EXCEPT !.Width = IF Item.Long THEN 16 ELSE 8, !.Pad = "0"]
                       ELSE Item
           IN  todo' = Lines(Padded(Head(args), item))
     \/ /\ PGETC \notin Conversions \union {"0", "-", ",", ".", "l", "*", "n", "h", "e",
                                        "N", "H", "E"}
        /\ ~IsDigit(PGETC)
        /\ todo' = Padded(<<IF PGETC = "%" THEN "%" ELSE "?">>, Item) /\ UNCHANGED args
  /\ inside' = FALSE
  /\ UNCHANGED <<Item, RestoreAttr, setting, done>> /\ Unmoved /\ Output

IPrint == \/ PFLUSH \/ PSETATTR \/ PPUTC \/ plain \/ restore \/ finish
          \/ flag \/ attribute \/ PITEM

\* AsciiVSPrint copies the string it printed to pool memory, and terminates it.
AsciiVSPrint ==
  /\ done = "copy" /\ done' = "yes" /\ ended' = TRUE
  /\ UNCHANGED <<print, sink, fi, args, inside, Item, todo, Chars, now, RestoreAttr, setting,
                 str, maxlen, shown, shown_attr, text, sank, grow_refusals>>

PrintNext == IPrint \/ AsciiVSPrint
PrintSpec == PrintInit /\ [][PrintNext]_print_vars /\ WF_print_vars(PrintNext)

-------------------------------------------------------------------------------
Characters == [n \in DOMAIN text |-> text[n][1]]

FieldAttributes == {"n", "h", "e"}

\* An item begins at m and is not over at n.
OfItem(x) == x \in {"0", "-", ",", ".", "l", "*"} \/ IsDigit(x) \/ x \in FieldAttributes
ItemFrom(m, n) == print.fmt[m] = "%" /\ \A k \in m + 1 .. n : OfItem(print.fmt[k])

\* Whether an item of the format sets an attribute for good, or two for one field.
SetsForGood ==
  \E m, n \in 1 .. Len(print.fmt) :
    /\ m < n /\ ItemFrom(m, n - 1)
    /\ \/ print.fmt[n] \in {"N", "H", "E"}
       \/ /\ print.fmt[n] \in FieldAttributes
          /\ \E k \in m + 1 .. n - 1 : print.fmt[k] \in FieldAttributes

\* The text that is printed arrives: on a console all of it, each character in the
\* attribute that was in force when it was put, and with the console's attribute as
\* before unless the format sets it for good (or it was 0), for debugging always; in a
\* string as much as fits with the terminator, whatever the lengths of the pieces it is
\* handed over in; in pool memory all of it after what was there, or, where memory was refused,
\* all that came after the refusal.
TextArrives ==
  done = "yes" =>
    CASE sink.to \in Consoles ->
           /\ shown = text
           /\ \/ shown_attr = sink.attr
              \/ sink.to = "console" /\ (SetsForGood \/ sink.attr = 0)
      [] sink.to \in Strings ->
           /\ str = SubSeq(Characters, 1, IF maxlen < Len(text) THEN maxlen ELSE Len(text))
           /\ sink.StrSize >= 2 => 2 * (Len(str) + 1) <= sink.StrSize
           /\ ended \/ (sink.to = "string" /\ maxlen = 0)
      [] sink.to = "pool" ->
           str = SubSeq(sink.str \o Characters, sank + 1, Len(sink.str) + Len(text))
===============================================================================
