------------------------------- MODULE EfiSal -------------------------------
(***************************************************************************)
(* The firmware of ia64 below EFI (lib/ia64/salpal.c, palproc.S,           *)
(* inc/ia64/salproc.h): a table of entries of different sizes, one behind  *)
(* the other, the procedures that its first entry names, and the two       *)
(* conventions by which the lower of them, PAL, is called.                 *)
(***************************************************************************)
EXTENDS Answers, FiniteSetsExt

CONSTANTS
  SalTables,    \* what the firmware has: whether there is a table, its entries, and what
                \* lies behind them in memory; an entry is its Type, MemoryType and values
  PalIndexes    \* numbers of PAL procedures

ENTRY_POINT == 0
MEMORY_DESCRIPTOR == 1
AP_WAKEUP == 5
SAL_SAPIC_IPI_BLOCK == 2
SAL_IO_PORT_MAPPING == 3
None == << >>

-------------------------------------------------------------------------------
\* How long the header's structures are, from the entry point's to the wakeup vector's,
\* and where each entry of a table begins.
DescriptorSizes == <<48, 32, 16, 32, 16, 16>>
OtherSize == 16
SizeOf(sizes, type, other) == IF type < Len(sizes) THEN sizes[type + 1] ELSE other
OffsetOf(entries_, n) ==
  MapThenSumSet(LAMBDA k : SizeOf(DescriptorSizes, entries_[k].Type, OtherSize), 1 .. n - 1)
TypeAt(entries_, offset) ==
  LET there == {n \in DOMAIN entries_ : OffsetOf(entries_, n) = offset}
  IN  IF there = {} THEN ENTRY_POINT ELSE entries_[CHOOSE n \in there : TRUE].Type

\* The cases of LibSearchSalSystemTable's switch; an unknown entry is not gone past.
StepOver(type) == SizeOf(<<48, 32, 16, 32, 16, 16>>, type, 0)

\* The search's pointer before each of its rounds, of which there are as many as entries.
LibSearchSalSystemTable(sal, EntryType) ==
  LET SalTableHack[count \in 0 .. Len(sal.entries)] ==
        IF count = 0 THEN 0
        ELSE SalTableHack[count - 1] + StepOver(TypeAt(sal.entries, SalTableHack[count - 1]))
      hits == {count \in 0 .. Len(sal.entries) - 1 :
                 TypeAt(sal.entries, SalTableHack[count]) = EntryType}
      at == {n \in DOMAIN sal.entries : OffsetOf(sal.entries, n) = SalTableHack[Min(hits)]}
  IN  IF ~sal.found \/ hits = {} THEN None
      ELSE IF at = {} THEN <<"inside an entry">> ELSE <<sal.entries[CHOOSE n \in at : TRUE]>>

LibGetSalWakeupVector(sal) ==
  LET ApWakeUp == LibSearchSalSystemTable(sal, AP_WAKEUP)
  IN  IF ApWakeUp = None THEN None ELSE ApWakeUp[1].values

-------------------------------------------------------------------------------
InMemory(sal) == sal.entries \o <<sal.behind>>
HasEntry0(sal) == sal.found /\ InMemory(sal)[1].Type = ENTRY_POINT

\* The memory descriptors come next to the entry point, and the walk ends at what is none
\* of them, the count of entries unread.
MemoryDescriptor(sal, MemoryType) ==
  LET walked == {n \in 2 .. Len(InMemory(sal)) :
                   \A k \in 2 .. n : InMemory(sal)[k].Type = MEMORY_DESCRIPTOR}
      hits == {n \in walked : InMemory(sal)[n].MemoryType = MemoryType}
  IN  IF ~HasEntry0(sal) \/ hits = {} THEN None ELSE InMemory(sal)[Min(hits)].values
LibGetSalIoPortMapping(sal) == MemoryDescriptor(sal, SAL_IO_PORT_MAPPING)
LibGetSalIpiBlock(sal) == MemoryDescriptor(sal, SAL_SAPIC_IPI_BLOCK)

-------------------------------------------------------------------------------
\* GlobalSalProc and GlobalPalProc, as the last initialisation leaves them: both or none,
\* SAL's with its global pointer.
LibInitSalAndPalProc(sal) ==
  IF ~HasEntry0(sal) THEN [GlobalSalProc |-> None, GlobalPalProc |-> None]
  ELSE LET entry0 == InMemory(sal)[1].values
       IN  [GlobalSalProc |-> <<entry0[2], entry0[3]>>, GlobalPalProc |-> <<entry0[1]>>]

\* The status of a call that does not happen; nothing sets the result's other words.
CompletedWithError == [to |-> None, p0 |-> -3]

LibSalProc(sal, args) ==
  LET proc == LibInitSalAndPalProc(sal).GlobalSalProc
  IN  IF proc = None THEN CompletedWithError ELSE [to |-> proc, registers |-> args]

\* The two stubs put the index and the arguments where their convention has them; the
\* stacked one has the index in both places.
MakeStaticPALCall(args) == [r |-> args, out |-> None]
MakeStackedPALCall(args) == [r |-> <<args[1]>>, out |-> args]

IsStacked(index) == (index >= 255 /\ index <= 511) \/ (index >= 768 /\ index <= 1023)

LibPalProc(sal, args) ==
  LET proc == LibInitSalAndPalProc(sal).GlobalPalProc
  IN  IF proc = None THEN CompletedWithError
      ELSE [to |-> proc,
            registers |-> IF IsStacked(args[1]) THEN MakeStackedPALCall(args) ELSE MakeStaticPALCall(args)]

\* Where PAL's procedures look: every second block of 256 has its arguments on the stack.
\* Number 255 is none of them, and is called as those of the second block.
PalTakes(index, registers) ==
  IF (index \div 256) % 2 = 1 THEN <<registers.r[1]>> \o Tail(registers.out)
  ELSE registers.r

-------------------------------------------------------------------------------
ask_sal ==
  \E sal \in SalTables :
    \/ \E type \in 0 .. 7 : Answers("sal entry", [sal |-> sal, type |-> type], LibSearchSalSystemTable(sal, type))
    \/ Answers("sal vector", sal, LibGetSalWakeupVector(sal))
    \/ Answers("sal ports", sal, LibGetSalIoPortMapping(sal))
    \/ Answers("sal ipi", sal, LibGetSalIpiBlock(sal))
    \/ \E index \in PalIndexes :
         \/ Answers("pal", [sal |-> sal, args |-> <<index, 1, 2, 3>>], LibPalProc(sal, <<index, 1, 2, 3>>))
         \/ Answers("sal", [sal |-> sal, args |-> <<index, 1, 2, 3, 4, 5, 6, 7>>],
                    LibSalProc(sal, <<index, 1, 2, 3, 4, 5, 6, 7>>))

FirstOfType(sal, type) ==
  LET them == {n \in DOMAIN sal.entries : sal.entries[n].Type = type}
  IN  IF them = {} THEN Len(sal.entries) + 1 ELSE Min(them)
KnownBefore(sal, n) == \A k \in 1 .. n - 1 : sal.entries[k].Type < Len(DescriptorSizes)

\* What is found in the table is one of its entries, the first of its type; it is missed
\* only if it is not there, or behind an entry of a type that is not known.
EntryFound(sal, type, out) ==
  LET n == FirstOfType(sal, type)
  IN  out = IF sal.found /\ n \in DOMAIN sal.entries /\ KnownBefore(sal, n) THEN <<sal.entries[n]>> ELSE None

\* A memory descriptor that is found is the table's own, unless the table ends in
\* descriptors, and then what is behind it may be taken for one; it is found only if
\* nothing else is before it.
DescriptorFound(sal, MemoryType, out) ==
  LET others == {n \in 2 .. Len(sal.entries) : sal.entries[n].Type # MEMORY_DESCRIPTOR}
      wanted == {n \in 2 .. Len(sal.entries) : /\ sal.entries[n].Type = MEMORY_DESCRIPTOR
                                               /\ sal.entries[n].MemoryType = MemoryType}
  IN  IF HasEntry0(sal) /\ \E n \in wanted : \A k \in others : n < k
      THEN out = sal.entries[Min(wanted)].values
      ELSE out # None => others = {} /\ HasEntry0(sal) /\ out = sal.behind.values

\* Every question to the table has that answer, and a call arrives at the procedure that
\* the table names with its arguments where the procedure looks for them, or returns an
\* error if there is no table that begins as one should.
FirmwareTableServes ==
  LET in == answer.in
      out == answer.out
  IN  CASE answer.of = "sal entry" -> EntryFound(in.sal, in.type, out)
        [] answer.of = "sal vector" ->
             out # None => EntryFound(in, AP_WAKEUP, <<in.entries[FirstOfType(in, AP_WAKEUP)]>>)
                             /\ out = in.entries[FirstOfType(in, AP_WAKEUP)].values
        [] answer.of = "sal ports" -> DescriptorFound(in, SAL_IO_PORT_MAPPING, out)
        [] answer.of = "sal ipi" -> DescriptorFound(in, SAL_SAPIC_IPI_BLOCK, out)
        [] answer.of = "pal" ->
             IF HasEntry0(in.sal)
             THEN /\ out.to = <<InMemory(in.sal)[1].values[1]>>
                  /\ PalTakes(in.args[1], out.registers) = in.args
             ELSE out = CompletedWithError
        [] answer.of = "sal" ->
             IF HasEntry0(in.sal) THEN out.to[1] = InMemory(in.sal)[1].values[2] /\ out.registers = in.args
             ELSE out = CompletedWithError
        [] OTHER -> TRUE
===============================================================================
