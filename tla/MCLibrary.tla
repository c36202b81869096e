------------------------------ MODULE MCLibrary ------------------------------
(***************************************************************************)
(* The parts of gnu-efi's library, and the kernel's string conversions, on *)
(* small inputs.  They share no state and do not call each other where a   *)
(* state is kept, so that one of them is chosen at the beginning and runs  *)
(* alone, the variables of the others at one initial value.                *)
(***************************************************************************)
EXTENDS EfiTasks, EfiBuffers, EfiSimpleRead, EfiPrint, EfiText, EfiMath, EfiCalls,
        EfiStart, EfiTables, EfiSession, EfiDriver, EfiLists, EfiSal, EfiPrograms, DevicePaths,
        Relocation, PciNames, Strings

VARIABLE unit

-------------------------------------------------------------------------------
\* EfiTasks: an installation of one protocol, and of two in both orders.
SmallLists == {<<"p">>, <<"p", "q">>, <<"q", "p">>}

\* EfiBuffers: smaller than the guess, as large, and larger by one and by two.
SmallObjects == {<<"a">>, <<"a", "b">>, <<"c", "b", "a">>, <<"c", "b", "a", "d">>}

\* EfiSimpleRead: none, one and several file nodes, behind a device, and a device
\* behind a file.
SmallFilePaths ==
  {<< >>, <<"file">>, <<"device">>, <<"device", "file">>, <<"device", "file", "file">>,
   <<"device", "file", "device">>, <<"device", "file", "device", "file">>}

\* EfiPrint: text longer than the buffer, fields and their attributes, the items that
\* are not there, and one that the format ends in.
P(fmt_, args_) == [fmt |-> fmt_, args |-> args_]
AB == <<"a", "b", "\n">>
SmallPrints ==
  {P(<< >>, << >>), P(<<"x", "\n", "%", "s", "y">>, <<AB>>),
   P(<<"%", "-", "5", ".", "8", "s", "|">>, <<AB>>),
   P(<<"%", "0", "4", "d", "%", "h", ".", "2", "s", "z", "%", "%">>, <<<<"7">>, AB>>),
   P(<<"%", "*", ".", "1", "0", "a", "%", "E", "q", "%", "N", "r">>, <<4, AB>>),
   P(<<"%", "n", "%", "x", "%", "X">>, <<<<"4", "2">>>>),
   P(<<"%", "l", "x", "%", "q", "%", "1">>, <<<<"4">>>>),
   P(<<"%", "h", "e", "c", "%", "e", "s">>, <<<<"a">>, AB>>),
   P(<<"%", "h", ".", "1", "e", "s", "%", "2", "N">>, <<AB>>), P(<<"o", "n", "e", "%", "4", "h", "s">>, <<AB>>)}
SinkOf(to, size, text_, max, attr) ==
  [to |-> to, StrSize |-> size, str |-> text_, maxlen |-> max, attr |-> attr, mask |-> "info"]
SmallSinks ==
  {SinkOf("console", 0, << >>, 0, attr) : attr \in {0, 7, 30}}
    \union {[SinkOf("debug", 0, << >>, 0, 30) EXCEPT !.mask = mask] : mask \in {"error", "warn", "info"}}
    \union {SinkOf(to, size, << >>, 0, 0) :
              to \in {"string", "ascii"}, size \in {0, 1, 2, 3, 4, 9, 16, 40}}
    \union {SinkOf("pool", 0, << >>, 0, 0), SinkOf("pool", 0, <<"o", "l", "d">>, 4, 0)}

-------------------------------------------------------------------------------
\* EfiStrings: strings of "a", "b" and "c", and patterns of three tokens that begin
\* and end in a star, or of two of any kind.
Upto(S, n) == UNION {[1 .. k -> S] : k \in 0 .. n}
AllSubjects == Upto({97, 98, 99}, 3)
Star == [is |-> "star", c |-> STAR]
SetOf(ranges_) == [is |-> "set", ranges |-> ranges_]
Tokens ==
  {Star, [is |-> "any", c |-> ANY], [is |-> "char", c |-> 97],
   SetOf(<<<<97, 97>>, <<99, 99>>>>), SetOf(<<<<97, 98>>>>),
   SetOf(<<<<97, 97>>, <<98, 99>>>>)}
SmallPatterns == Upto(Tokens, 2) \union {<<Star, token, Star>> : token \in Tokens}

\* The least INT64 of 24 bits, and lengths about the commas.
SmallNumbers == {-8388608, -1234, -1, 0, 9, 10, 123, 999, 1000, 12345, 32767}
SmallFloats == {-32, -17, -8, 0, 1, 24, 165, 16008}
SmallCopies == [dest : 0 .. 3, src : 0 .. 3, len : 0 .. 3]
\* EfiText: strings that begin alike and differ in case, one behind the other.
MemoryOf(s) == [n \in 0 .. Len(s) - 1 |-> s[n + 1]]
SmallMemories ==
  {MemoryOf(<<97, 66, 0, 97, 66, 99, 0, 65, 0, 0>>), MemoryOf(<<97, 98, 99, 97, 98, 0, 97, 0, 97, 0>>)}

\* EfiMath: about the powers of two at which the algorithms branch.
SmallOperands ==
  {0, 1, 3, 10, 100, 127, 128, 255, 256, 257, 1000, 12345, 16384, 32767, 32768, 33023, 49152,
   65280, 65535}
SmallMultipliers == {0, 1, 2, 3, 7, 15, 16, 17, 63, 64, 127, 128, 255}
SmallDividends ==
  {0, 1, 2, 3, 7, 8, 15, 16, 17, 63, 64, 65, 255, 256, 4095, 4096, 65535, 65536, 1048575,
   8388607, 8388608, 8388609, 16777214, 16777215}

\* EfiCalls: as many arguments as there are stubs for, all different.
SmallArgumentLists == {[k \in 1 .. n |-> <<"arg", k>>] : n \in 0 .. 10}

\* EfiStart: less code than a page and more, with less data and more.
SmallLinks == {<<40, 16>>, <<40, 700>>, <<4100, 20>>}

SmallCommandLines ==
  {<< >>, <<97>>, <<97, 32>>, <<97, 32, 98>>, <<97, 32, 32, 98>>,
   <<97, 32, 98, 32, 99, 32, 97>>, <<32>>}

\* EfiTables: regions that begin, end or lie in each other, that wrap around and that
\* are not used; lists of strings with the language first, second and not at all;
\* records with and without strings, and too short; changes of bits of a header before,
\* in and behind its CRC.
Part(os_, start_, size_) == [os |-> os_, start |-> start_, size |-> size_]
SmallPartitions ==
  {Part(0, 1, 2), Part(7, 0, 1), Part(7, 1, 4), Part(7, 2, 2), Part(7, 3, 0), Part(7, 5, 2), Part(7, 14, 3)}
Ui(lang, string) == [LangCode |-> lang, UiString |-> string]
SmallUis == {<< >>, <<Ui("en", "x")>>, <<Ui("de", "y"), Ui("en", "z")>>}
SmallUiStrings == SmallUis \X SmallUis
Record(type, length, serial, strings_) ==
  [Type |-> type, Length |-> length, SerialNumber |-> serial, Uuid |-> 9, strings |-> strings_]
SmallRecords ==
  {Record(2, 4, 1, << >>), Record(1, 4, 1, <<<<97>>>>), Record(1, 6, 2, <<<<97>>, <<98, 99>>>>),
   Record(1, 5, 3, <<<<97>>>>), Record(0, 5, 0, <<<<97>>, <<98>>>>), Record(1, 5, 1, << >>)}
Bit(n) == <<1 + n \div 8, n % 8>>
SmallFlips ==
  {{}} \union {{Bit(n)} : n \in {0, 77, 128, 159, 160, 191}}
    \union {{Bit(n), Bit(n + 31)} : n \in {0, 50, 120, 150}}
    \union {{Bit(n + k) : k \in 0 .. 31} : n \in {7, 100, 144}}
SmallRegisters == {<<1, 2, 3, 4>>, <<9, 9, 9, 9>>}

\* EfiSal: tables with each kind of entry, in order and not, with an unknown one among
\* them, and with descriptors at their end and behind it.
SalEntry(type, MemoryType, value) == [Type |-> type, MemoryType |-> MemoryType, values |-> <<value>>]
EntryPoint == [Type |-> 0, MemoryType |-> 0, values |-> <<11, 12, 13>>]
SmallEntryLists ==
  {<< >>, <<EntryPoint>>, <<EntryPoint, SalEntry(1, 2, 21), SalEntry(1, 3, 22)>>,
   <<EntryPoint, SalEntry(1, 3, 22), SalEntry(2, 0, 0), SalEntry(1, 2, 23), SalEntry(3, 0, 0), SalEntry(5, 0, 24)>>,
   <<EntryPoint, SalEntry(4, 0, 0), SalEntry(7, 0, 0), SalEntry(5, 0, 24)>>,
   <<SalEntry(5, 0, 24), EntryPoint, SalEntry(1, 2, 21)>>}
SmallSalTables ==
  [found : BOOLEAN, entries : SmallEntryLists, behind : {SalEntry(1, 2, 98), SalEntry(1, 3, 99), SalEntry(4, 0, 0)}]

\* EfiPrograms: boxes of two pixels on displays of three by four, with and without a gap
\* between the rows and with frame buffers of less and of more than the picture.
ModeInfo(pitch, format) ==
  [HorizontalResolution |-> 3, VerticalResolution |-> 4, PixelsPerScanLine |-> pitch,
   PixelFormat |-> format, RedMask |-> <<0, 255, 0, 0>>, GreenMask |-> <<0, 0, 0, 255>>]
OtherMode == [ModeInfo(8, "RGBR") EXCEPT !.HorizontalResolution = 8]
SmallInfos == {ModeInfo(4, "RGBR"), ModeInfo(3, "BGRR"), ModeInfo(4, "BitMask"), ModeInfo(4, "BltOnly"), ModeInfo(3, "?")}
SmallDisplays ==
  UNION {[gop : {"found", "not found"}, Mode : BOOLEAN, started : BOOLEAN, startable : BOOLEAN,
          memory : BOOLEAN, Info : {info}, FrameBufferSize : {7, 12, 20},
          modes : {<< << >>, <<OtherMode>>, <<info>>, <<info>> >>, <<<<OtherMode>>, << >> >>}] : info \in SmallInfos}
SmallBuses ==
  [handles : Upto([opens : BOOLEAN, vendor : {Intel}, device : {\H3A16, \H1C56}, rcba : {<< >>, <<4>>, <<5>>}], 2)]
SmallFetches == [first : {<< >>, <<2>>}, second : {<< >>, <<1>>, <<3>>}, memory : BOOLEAN]
SmallNameLists == Upto({1, 4, 5}, 3)

-------------------------------------------------------------------------------
\* EfiSession: languages whose codes are found at, and only across, multiples of the
\* code's size, and a driver that fails.
CollationDriver(languages_, works_) == [languages |-> languages_, works |-> works_]
SmallDrivers ==
  {<< >>, <<CollationDriver(<<1, 2, 3, 1>>, TRUE)>>,
   <<CollationDriver(<<3, 1, 2, 1, 2>>, TRUE), CollationDriver(<<1, 2>>, FALSE), CollationDriver(<<2, 2, 1, 2>>, TRUE)>>}
SmallLanguages == {<<1, 2>>}

-------------------------------------------------------------------------------
\* DevicePaths: nodes whose length is and is not a multiple of the alignment, one
\* printed by each function that looks at more than its own fields, and a path of two
\* instances.
Root == NodeOf("acpi", "acpi", 12, [HID |-> "a03", UID |-> 0])
PciNode == NodeOf("hw", "pci", 6, [Device |-> 1, Function |-> 0])
Net == NodeOf("msg", "ipv4", 27,
              [RemoteIpAddress |-> 1, Protocol |-> 6, StaticIpAddress |-> TRUE,
               LocalIpAddress |-> 0, GatewayIpAddress |-> 2, SubnetMask |-> 3])
OldNet == NodeOf("msg", "ipv4", 19,
                 [RemoteIpAddress |-> 1, Protocol |-> 5, StaticIpAddress |-> FALSE, LocalIpAddress |-> 4])
Net6 == NodeOf("msg", "ipv6", 60,
               [RemoteIpAddress |-> 1, Protocol |-> 17, IPAddressOrigin |-> 2,
                LocalIpAddress |-> 0, GatewayIpAddress |-> 2, PrefixLength |-> 64])
Mac == NodeOf("msg", "mac", 37, [MacAddress |-> "m", IfType |-> 2])
Odd == NodeOf("media", "odd", 7, << >>)
Uart == NodeOf("msg", "uart", 19, [BaudRate |-> 0, DataBits |-> 8, Parity |-> 1, StopBits |-> 2])
Disk == NodeOf("media", "harddrive", 42,
               [PartitionNumber |-> 1, SignatureType |-> 2, Signature |-> "g"])
Vendor == NodeOf("msg", "vendor", 21, [Guid |-> "UnknownDevice", LegacyDriveLetter |-> 128])
E == EndDevicePath
SmallPaths ==
  {<<E>>, <<Root, PciNode, E>>, <<Net, OldNet, Net6, E>>, <<Mac, Odd, E>>,
   <<Root, Uart, EndInstanceDevicePath, Vendor, E>>, <<Disk, E>>}
SmallNames == {[name |-> "k", size |-> 4]}

\* Relocation: no entries, one, several with one that means nothing, one of a type
\* that is not known, and pointers to functions, more than there is room for.
Entry(t, o, a) == [type |-> t, offset |-> o, addend |-> a]
SmallTables ==
  {<< >>, <<Entry("RELATIVE", 2, 7)>>,
   <<Entry("NONE", 0, 0), Entry("RELATIVE", 3, 5), Entry("RELATIVE", 2, 1)>>,
   <<Entry("RELATIVE", 3, 7), Entry("OTHER", 2, 1)>>,
   <<Entry("DIR64", 2, 1), Entry("FPTR", 3, 5)>>, <<Entry("FPTR", 2, 1), Entry("FPTR", 3, 5)>>}

\* Strings: the buffers in the order of the source, and the other way round.
InOrder == <<"int", "uint", "double", "hex64", "hex32", "hex16", "hex8">>
SmallLayouts == {InOrder, Reverse(InOrder)}
SmallInts == {-32768, -32767, -10, 0, 9, 10, 32767}
SmallDoubles == {-17, -8, 0, 24, 165}
SmallWords == {<<171>>, <<1, 160>>, <<255, 16, 0, 3>>, <<1, 2, 3, 4, 5, 6, 7, 240>>}

-------------------------------------------------------------------------------
Units ==
  {"tasks", "buffers", "read", "print", "calls", "session", "driver", "lists", "paths", "reloc", "kernel"}

Init ==
  /\ unit \in Units
  /\ TasksInit /\ AnswerInit
  /\ BuffersInit /\ (unit # "buffers" => request = "LibFileInfo" /\ object = <<"a">>)
  /\ SimpleReadInit
  /\ unit # "read" => asked_path = <<"file">> /\ fs = Nothing /\ load = Nothing /\ source = 0
  /\ PrintInit
  /\ unit # "print" => print.fmt = << >> /\ sink.to = "console" /\ sink.attr = 0
  /\ SessionInit
  /\ unit # "session" => doing.about = "input" /\ Len(pointers.list) = 1 /\ ~pointers.LibFwInstance
  /\ DriverInit
  /\ ListsInit /\ (unit # "lists" => ~EFI_DEBUG)
  /\ PathsInit /\ (unit # "paths" => path = <<E>>)
  /\ RelocInit
  /\ unit # "reloc" => machine = "arm" /\ ldbase = 0 /\ table = << >>
                       /\ ~dynamic.rel /\ dynamic.relent = 0
  /\ StringsInit /\ (unit # "kernel" => layout = InOrder)

application_vars == <<session_vars, driver_vars, list_vars>>

\* Each part's step, the others' variables as they are.
tasks_only == UNCHANGED <<unit, buffer_vars, read_vars, print_vars, answer, application_vars, path_vars,
                          reloc_vars, string_vars>>
TasksStep == unit = "tasks" /\ TasksNext /\ tasks_only
BuffersStep ==
  /\ unit = "buffers" /\ BuffersNext
  /\ UNCHANGED <<unit, task_vars, read_vars, print_vars, answer, application_vars, path_vars, reloc_vars,
                 string_vars>>
ReadStep ==
  /\ unit = "read" /\ SimpleReadNext
  /\ UNCHANGED <<unit, task_vars, buffer_vars, print_vars, answer, application_vars, path_vars, reloc_vars,
                 string_vars>>
PrintStep ==
  /\ unit = "print" /\ PrintNext
  /\ UNCHANGED <<unit, task_vars, buffer_vars, read_vars, answer, application_vars, path_vars, reloc_vars,
                 string_vars>>
CallsStep ==
  /\ unit = "calls"
  /\ \/ StringNext
     \/ /\ Unanswered
        /\ use_text \/ use_pool \/ compute \/ firmware_call \/ jump \/ start \/ link \/ look \/ reach
           \/ name_device \/ ask_sal \/ run_program
  /\ UNCHANGED <<unit, task_vars, buffer_vars, read_vars, print_vars, application_vars, path_vars,
                 reloc_vars, string_vars>>
SessionStep ==
  /\ unit = "session" /\ SessionNext
  /\ UNCHANGED <<unit, task_vars, buffer_vars, read_vars, print_vars, answer, driver_vars, list_vars, path_vars,
                 reloc_vars, string_vars>>
DriverStep ==
  /\ unit = "driver" /\ DriverNext
  /\ UNCHANGED <<unit, task_vars, buffer_vars, read_vars, print_vars, answer, session_vars, list_vars, path_vars,
                 reloc_vars, string_vars>>
ListStep ==
  /\ unit = "lists" /\ ListsNext
  /\ UNCHANGED <<unit, task_vars, buffer_vars, read_vars, print_vars, answer, session_vars, driver_vars, path_vars,
                 reloc_vars, string_vars>>
PathStep ==
  /\ unit = "paths" /\ PathsNext
  /\ UNCHANGED <<unit, task_vars, buffer_vars, read_vars, print_vars, answer, application_vars, reloc_vars,
                 string_vars>>
RelocStep ==
  /\ unit = "reloc" /\ RelocNext
  /\ UNCHANGED <<unit, task_vars, buffer_vars, read_vars, print_vars, answer, application_vars, path_vars,
                 string_vars>>
KernelStep ==
  /\ unit = "kernel" /\ StringsNext
  /\ UNCHANGED <<unit, task_vars, buffer_vars, read_vars, print_vars, answer, application_vars, path_vars,
                 reloc_vars>>

Next == TasksStep \/ BuffersStep \/ ReadStep \/ PrintStep \/ CallsStep \/ SessionStep \/ DriverStep
        \/ ListStep \/ PathStep \/ RelocStep \/ KernelStep

lib_vars == <<unit, task_vars, buffer_vars, read_vars, print_vars, answer, application_vars, path_vars,
              reloc_vars, string_vars>>

\* EfiTasks' fairness: the processor does not stop.
Spec == Init /\ [][Next]_lib_vars /\ WF_task_vars(unit = "tasks" /\ Tasks /\ tasks_only)

-------------------------------------------------------------------------------
\* What gives one answer to one call gives the one it should: matching, conversions,
\* arithmetic, the functions on strings and memory, what is looked up in tables, the
\* names of devices, and what a sample program does; and the kernel's conversions leave
\* in their buffers what reads back as the number.
AnswersAgree == StringsAgree /\ PatternsMatch /\ MathAgrees /\ TextAgrees /\ LookupsAgree
                /\ NamesTellApart /\ ProgramsServe /\ NumbersReadBack

\* What leaves the C of one function arrives in that of another: calls of the firmware and
\* by the firmware, an image's start, a long jump, a driver's functions, and ia64's firmware
\* below EFI.
CallsReach == CallsArrive /\ ImageStarts /\ HeadersLoad /\ JumpsReturn /\ InstancesReached /\ FirmwareTableServes
===============================================================================
