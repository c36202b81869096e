------------------------------ MODULE EfiSession ------------------------------
(***************************************************************************)
(* What an application does between its start and the end of the boot      *)
(* services, where it goes step by step with its user or the firmware:     *)
(* gnu-efi's InitializeLib (lib/init.c), line input (lib/console.c), the   *)
(* waits of lib/event.c, DumpHex (lib/print.c), and the pointers that are  *)
(* converted for the runtime (lib/runtime/vm.c).                           *)
(***************************************************************************)
EXTENDS Integers, Sequences, FiniteSets, SequencesExt

CONSTANTS
  Keys,                \* characters from the space on
  LineSizes, MaxKeys,  \* values of StrLen; keys struck in a behaviour
  DumpSizes, DumpBytes, ScreenRows,   \* DataSize, bytes in a line, rows of the screen
  Timeouts,
  Drivers,             \* lists of [languages, works], of drivers of unicode collation
  Languages,           \* codes, sequences of ISO_639_2_ENTRY_SIZE letters
  ISO_639_2_ENTRY_SIZE,
  MaxInits,            \* calls of InitializeLib
  ListLengths          \* numbers of nodes of a list, with its head

VARIABLES
  doing,   \* what a behaviour is about (its parts share no state), the function that
           \* runs, and the one that called it
  line,    \* IInput's parameters, buffer and Len, and how many keys were struck
  screen,  \* the screen since the prompt, and the cursor on it
  wait,    \* WaitForEventWithTimeout: its Timeout, its Key, and the timers that are open
  dump,    \* DumpHex's variables, and its lines, with how many there are since a pause
  lib,     \* the globals of lib/data.c, and what is allocated
  pointers \* those that are converted for the runtime
session_vars == <<doing, line, screen, wait, dump, lib, pointers>>

Terminator == "Terminator"
Unwritten == "unwritten"
Blank == " "
LineCells == 0 .. MaxKeys + 1

\* Keys are characters, which are none of the marks used here; drivers come in an order.
ASSUME SessionAssumption ==
  /\ Keys \cap {Terminator, Unwritten, "timeout"} = {}
  /\ MaxKeys \in Nat /\ DumpBytes \in Nat \ {0}
  /\ LineSizes \subseteq Nat /\ DumpSizes \subseteq Nat /\ ScreenRows \subseteq Nat
  /\ Timeouts \subseteq Nat /\ ListLengths \subseteq Nat \ {0}
  /\ \A d \in Drivers : d \in Seq([languages : Seq(Nat), works : BOOLEAN])

\* A pointer to a node or an object, how often it was converted, and with what disposition.
Pointer(to_) == [to |-> to_, maps |-> 0, DebugDisposition |-> 0]
Circle(n) == [k \in 1 .. n |-> [Flink |-> Pointer((k % n) + 1), Blink |-> Pointer(((k + n - 2) % n) + 1)]]

SessionInit ==
  /\ \E about_ \in {"input", "dump", "wait", "init", "runtime"} :
       doing = [about |-> about_, now |-> "none", caller |-> "none"]
  /\ line = [StrLen |-> 0, Len |-> 0, InStr |-> [n \in LineCells |-> Unwritten], struck |-> 0]
  /\ screen = [cells |-> << >>, at |-> 1]
  /\ wait = [Timeout |-> 0, Key |-> Unwritten, timers |-> 0]
  /\ dump = [DataSize |-> 0, all |-> 0, Offset |-> 0, ScreenCount |-> 0, ScreenSize |-> 0,
             rows |-> 0, lines |-> << >>, since |-> 0]
  /\ lib = [LibInitialized |-> FALSE, ST |-> 0, PoolAllocationType |-> "BootServicesData",
            EFIDebug |-> "default", UnicodeInterface |-> 0, drivers |-> << >>, LangCode |-> << >>,
            allocated |-> 0, calls |-> << >>]
  /\ \E n \in ListLengths, fw \in BOOLEAN :
       pointers = [LibFwInstance |-> fw, globals |-> [g \in {"RT", "DebugOut", "RaiseTPL", "RestoreTPL"} |->
                                                        Pointer(g)],
                   list |-> Circle(n), Link |-> 1, fault |-> FALSE]

Idle(about_) == doing.about = about_ /\ doing.now = "none"
Calls(function) == doing' = [doing EXCEPT !.now = function, !.caller = doing.now]
Returns == doing' = [doing EXCEPT !.now = doing.caller, !.caller = "none"]

-------------------------------------------------------------------------------
(***************************************************************************)
(* Input: the terminal writes where the cursor is, and moves it.           *)
(***************************************************************************)
Displayed(s, c) == [cells |-> SubSeq(s.cells, 1, s.at - 1) \o <<c>> \o SubSeq(s.cells, s.at + 1, Len(s.cells)),
                at |-> s.at + 1]
Back(s) == [s EXCEPT !.at = @ - 1]

Input(StrLen_) ==
  /\ Calls("input")
  /\ line' = [line EXCEPT !.StrLen = StrLen_, !.Len = 0, !.InStr = [n \in LineCells |-> Unwritten]]
  /\ screen' = [cells |-> << >>, at |-> 1]

call_input ==
  /\ Idle("input") /\ line.struck < MaxKeys
  /\ \E StrLen_ \in LineSizes : Input(StrLen_)
  /\ UNCHANGED <<wait, dump, lib, pointers>>

struck == line.struck < MaxKeys /\ doing.now = "input"
session_rest == UNCHANGED <<wait, dump, lib, pointers>>

\* A mutation: a backspace is shown on an empty line too.
some_input_Any == TRUE
some_input == line.Len # 0
IInput_backspace ==
  /\ struck
  /\ IF some_input
     THEN /\ screen' = Back(Displayed(Back(screen), Blank))
          /\ line' = [line EXCEPT !.Len = @ - 1, !.struck = @ + 1]
     ELSE screen' = screen /\ line' = [line EXCEPT !.struck = @ + 1]
  /\ UNCHANGED doing /\ session_rest

\* StrLen - 1 is of no sign: with no buffer at all there is always room.
Room == line.StrLen = 0 \/ line.Len < line.StrLen - 1
IInput_character ==
  /\ struck
  /\ \E Key \in Keys :
       IF Room
       THEN /\ screen' = Displayed(screen, Key)
            /\ line' = [line EXCEPT !.InStr = [@ EXCEPT ![line.Len] = Key, ![line.Len + 1] = Terminator],
                                    !.Len = @ + 1, !.struck = @ + 1]
       ELSE screen' = screen /\ line' = [line EXCEPT !.struck = @ + 1]
  /\ UNCHANGED doing /\ session_rest

\* Other control characters.
IInput_ignored ==
  /\ struck /\ line' = [line EXCEPT !.struck = @ + 1]
  /\ UNCHANGED <<doing, screen>> /\ session_rest

\* At the end of the line, or after an error of ReadKeyStroke.
IInput_end ==
  /\ doing.now = "input"
  /\ line' = [line EXCEPT !.InStr[line.Len] = Terminator]
  /\ Returns
  /\ UNCHANGED screen /\ session_rest

-------------------------------------------------------------------------------
(***************************************************************************)
(* DumpHex.                                                                *)
(***************************************************************************)
call_DumpHex ==
  /\ Idle("dump") /\ dump.all = 0
  /\ \E size \in DumpSizes, rows_ \in ScreenRows :
       dump' = [dump EXCEPT !.DataSize = size, !.all = size, !.rows = rows_, !.ScreenSize = rows_ - 2]
  /\ Calls("dump")
  /\ UNCHANGED <<line, screen, wait, lib, pointers>>

\* A screen of fewer than two rows has very many when two are taken away.
PageFull == dump.ScreenCount + 1 >= dump.ScreenSize /\ dump.ScreenSize > 0

DumpHex_line ==
  /\ doing.now = "dump" /\ dump.DataSize > 0
  /\ LET Size == IF dump.DataSize < DumpBytes THEN dump.DataSize ELSE DumpBytes
     IN  dump' = [dump EXCEPT !.lines = Append(@, [Offset |-> dump.Offset, Size |-> Size]),
                              !.Offset = @ + Size, !.DataSize = @ - Size,
                              !.ScreenCount = IF PageFull THEN 0 ELSE @ + 1,
                              !.since = @ + 1]
  /\ IF PageFull
     THEN Input(1)
     ELSE UNCHANGED <<doing, line, screen>>
  /\ UNCHANGED <<wait, lib, pointers>>

\* The user has seen what is on the screen.
DumpHex_paused ==
  /\ doing.now = "input" /\ doing.caller = "dump"
  /\ line' = [line EXCEPT !.InStr[line.Len] = Terminator]
  /\ dump' = [dump EXCEPT !.since = 0]
  /\ Returns
  /\ UNCHANGED <<screen, wait, lib, pointers>>

DumpHex_end ==
  /\ doing.now = "dump" /\ dump.DataSize = 0
  /\ Returns
  /\ UNCHANGED <<line, screen, wait, dump, lib, pointers>>

-------------------------------------------------------------------------------
(***************************************************************************)
(* WaitForEventWithTimeout, which nobody calls in the kernel: its Timeout  *)
(* is shown, and not counted down.                                         *)
(***************************************************************************)
call_wait ==
  /\ Idle("wait") /\ wait.Key = Unwritten
  /\ \E t \in Timeouts : wait' = [wait EXCEPT !.Timeout = t]
  /\ Calls("round")
  /\ UNCHANGED <<line, screen, dump, lib, pointers>>

\* A round ends with a key or without one.
RoundEnds(timers_) ==
  IF wait.Timeout > 0
  THEN wait' = [wait EXCEPT !.timers = timers_] /\ doing' = [doing EXCEPT !.now = "round"]
  ELSE wait' = [wait EXCEPT !.timers = timers_, !.Key = "timeout"] /\ Returns

\* The timer is created and set, or there is none and nothing is waited for.
WaitForSingleEvent ==
  /\ doing.now = "round"
  /\ \/ wait' = [wait EXCEPT !.timers = @ + 1] /\ doing' = [doing EXCEPT !.now = "waiting"]
     \/ RoundEnds(wait.timers)
  /\ UNCHANGED <<line, screen, dump, lib, pointers>>

\* The timer comes, or the key, which may not be read; and WaitForEvent may be refused.
WaitForSingleEvent_wakes ==
  /\ doing.now = "waiting"
  /\ \/ RoundEnds(wait.timers - 1)
     \/ \E Key \in Keys : wait' = [wait EXCEPT !.timers = @ - 1, !.Key = Key] /\ Returns
  /\ UNCHANGED <<line, screen, dump, lib, pointers>>

-------------------------------------------------------------------------------
(***************************************************************************)
(* InitializeLib: the globals are set by the first call, and a driver is   *)
(* looked for until there is one.                                          *)
(***************************************************************************)
\* What a variable of that name makes of the mask: of a short one the rest is what the
\* stack held.
EFIDebugVariable == {"default", "given", "half given"}

InitializeLib ==
  /\ Idle("init") /\ Len(lib.calls) < MaxInits
  /\ \E ImageHandle \in BOOLEAN, SystemTable \in {1, 2}, type \in {"BootServicesData", "LoaderData"},
        debug \in EFIDebugVariable :
       /\ lib' = [lib EXCEPT
            !.LibInitialized = TRUE, !.calls = Append(@, [ST |-> SystemTable, ImageHandle |-> ImageHandle]),
            !.ST = IF lib.LibInitialized THEN @ ELSE SystemTable,
            !.PoolAllocationType = IF lib.LibInitialized \/ ~ImageHandle THEN @ ELSE type,
            !.EFIDebug = IF lib.LibInitialized \/ ~ImageHandle THEN @ ELSE debug]
       /\ IF ImageHandle /\ lib.UnicodeInterface = 0 THEN Calls("language") ELSE UNCHANGED doing
  /\ UNCHANGED <<line, screen, wait, dump, pointers>>

\* The variable of the language, with its buffer, and the buffer of the handles.
get_language ==
  /\ doing.now = "language"
  /\ \E LangCode_ \in Languages \union {<< >>}, drivers_ \in Drivers :
       lib' = [lib EXCEPT !.LangCode = LangCode_, !.drivers = drivers_,
                          !.allocated = @ + (IF LangCode_ # << >> THEN 1 ELSE 0)
                                          + (IF drivers_ # << >> THEN 1 ELSE 0)]
  /\ doing' = [doing EXCEPT !.now = "collation"]
  /\ UNCHANGED <<line, screen, wait, dump, pointers>>

\* The code at a multiple of its size, from 0; behind the last code are zeros.
Supports(driver, LangCode_) ==
  \E p \in 0 .. Len(driver.languages) - 1 :
    /\ p % ISO_639_2_ENTRY_SIZE = 0
    /\ \A k \in 1 .. ISO_639_2_ENTRY_SIZE :
         LangCode_[k] = IF p + k <= Len(driver.languages) THEN driver.languages[p + k] ELSE 0

InitializeUnicodeSupport ==
  /\ doing.now = "collation"
  /\ LET found == {n \in DOMAIN lib.drivers : /\ lib.LangCode # << >> /\ lib.drivers[n].works
                                              /\ Supports(lib.drivers[n], lib.LangCode)}
     IN  lib' = [lib EXCEPT
           !.UnicodeInterface = IF found = {} THEN @ ELSE CHOOSE n \in found : \A k \in found : n <= k,
           !.allocated = @ - (IF lib.LangCode # << >> THEN 1 ELSE 0)
                           - (IF lib.drivers # << >> THEN 1 ELSE 0)]
  /\ Returns
  /\ UNCHANGED <<line, screen, wait, dump, pointers>>

-------------------------------------------------------------------------------
(***************************************************************************)
(* The pointers of the runtime.  RT itself is one of them, and until all   *)
(* drivers have converted theirs, what it holds then is not mapped.        *)
(***************************************************************************)
Mapped(p, disposition) == [p EXCEPT !.maps = @ + 1, !.DebugDisposition = disposition]

RtLibEnableVirtualMappings ==
  /\ Idle("runtime") /\ pointers.globals["RaiseTPL"].maps = 0 /\ ~pointers.fault
  /\ ~pointers.LibFwInstance
  /\ pointers' = [pointers EXCEPT !.globals = [g \in DOMAIN @ |-> Mapped(@[g], 0)]]
  /\ UNCHANGED <<doing, line, screen, wait, dump, lib>>

\* ConvertPointer is looked for in the table that RT points to.
call_RtConvertList ==
  /\ Idle("runtime") /\ pointers.list[1].Flink.maps = 0 /\ ~pointers.fault
  /\ IF pointers.globals["RT"].maps = 1
     THEN pointers' = [pointers EXCEPT !.fault = TRUE] /\ UNCHANGED doing
     ELSE UNCHANGED pointers /\ Calls("convert")
  /\ UNCHANGED <<line, screen, wait, dump, lib>>

RtConvertList ==
  /\ doing.now = "convert"
  /\ LET Link == pointers.Link
         node == pointers.list[Link]
         Disposition(p) == IF p.to = 1 THEN 1 ELSE 0
     IN  /\ pointers' = [pointers EXCEPT
              !.list[Link] = [Flink |-> Mapped(node.Flink, Disposition(node.Flink)),
                              Blink |-> Mapped(node.Blink, Disposition(node.Blink))],
              !.Link = node.Flink.to]
         /\ IF node.Flink.to = 1 THEN Returns ELSE UNCHANGED doing
  /\ UNCHANGED <<line, screen, wait, dump, lib>>

-------------------------------------------------------------------------------
SessionNext ==
  \/ call_input \/ IInput_backspace \/ IInput_character \/ IInput_ignored
  \/ (doing.caller # "dump" /\ IInput_end)
  \/ call_DumpHex \/ DumpHex_line \/ DumpHex_paused \/ DumpHex_end
  \/ call_wait \/ WaitForSingleEvent \/ WaitForSingleEvent_wakes
  \/ InitializeLib \/ get_language \/ InitializeUnicodeSupport
  \/ RtLibEnableVirtualMappings \/ call_RtConvertList \/ RtConvertList

SessionSpec == SessionInit /\ [][SessionNext]_session_vars

-------------------------------------------------------------------------------
\* What the user sees of the line is what the buffer holds, in every moment, and it is
\* written within the buffer, if there is one; after the end of the line its end is there.
LineIsTyped ==
  /\ doing.now = "input" =>
       /\ line.Len >= 0 /\ screen.at = line.Len + 1
       /\ \A n \in 0 .. line.Len - 1 : line.InStr[n] = screen.cells[n + 1]
  /\ doing.now # "input" /\ line.InStr[0] # Unwritten =>
       line.InStr[line.Len] = Terminator /\ \A n \in 0 .. line.Len - 1 : line.InStr[n] \in Keys
  /\ line.StrLen > 0 => \A n \in LineCells : n >= line.StrLen => line.InStr[n] = Unwritten

\* All the data are dumped in order, and no line leaves the screen before the user was
\* asked, if the screen has more than two rows.
DumpIsWhole ==
  /\ \A n \in DOMAIN dump.lines :
       dump.lines[n].Offset + dump.lines[n].Size =
         IF n = Len(dump.lines) THEN dump.all - dump.DataSize ELSE dump.lines[n + 1].Offset
  /\ dump.lines # << >> => dump.lines[1].Offset = 0
  /\ dump.rows > 2 => dump.since <= dump.rows - 2

\* No timer is left open, and the caller's key is given only where no time was to be
\* waited for: otherwise it is waited for a key without end.
WaitsForKeys ==
  /\ wait.timers = IF doing.now = "waiting" THEN 1 ELSE 0
  /\ wait.Key = "timeout" => wait.Timeout = 0

\* The library serves the first system table it was given; the driver is one that works
\* and knows the language, and none only if there is no such driver; what was allocated
\* for the search is freed.
LibIsInitialized ==
  /\ lib.calls # << >> => lib.ST = lib.calls[1].ST
  /\ doing.now # "collation" =>
       LET fit == {n \in DOMAIN lib.drivers : lib.drivers[n].works /\ lib.LangCode # << >>
                                               /\ Supports(lib.drivers[n], lib.LangCode)}
       IN  /\ lib.allocated = 0
           /\ IF fit = {} THEN lib.UnicodeInterface = 0 ELSE lib.UnicodeInterface \in fit

\* Every pointer is converted once, and those to a list's head in their own way; a list
\* that comes after the library's own pointers is not converted at all.
PointersConverted ==
  /\ \A k \in DOMAIN pointers.list : \A p \in {pointers.list[k].Flink, pointers.list[k].Blink} :
       /\ p.maps = IF doing.now = "convert" THEN p.maps
                   ELSE pointers.list[1].Flink.maps
       /\ p.maps \in {0, 1} /\ (p.maps = 1 => (p.DebugDisposition = 1 <=> p.to = 1))
  /\ \A g \in DOMAIN pointers.globals :
       pointers.globals[g].maps \in IF pointers.LibFwInstance THEN {0} ELSE {0, 1}
  /\ pointers.fault => pointers.list[1].Flink.maps = 0 /\ pointers.globals["RT"].maps = 1

\* The five of them: what passes between the application, its user and the firmware
\* through this library arrives whole.
SessionKept ==
  LineIsTyped /\ DumpIsWhole /\ WaitsForKeys /\ LibIsInitialized /\ PointersConverted
===============================================================================
