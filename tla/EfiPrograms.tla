----------------------------- MODULE EfiPrograms -----------------------------
(***************************************************************************)
(* gnu-efi's sample programs, each run once from efi_main to its return:   *)
(* the pages of a command line (apps/AllocPages.c, FreePages.c), what they *)
(* draw and list of a display (lfbgrid.c, bltgrid.c, modelist.c), one bit  *)
(* of a chipset (route80h.c), a pause for a debugger (debughook.c), the    *)
(* variables there are (printenv.c), two that are set and deleted          *)
(* (setdbg.c, unsetdbg.c), and what an image is told of itself (t3.c,      *)
(* t6.c).  The firmware a program meets, and what of it fails, is what it  *)
(* is given.                                                               *)
(***************************************************************************)
EXTENDS Answers, FiniteSetsExt, SequencesExt

CONSTANTS
  PageNumbers, MAX_NUM_PAGES, MAX_ADDR, IntnMax,   \* numbers on a command line, and limits
  Displays, BoxSize,                               \* displays; 32 pixels in the source
  PciBuses,
  VariableFetches, PauseLimit,    \* a variable at two calls; 4294967294, 1000 or 12000 in the source
  NameLists, NameSize     \* how long the names of the variables are, and may be

FirstIn(numbers) == IF numbers = {} THEN 0 ELSE Min(numbers)

-------------------------------------------------------------------------------
\* The arguments behind the program's name, as the numbers xtoi makes of them: a count
\* is taken as signed, an address not.
AsIntn(n) == IF n > IntnMax THEN n - 2 * (IntnMax + 1) ELSE n
CountFits(n) == AsIntn(n) \in 0 .. MAX_NUM_PAGES

AllocPages(argv) ==
  IF Len(argv) \notin 3 .. 4 THEN [status |-> "success", call |-> << >>]
  ELSE IF argv[1] \in 0 .. 2 /\ argv[2] \in 0 .. 13 /\ CountFits(argv[3])
          /\ (Len(argv) = 4 => argv[4] <= MAX_ADDR)
       THEN [status |-> "asked", call |-> <<argv[1], argv[2], argv[3], IF Len(argv) = 4 THEN argv[4] ELSE 0>>]
       ELSE [status |-> "invalid parameter", call |-> << >>]

\* Every mistake of the command line is a success.
FreePages(argv) ==
  IF Len(argv) = 2 /\ argv[1] <= MAX_ADDR /\ CountFits(argv[2])
  THEN [status |-> "asked", call |-> argv]
  ELSE [status |-> "success", call |-> << >>]

-------------------------------------------------------------------------------
(***************************************************************************)
(* A display: gop says whether the firmware has the protocol, and Mode     *)
(* whether that has one; of each mode there is information, or an error,   *)
(* << >>.  A pixel is its four bytes in memory.                            *)
(***************************************************************************)
\* QueryMode, with the SetMode that starts a display which is not started.
Query(display, i) == IF display.started \/ display.startable THEN display.modes[i] ELSE << >>

IsActive(display, i) == Query(display, i) = <<display.Info>>
\* The first mode that is like the active one; 0 is none.
ActiveMode(display) == FirstIn({i \in DOMAIN display.modes : IsActive(display, i)})

\* The colours of fill_boxes by the pixels' format: be32_to_cpu, in a little-endian
\* processor's memory, and the masks of a display that has them.
Red(info) ==
  CASE info.PixelFormat = "RGBR" -> <<255, 0, 0, 0>>
    [] info.PixelFormat = "BGRR" -> <<0, 0, 255, 0>>
    [] info.PixelFormat = "BitMask" -> info.RedMask
Green(info) == IF info.PixelFormat = "BitMask" THEN info.GreenMask ELSE <<0, 255, 0, 0>>

\* The colour changes at each box's edge, and begins anew in each row.
fill_boxes(Width, Height, Pitch, red, green) ==
  [at \in {y * Pitch + x : x \in 0 .. Width - 1, y \in 0 .. Height - 1} |->
     LET y == at \div Pitch
         x == at % Pitch
         changes == Cardinality({n \in 1 .. x : n % BoxSize = 0})
     IN  IF ((y \div BoxSize) + changes) % 2 = 0 THEN red ELSE green]

\* lfbgrid's draw_boxes: what it copies to the frame buffer's start, of pixels that were
\* filled and of those that were not, << >>: between the rows, and all of them where the
\* format is none it knows.
lfb_boxes(display) ==
  LET info == display.Info
      BufferSize == info.VerticalResolution * info.PixelsPerScanLine
      filled == IF info.PixelFormat = "?" THEN << >>
                ELSE fill_boxes(info.HorizontalResolution, info.VerticalResolution, info.PixelsPerScanLine,
                                Red(info), Green(info))
  IN  IF ~display.Mode \/ ActiveMode(display) = 0 \/ ~display.memory \/ info.PixelFormat = "BltOnly"
      THEN << >>
      ELSE [at \in 0 .. Min({BufferSize, display.FrameBufferSize}) - 1 |->
              IF at \in DOMAIN filled THEN filled[at] ELSE << >>]

\* bltgrid's: its rows have no gaps, its pixels one format, and the firmware puts them
\* into the frame buffer's.
BltRed == <<0, 0, 255, 0>>
BltGreen == <<0, 255, 0, 0>>
blt_boxes(display) ==
  LET info == display.Info
  IN  IF ~display.Mode \/ ActiveMode(display) = 0 \/ ~display.memory THEN << >>
      ELSE fill_boxes(info.HorizontalResolution, info.VerticalResolution, info.HorizontalResolution,
                      BltRed, BltGreen)

\* modelist's print_modes: the modes that can be asked for, and which of them is marked.
print_modes(display) ==
  LET imax == IF display.Mode THEN Len(display.modes) ELSE 1
      shown == SelectSeq([i \in 1 .. imax |-> i], LAMBDA i : Query(display, i) # << >>)
  IN  [n \in DOMAIN shown |->
         [mode |-> shown[n], marked |-> display.Mode /\ IsActive(display, shown[n])]]

\* The three programs' efi_main: ten seconds, the protocol, the work, and no more watchdog.
graphics_main(display, does) ==
  IF display.gop = "found" THEN [does |-> does, watchdog |-> 0]
  ELSE [does |-> << >>, watchdog |-> 10]
lfbgrid(display) == graphics_main(display, lfb_boxes(display))
bltgrid(display) == graphics_main(display, blt_boxes(display))
modelist(display) == graphics_main(display, print_modes(display))

-------------------------------------------------------------------------------
\* route80h: a bus is what its handles answer with, as LibLocateHandle lists them.
Intel == \H8086
LpcInterfaces == <<\H3A16, \H1C56>>
find_pci_device(bus, device) ==
  FirstIn({n \in DOMAIN bus.handles : bus.handles[n].opens /\ bus.handles[n].vendor = Intel
                                        /\ bus.handles[n].device = device})

\* The device found of the last interface of the list is the one that counts: the loop
\* goes on behind one that was found.
route80h(bus) ==
  LET pciio == find_pci_device(bus, LpcInterfaces[Len(LpcInterfaces)])
      rcba == bus.handles[pciio].rcba
  IN  IF pciio = 0 THEN [status |-> "not found", sets |-> << >>]
      ELSE IF rcba = << >> THEN [status |-> "error", sets |-> << >>]
      ELSE IF rcba[1] % 2 = 0 THEN [status |-> "unsupported", sets |-> << >>]
      ELSE [status |-> "success", sets |-> <<rcba[1] - 1 + \H3410, 2>>]

-------------------------------------------------------------------------------
\* debughook: a variable's size, or << >>, at the call for its size and at the one for
\* its data, and how often the processor pauses.
GetVariableAttr(v) ==
  IF v.first = << >> THEN "not found"
  ELSE IF ~v.memory THEN "out of resources"
  ELSE IF v.second = << >> THEN "not found"
  ELSE IF v.second[1] > v.first[1] THEN "buffer too small" ELSE "success"

DebugHook(v) == IF GetVariableAttr(v) = "success" THEN Cardinality(2 .. PauseLimit) ELSE 0

\* printenv: one that does not fit ends the list.
printenv(names) ==
  LET long == {n \in DOMAIN names : names[n] > NameSize}
  IN  IF long = {} THEN names ELSE SubSeq(names, 1, Min(long) - 1)

-------------------------------------------------------------------------------
\* setdbg and unsetdbg: the names of the variables there are, with SetVariable as it is or
\* failing; a value of no bytes deletes, what is not there too.  Both return success.
WithVariable(names, name, DataSize, works) ==
  CASE ~works -> names
    [] works /\ DataSize = 0 -> names \ {name}
    [] works /\ DataSize # 0 -> names \union {name}
setdbg(names, works) == WithVariable(names, "GRUB_ENV", 1024, works)
unsetdbg(names, works) == WithVariable(names, "SHIM_DEBUG", 0, works)

\* The image's protocol: HandleProtocol's status and the pointer that is left, << >> for
\* NULL; t3's is not initialised, and not looked at after an error.  reads: the pointers
\* whose fields are shown.  t3 sets the library's kind of memory, whatever it was.
t3(image) ==
  LET found == image.status = "success"
  IN  [status |-> IF ~found THEN image.status ELSE IF image.li = << >> THEN "unsupported" ELSE "success",
       reads |-> IF found /\ image.li # << >> THEN {image.li} ELSE {},
       PoolAllocationType |-> "EfiLoaderData"]
t6(image) == [status |-> "success", reads |-> {image.li}]

-------------------------------------------------------------------------------
run_program ==
  \/ \E count \in 2 .. 5 : \E argv \in [1 .. count -> PageNumbers] :
       Answers("AllocPages", argv, AllocPages(argv))
  \/ \E display \in Displays :
       Answers("display", display,
               [lfbgrid |-> lfbgrid(display), bltgrid |-> bltgrid(display), modelist |-> modelist(display)])
  \/ \E bus \in PciBuses : Answers("route80h", bus, route80h(bus))
  \/ \E v \in VariableFetches : Answers("debughook", v, DebugHook(v))
  \/ \E names \in NameLists : Answers("printenv", names, printenv(names))
  \/ \E names \in SUBSET {"GRUB_ENV", "SHIM_DEBUG"}, works, works_later \in BOOLEAN :
       Answers("debug variables", [names |-> names, works |-> works, works_later |-> works_later],
               unsetdbg(setdbg(names, works), works_later))
  \/ \E image \in [status : {"success", "error"}, li : {<< >>, <<"image">>}] :
       /\ image.status = "error" => image.li = << >>
       /\ Answers("own image", image, [t3 |-> t3(image), t6 |-> t6(image)])

\* In the frame buffer there is, of as much as it has room for, red and green in boxes, by
\* the meaning that the display's format gives a pixel's bytes, and by the firmware's for
\* the other program; both show the same.
SamePicture(display, lfb, blt) ==
  \A x \in 0 .. display.Info.HorizontalResolution - 1, y \in 0 .. display.Info.VerticalResolution - 1 :
    LET even == ((x \div BoxSize) + (y \div BoxSize)) % 2 = 0
        at == y * display.Info.PixelsPerScanLine + x
    IN  /\ blt[y * display.Info.HorizontalResolution + x] = IF even THEN BltRed ELSE BltGreen
        /\ at < display.FrameBufferSize => lfb[at] = IF even THEN Red(display.Info) ELSE Green(display.Info)

\* What AllocPages may ask the firmware for, FreePages can give back.  A program that
\* finds a display leaves no watchdog behind, however far it comes; the two grids are the
\* same picture, inside the frame buffer, and drawn in the mode that modelist marks
\* first.  A chipset's bit is set only where the last device of route80h's list answers,
\* and at an address without the flag that enables it: where only the first is, nothing
\* is set.  A boot is held up for a debugger only if the variable was there all the time.
\* unsetdbg deletes a variable that setdbg does not set, and leaves the one it does.  t3
\* reads its image's protocol only if it has one; t6 reads NULL if it has none.
ProgramsServe ==
  LET in == answer.in
      out == answer.out
  IN  CASE answer.of = "AllocPages" ->
             out.call # << >> =>
               \A address \in {n \in PageNumbers : n <= MAX_ADDR} :
                 FreePages(<<address, out.call[3]>>).call = <<address, out.call[3]>>
        [] answer.of = "display" ->
             /\ in.gop = "found" => \A name \in DOMAIN out : out[name].watchdog = 0
             /\ DOMAIN out.lfbgrid.does \subseteq 0 .. in.FrameBufferSize - 1
             /\ out.bltgrid.does # << >> =>
                  LET modes == out.modelist.does
                      marked == {n \in DOMAIN modes : modes[n].marked}
                  IN  marked # {} /\ modes[Min(marked)].mode = ActiveMode(in)
             /\ out.lfbgrid.does # << >> /\ in.Info.PixelFormat # "?" =>
                  SamePicture(in, out.lfbgrid.does, out.bltgrid.does)
        [] answer.of = "route80h" ->
             out.sets # << >> =>
               /\ out.sets[1] % 2 = 0 /\ out.sets[2] = 2
               /\ \E n \in DOMAIN in.handles : /\ in.handles[n].device = Last(LpcInterfaces)
                                              /\ in.handles[n].rcba = <<out.sets[1] - \H3410 + 1>>
        [] answer.of = "debughook" ->
             out # 0 => in.first # << >> /\ in.second # << >> /\ in.second[1] <= in.first[1]
        [] answer.of = "printenv" ->
             \A n \in DOMAIN in : (\A k \in 1 .. n : in[k] <= NameSize) => n <= Len(out) /\ out[n] = in[n]
        [] answer.of = "debug variables" ->
             /\ "GRUB_ENV" \in out <=> "GRUB_ENV" \in in.names \/ in.works
             /\ "SHIM_DEBUG" \in out <=> "SHIM_DEBUG" \in in.names /\ ~in.works_later
        [] answer.of = "own image" ->
             /\ out.t3.reads = IF out.t3.status = "success" THEN {<<"image">>} ELSE {}
             /\ << >> \in out.t6.reads <=> out.t3.status # "success"
        [] OTHER -> TRUE
===============================================================================
