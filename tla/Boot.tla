--------------------------------- MODULE Boot ---------------------------------
(***************************************************************************)
(* From power-on to sti: the loader, then init_kernel                      *)
(* (kernel/src/kernel_util.cpp) on the map and the pointers the loader     *)
(* left, with the frame allocator, the page tables, find_table (acpi.cpp)  *)
(* and the walk over PCI (pci.cpp).                                        *)
(*                                                                         *)
(* The kernel's part is sequential, with interrupts of no concern to it:   *)
(* phase names the statement it is at, and a call of map_mem takes the     *)
(* steps of PageTableManager.  status ends as "running"; as "fault", when  *)
(* memory is touched that the new tables do not map (there is no IDT yet,  *)
(* the machine resets); or as "lost", when the code goes on with what      *)
(* nobody set.                                                             *)
(***************************************************************************)
EXTENDS PageTableManager, Loader, Functions

CONSTANTS
  InfoFrame,        \* the frame of the loader's stack that holds boot_info
  BufferBase, BufferPages,     \* the framebuffer
  HeapBase, HeapPages,         \* 0x0000100000000000 and 16
  DevicesPerBus, FunctionsPerDevice    \* 32 and 8

\* The descriptors of the ECAM areas, and the functions there are, by area, bus,
\* device and number.
ASSUME PciAssumption ==
  /\ DevicesPerBus \in Nat /\ FunctionsPerDevice \in Nat
  /\ \A m \in Machines :
       /\ m.mcfg \in Seq([base : Nat, start_bus : Nat, end_bus : Nat])
       /\ m.functions \subseteq (1 .. Len(m.mcfg)) \X Nat \X (0 .. DevicesPerBus - 1)
                                                     \X (0 .. FunctionsPerDevice - 1)

VARIABLES
  phase,            \* the next statement of the kernel
  i,                \* the loop's counter
  cr3,              \* the tables are in use
  heap,             \* frames mapped for the heap, in order
  idt,              \* the frame of the IDT, once there is one
  entry_no, bus, device, function,   \* where the walk over PCI is
  listed            \* functions printed so far

pci_vars == <<entry_no, bus, device, function, listed>>
boot_vars == <<phase, i, cr3, heap, idt, pci_vars>>
kernel_vars == <<all_vars, boot_vars>>
everything == <<loader_vars, status, kernel_vars>>

BootInit ==
  /\ LoaderInit
  /\ mem_map = << >> /\ initialized = FALSE
  /\ size = 0 /\ buffer = NULL /\ bits = {} /\ page_bitmap_index = 0
  /\ free_memory = 0 /\ reserved_memory = 0 /\ used_memory = 0
  /\ returned = NULL /\ owned = {} /\ pinned = {} /\ stray = 0
  /\ pml4_addr = Absent /\ tables = << >> /\ walk = {} /\ starved = FALSE
  /\ phase = "off" /\ i = 0 /\ cr3 = FALSE /\ heap = << >> /\ idt = Absent
  /\ entry_no = 0 /\ bus = 0 /\ device = 0 /\ function = 0 /\ listed = << >>

-------------------------------------------------------------------------------
(***************************************************************************)
(* Steps of the kernel.                                                    *)
(***************************************************************************)
\* The kernel is at a statement, and no call of map_mem is under way.
At(p) ==
  /\ status = "kernel" /\ phase = p /\ walk = {} /\ ~starved
  /\ UNCHANGED loader_vars

Then(p) == phase' = p /\ UNCHANGED status
Ends(s) == status' = s /\ UNCHANGED kernel_vars

\* Once the tables are in use, a statement that touches frames by their
\* physical address faults unless each of them is mapped to itself.
Touches(S) == cr3 => \A f \in S : translate(f) = f

\* _kernel_start and _kernel_end, .bss included.
Image ==
  UNION {Segments[n].frame .. Segments[n].frame + Segments[n].mem - 1 : n \in DOMAIN Segments}
kernel_start == Min(Image)
kernel_pages == Max(Image) - Min(Image) + 1

\* A frame's memory is not zeroed by the loader beyond what the file holds: a
\* kernel whose .bss is not zero has an allocator that may think itself ready.
bss_is_dirty ==
  machine.dirty /\ \E n \in DOMAIN Segments : Segments[n].file < Segments[n].mem

\* The descriptors in the order of their addresses.
descriptors ==
  LET starts == RunStarts(map)
      end(f) == Max({g \in DOMAIN map : \A h \in f .. g : h \in DOMAIN map /\ map[h] = map[f]})
      all == {[type |-> IF map[f] = "conventional" THEN EfiConventionalMemory ELSE 0,
               phys_addr |-> f, num_pages |-> end(f) - f + 1] : f \in starts}
  IN  [n \in 1 .. Cardinality(starts) |->
         CHOOSE d \in all : Cardinality({f \in starts : f <= d.phys_addr}) = n]

\* init_kernel: renderer and GDT are set, nothing is drawn yet.
start ==
  /\ status = "kernel" /\ phase = "off" /\ UNCHANGED loader_vars
  /\ mem_map' = descriptors
  /\ phase' = "read_map"
  /\ status' \in {status} \union IF bss_is_dirty THEN {"lost"} ELSE {}
  /\ UNCHANGED <<initialized, size, buffer, stray, bits, page_bitmap_index, counters,
                 returned, owned, pinned, ptm_vars, i, cr3, heap, idt, pci_vars>>

\* prepare_mem, up to the tables.  A map that was never read is garbage.
read_map ==
  /\ At("read_map")
  /\ IF mem_map = << >>
     THEN Ends("lost")
     ELSE /\ read_efi_memory_map /\ Then("lock_kernel")
          /\ UNCHANGED <<ptm_vars, i, cr3, heap, idt, pci_vars>>

lock_kernel ==
  /\ At("lock_kernel") /\ Then("new_tables")
  /\ lock_pages(kernel_start, kernel_pages)
  /\ UNCHANGED <<ptm_vars, i, cr3, heap, idt, pci_vars>>

new_tables ==
  /\ At("new_tables") /\ Then("identity")
  /\ new_page_table_manager
  /\ UNCHANGED <<i, cr3, heap, idt, pci_vars>>

\* A mutation: the loop stops one page early.
identity_pages_Short == mem_size - 1

\* for (i = 0; i < get_memory_size(...); i += 4096): the sum of the map again.
identity_pages == mem_size

\* frame_buf_size is a page more than the buffer, and lock_pages adds another.
buffer_loop == BufferPages + 1

\* One round of a loop that maps n pages, and its end.
Round(p, n, call, after) ==
  /\ At(p)
  /\ IF i < n
     THEN call /\ i' = i + 1 /\ Then(p)
     ELSE i' = 0 /\ Then(after) /\ UNCHANGED all_vars
  /\ UNCHANGED <<cr3, idt, pci_vars>>

identity ==
  Round("identity", identity_pages, map_mem(i, i), "lock_buffer") /\ UNCHANGED heap

\* boot_info->framebuffer may be NULL: what is read there is kernel code.
lock_buffer ==
  /\ At("lock_buffer")
  /\ IF gop
     THEN /\ lock_pages(BufferBase, buffer_loop + 1) /\ Then("map_buffer")
          /\ UNCHANGED <<ptm_vars, i, cr3, heap, idt, pci_vars>>
     ELSE Ends("lost")

map_buffer ==
  /\ Round("map_buffer", buffer_loop, map_mem(BufferBase + i, BufferBase + i), "load_cr3")
  /\ UNCHANGED heap

load_cr3 ==
  /\ At("load_cr3") /\ Then("clear_buffer")
  /\ cr3' = TRUE
  /\ UNCHANGED <<all_vars, i, heap, idt, pci_vars>>

BufferFrames == BufferBase .. BufferBase + BufferPages - 1

\* The code runs on, on the loader's stack, which holds boot_info, and goes on
\* to reach its tables by their own addresses.
clear_buffer ==
  /\ At("clear_buffer")
  /\ IF Touches(Image \union {InfoFrame} \union BufferFrames \union DOMAIN tables)
     THEN Then("init_heap") /\ UNCHANGED <<all_vars, i, cr3, heap, idt, pci_vars>>
     ELSE Ends("fault")

\* map_mem(pos, request_page())
init_heap ==
  /\ Round("init_heap", HeapPages, map_mem_requested(HeapBase + i), "make_idt")
  /\ heap' = IF i < HeapPages THEN Append(heap, returned') ELSE heap

\* prepare_interrupts: five gates are written into the frame without a look at
\* it; in frame 0 they overwrite the kernel's code.
make_idt ==
  /\ At("make_idt")
  /\ request_page
  /\ idt' = returned'
  /\ phase' = "find_mcfg"
  /\ status' = IF returned' = NULL THEN "lost"
               ELSE IF Touches({returned'}) THEN status ELSE "fault"
  /\ UNCHANGED <<ptm_vars, i, cr3, heap, pci_vars>>

-------------------------------------------------------------------------------
(***************************************************************************)
(* prepare_acpi: find_table and the walk over buses, devices, functions.   *)
(***************************************************************************)
\* The first table with the signature, or NULL.
find_table(xsdt, signature) ==
  LET found == {n \in DOMAIN xsdt : xsdt[n] = signature}
  IN  IF found = {} THEN NULL ELSE Min(found)

\* rsdp->xsdt_adrr is read whatever rsdp is, and mcfg whatever find_table says.
find_mcfg ==
  /\ At("find_mcfg")
  /\ CASE rsdp # "acpi2" \/ find_table(machine.xsdt, "MCFG") = NULL -> Ends("lost")
       [] ~Touches(Frames("acpi") \union {InfoFrame}) -> Ends("fault")
       [] OTHER -> /\ Then("enumerate_pci")
                   /\ UNCHANGED <<all_vars, i, cr3, heap, idt, pci_vars>>

here == machine.mcfg[entry_no]
config_page(b, d, f) ==
  here.base + (b * DevicesPerBus + d) * FunctionsPerDevice + f
present(b, d, f) == <<entry_no, b, d, f>> \in machine.functions

\* The next descriptor of an ECAM area, or the end.
enumerate_pci ==
  /\ At("enumerate_pci")
  /\ IF entry_no < Len(machine.mcfg)
     THEN /\ entry_no' = entry_no + 1
          /\ bus' = machine.mcfg[entry_no'].start_bus
          /\ Then("bus")
     ELSE Then("unmask") /\ UNCHANGED <<entry_no, bus>>
  /\ UNCHANGED <<all_vars, i, cr3, heap, idt, device, function, listed>>

\* A mutation: the range is taken to be one bus shorter.
more_buses_Fewer == bus + 1 < here.end_bus

more_buses == bus < here.end_bus

\* The three loops, one round each: map the page, read it, go in or go on.
Mapping(page, reading) ==
  map_mem(page, page) /\ Then(reading)
  /\ UNCHANGED <<i, cr3, heap, idt, pci_vars>>

enumerate_bus ==
  \/ At("bus") /\ more_buses /\ Mapping(config_page(bus, 0, 0), "bus_header")
  \/ /\ At("bus") /\ ~more_buses /\ Then("enumerate_pci")
     /\ UNCHANGED <<all_vars, i, cr3, heap, idt, pci_vars>>

enumerate_device ==
  \/ /\ At("device") /\ device < DevicesPerBus
     /\ Mapping(config_page(bus, device, 0), "device_header")
  \/ /\ At("device") /\ device = DevicesPerBus /\ Then("bus")
     /\ bus' = bus + 1
     /\ UNCHANGED <<all_vars, i, cr3, heap, idt, entry_no, device, function, listed>>

enumerate_function ==
  \/ /\ At("function") /\ function < FunctionsPerDevice
     /\ Mapping(config_page(bus, device, function), "function_header")
  \/ /\ At("function") /\ function = FunctionsPerDevice /\ Then("device")
     /\ device' = device + 1
     /\ UNCHANGED <<all_vars, i, cr3, heap, idt, entry_no, bus, function, listed>>

\* A mutation: the loop does not count what it skips.
skipped_Not(n) == n

\* continue, with the loop's ++
skipped(n) == n + 1

\* Reading a header that says there is nothing skips all that is below it.
Reading(p, b, d, f, inner, outer) ==
  /\ At(p)
  /\ IF Touches({config_page(b, d, f)})
     THEN Then(IF present(b, d, f) THEN inner ELSE outer)
     ELSE status' = "fault" /\ UNCHANGED phase
  /\ UNCHANGED <<all_vars, i, cr3, heap, idt, entry_no>>

bus_header ==
  /\ Reading("bus_header", bus, 0, 0, "device", "bus")
  /\ device' = 0
  /\ bus' = IF phase' = "bus" THEN skipped(bus) ELSE bus
  /\ UNCHANGED <<function, listed>>

device_header ==
  /\ Reading("device_header", bus, device, 0, "function", "device")
  /\ function' = 0
  /\ device' = IF phase' = "device" THEN skipped(device) ELSE device
  /\ UNCHANGED <<bus, listed>>

\* Present or not, the next function follows; printing needs the font.
function_header ==
  /\ At("function_header")
  /\ \/ /\ font \/ ~present(bus, device, function)
        /\ Reading("function_header", bus, device, function, "function", "function")
     \/ /\ ~font /\ present(bus, device, function)
        /\ status' = "lost"
        /\ UNCHANGED <<phase, all_vars, i, cr3, heap, idt, entry_no>>
  /\ function' = function + 1
  /\ listed' = IF present(bus, device, function)
               THEN Append(listed, <<entry_no, bus, device, function>>) ELSE listed
  /\ UNCHANGED <<bus, device>>

\* The masks, then sti; start goes on to print.
unmask_and_sti ==
  /\ At("unmask")
  /\ phase' = "running" /\ status' = IF font THEN "running" ELSE "lost"
  /\ UNCHANGED <<all_vars, i, cr3, heap, idt, pci_vars>>

\* A table had to be put in frame 0: the kernel's first page is zeroed.
starve ==
  /\ status = "kernel" /\ starved /\ walk = {}
  /\ UNCHANGED loader_vars /\ Ends("lost")

kernel ==
  \/ start \/ read_map \/ lock_kernel \/ new_tables \/ identity
  \/ lock_buffer \/ map_buffer \/ load_cr3 \/ clear_buffer
  \/ init_heap \/ make_idt
  \/ find_mcfg \/ enumerate_pci \/ enumerate_bus \/ enumerate_device
  \/ enumerate_function \/ bus_header \/ device_header \/ function_header
  \/ unmask_and_sti \/ starve
  \/ status = "kernel" /\ map_step /\ UNCHANGED <<loader_vars, status, boot_vars>>

loader == (efi_main \/ firmware_event) /\ UNCHANGED kernel_vars

BootNext == loader \/ kernel

\* The processor executes the next instruction of the loader, then the kernel.
BootSpec ==
  BootInit /\ [][BootNext]_everything
           /\ WF_everything(efi_main /\ UNCHANGED kernel_vars)
           /\ WF_everything(kernel)

-------------------------------------------------------------------------------
(***************************************************************************)
(* Properties.                                                             *)
(***************************************************************************)
\* The memory the kernel goes by is the firmware's last.  Whatever is allocated
\* between main.c's calls, ExitBootServices accepts the key unless an event
\* came after the map was read, and when it does, the map the kernel has been
\* given describes what firmware and loader hold (main.c:254-292).
MapIsCurrent ==
  /\ status = "kernel" => exited = ~late
  /\ exited /\ mem_map # << >> => ConventionalFrames = Frames("conventional")

\* Frames by use.  Frame 0 stands for a request that failed.
Uses ==
  <<Image, pool, Frames("boot_services"), Frames("event"), Frames("runtime"),
    Frames("acpi"), BufferFrames,
    IF initialized THEN buffer .. buffer + size \div PageBytes ELSE {},
    DOMAIN tables, Range(heap) \ {NULL}, {idt} \ {Absent, NULL}>>

\* Loader, firmware, allocator, page tables, heap and interrupts never use one
\* frame twice, as long as the loader's segments were allocated and the boot
\* services ended: what the loader put in memory before the kernel ran is
\* still there when the kernel runs, and the kernel's own parts do not meet
\* (main.c:209-292, kernel_util.cpp:5-66, heap.cpp:7-16).
OneUsePerFrame ==
  status \in {"kernel", "running"} /\ exited /\ Image \subseteq Frames("loader") /\ ~starved
    => \A a, b \in DOMAIN Uses : a # b => Uses[a] \cap Uses[b] = {}

\* Nothing the kernel touches after it loads cr3 is unmapped, unless the memory
\* map leaves frames out and the sum of its sizes is not where memory ends
\* (kernel_util.cpp:22-37).
FaultsOnlyWithHoles ==
  status = "fault" => \E f \in DOMAIN types : f >= mem_size

\* The functions that can be found: of every bus but the last, if its device 0
\* has a function 0, every function of every device that has a function 0.
Findable ==
  {a \in machine.functions :
     LET e == machine.mcfg[a[1]]
     IN  /\ a[2] \in e.start_bus .. e.end_bus - 1
         /\ <<a[1], a[2], 0, 0>> \in machine.functions
         /\ <<a[1], a[2], a[3], 0>> \in machine.functions}

\* The walk lists each of them exactly once (pci.cpp:5-77).
ListsFunctions ==
  status = "running" => Range(listed) = Findable /\ IsInjective(listed)

\* Whatever the firmware refuses, the boot comes to an end: the kernel runs, or
\* the machine is in one of the two states nobody gets it out of.
BootEnds == <>(status \in {"running", "fault", "lost"})
===============================================================================
