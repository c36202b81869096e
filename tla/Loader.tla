-------------------------------- MODULE Loader --------------------------------
(***************************************************************************)
(* The boot loader: efi_main and the functions it calls                    *)
(* (gnu-efi/bootloader/main.c), over the firmware's boot services as it    *)
(* uses them.                                                              *)
(*                                                                         *)
(* The firmware's memory is a function from frames to types; frames it     *)
(* does not describe are not in its domain.  Every call the loader makes   *)
(* can fail where the firmware may refuse it, and between two calls a      *)
(* timer event of the firmware may take or give back memory, which makes   *)
(* the key of an earlier memory map stale.  Where the code goes on with    *)
(* a pointer nobody set, the behaviour ends with status "lost".            *)
(***************************************************************************)
EXTENDS Integers, Sequences, FiniteSetsExt

CONSTANTS
  Machines,      \* what the firmware and the disk may hold
  Segments,      \* kernel.elf's PT_LOAD headers: frame, frames in memory, in file
  MaxFailures,   \* bound: firmware calls that are refused
  MaxEvents,     \* bound: timer events that change the memory map
  MaxPool        \* bound: frames the pool takes for the loader

\* The memory of a machine: finitely many frames.
ASSUME MachinesAssumption ==
  \A m \in Machines : DOMAIN m.types \subseteq Nat /\ IsFiniteSet(DOMAIN m.types)

ASSUME SegmentsAssumption == Segments \in Seq([frame : Nat, mem : Nat, file : Nat])

VARIABLES
  machine,       \* the machine this boot runs on: never changes
  lpc,           \* the next call of efi_main
  types,         \* the firmware's memory map
  key,           \* its current key
  seg,           \* p_header: the next program header
  image,         \* frames the kernel's segments were read into
  pool,          \* frames of pool memory the loader allocated
  map_size,      \* what the last GetMemoryMap said, in descriptors
  map_room,      \* descriptors the allocated map has room for; 0 if map is NULL
  map,           \* what *map holds: a memory map, or << >> for garbage
  map_key,       \* the key GetMemoryMap gave with it
  font,          \* new_font # NULL
  gop,           \* new_framebuffer # NULL
  rsdp,          \* which table rsdp points to, or "none"
  exited,        \* ExitBootServices returned success
  status,        \* "loading", "kernel", "lost"
  failures, events,
  late           \* history: an event came after the map was read

loader_vars == <<machine, lpc, types, key, seg, image, pool, map_size, map_room,
                 map, map_key, font, gop, rsdp, exited, failures, events, late>>

Frames(t) == {f \in DOMAIN types : types[f] = t}

\* Descriptors of a memory map: the maximal runs of frames of one type.
RunStarts(m) == {f \in DOMAIN m : ~(f - 1 \in DOMAIN m /\ m[f - 1] = m[f])}
Descriptors(m) == Cardinality(RunStarts(m))

LoaderInit ==
  /\ machine \in Machines
  /\ lpc = "open_kernel" /\ status = "loading"
  /\ types = machine.types /\ key = 0
  /\ seg = 1 /\ image = {} /\ pool = {}
  /\ map_size = 0 /\ map_room = 0 /\ map = << >> /\ map_key = 0
  /\ font = FALSE /\ gop = FALSE /\ rsdp = "none" /\ exited = FALSE
  /\ failures = 0 /\ events = 0 /\ late = FALSE

-------------------------------------------------------------------------------
(***************************************************************************)
(* The firmware.                                                           *)
(***************************************************************************)
Refuse == failures < MaxFailures /\ failures' = failures + 1

\* AllocatePool(EfiLoaderData, ...): from a frame the pool has, or from one more.
PoolServed ==
  /\ UNCHANGED failures
  /\ \/ pool # {} /\ UNCHANGED <<types, key, pool>>
     \/ /\ Frames("conventional") # {} /\ Cardinality(pool) < MaxPool
        /\ LET f == Max(Frames("conventional"))
           IN  /\ types' = [types EXCEPT ![f] = "loader"]
               /\ pool' = pool \union {f}
        /\ key' = key + 1

PoolRefused == Refuse /\ UNCHANGED <<types, key, pool>>

\* A timer event of the firmware allocates a frame, or frees one it allocated.
firmware_event ==
  /\ status = "loading" /\ ~exited /\ events < MaxEvents
  /\ \/ /\ Frames("conventional") # {}
        /\ types' = [types EXCEPT ![Max(Frames("conventional"))] = "event"]
     \/ \E f \in Frames("event") : types' = [types EXCEPT ![f] = "conventional"]
  /\ key' = key + 1 /\ events' = events + 1
  /\ late' = (lpc \in {"find_rsdp", "exit_boot_services"})
  /\ UNCHANGED <<machine, lpc, seg, image, pool, map_size, map_room, map, map_key,
                 font, gop, rsdp, exited, status, failures>>

Goto(here, there) ==
  lpc = here /\ lpc' = there /\ status = "loading" /\ UNCHANGED <<machine, exited, events, late>>

file_vars == <<seg, image>>
map_vars == <<map_size, map_room, map, map_key>>
info_vars == <<font, gop, rsdp>>

-------------------------------------------------------------------------------
(***************************************************************************)
(* efi_main.                                                               *)
(***************************************************************************)
\* load_file(NULL, L"kernel.elf", ...): a NULL is printed about, and used by
\* the next statement.
open_kernel ==
  /\ Goto("open_kernel", "read_header")
  /\ \/ machine.kernel # "absent" /\ UNCHANGED <<failures, status>>
     \/ machine.kernel = "absent" /\ UNCHANGED failures /\ status' = "lost"
     \/ Refuse /\ status' = "lost"
  /\ UNCHANGED <<types, key, pool, file_vars, map_vars, info_vars>>

\* The file information goes to the address of the pointer instead of where it
\* points: what lies behind it on the stack may or may not be needed any more.
\* The memory allocated for it is never used, so a refusal does not matter.
read_header ==
  /\ Goto("read_header", "read_program_headers")
  /\ PoolServed \/ PoolRefused
  /\ status' \in {status, "lost"}
  /\ UNCHANGED <<file_vars, map_vars, info_vars>>

\* The header's check only prints.  The headers are read into memory that may
\* not have been allocated.
read_program_headers ==
  /\ Goto("read_program_headers", "load_segment")
  /\ \/ PoolServed /\ UNCHANGED status
     \/ PoolRefused /\ status' = "lost"
  /\ UNCHANGED <<file_vars, map_vars, info_vars>>

\* The program headers of a file that is no kernel name nothing to load.
program_headers == IF machine.kernel = "good" THEN Segments ELSE << >>

\* int pages = (p_memsz + 0x1000 - 1) / 0x1000, from p_paddr.
pages(s) == s.frame .. s.frame + s.mem - 1

\* One PT_LOAD: AllocatePages at p_paddr succeeds if the whole range is
\* conventional memory; its status is not looked at, and p_filesz bytes are
\* read to p_paddr in any case.
load_segment ==
  /\ seg <= Len(program_headers)
  /\ Goto("load_segment", "load_segment")
  /\ LET s == program_headers[seg]
         free == pages(s) \subseteq Frames("conventional")
     IN  /\ IF free
            THEN /\ types' = [f \in DOMAIN types |->
                                IF f \in pages(s) THEN "loader" ELSE types[f]]
                 /\ key' = key + 1
            ELSE UNCHANGED <<types, key>>
         /\ image' = image \union s.frame .. s.frame + s.file - 1
         \* Reading over firmware that is in use is the end of it.
         /\ IF image' \subseteq Frames("conventional") \union Frames("loader")
            THEN UNCHANGED status ELSE status' = "lost"
  /\ seg' = seg + 1
  /\ UNCHANGED <<pool, map_vars, info_vars, failures>>

segments_done ==
  /\ seg > Len(program_headers)
  /\ Goto("load_segment", "load_font")
  /\ UNCHANGED <<types, key, pool, file_vars, map_vars, info_vars, status, failures>>

\* load_psf1_font, up to the header: no file gives NULL, and main goes on.  The
\* header is read into memory that may not have been allocated.
load_font ==
  /\ \/ /\ machine.font = "absent"
        /\ Goto("load_font", "init_gop")
        /\ UNCHANGED <<types, key, pool, status, failures>>
     \/ /\ machine.font # "absent"
        /\ Goto("load_font", "check_font")
        /\ \/ PoolServed /\ UNCHANGED status
           \/ PoolRefused /\ status' = "lost"
  /\ UNCHANGED <<file_vars, map_vars, info_vars>>

\* A wrong magic number gives NULL; otherwise the glyphs are read, again into
\* memory that may not be there.
check_font ==
  /\ \/ /\ machine.font = "bad"
        /\ Goto("check_font", "init_gop")
        /\ UNCHANGED <<types, key, pool, status, failures>>
     \/ /\ machine.font = "good"
        /\ Goto("check_font", "final_font")
        /\ \/ PoolServed /\ UNCHANGED status
           \/ PoolRefused /\ status' = "lost"
  /\ UNCHANGED <<file_vars, map_vars, info_vars>>

final_font ==
  /\ Goto("final_font", "init_gop")
  /\ \/ PoolServed /\ font' = TRUE /\ UNCHANGED status
     \/ PoolRefused /\ status' = "lost" /\ UNCHANGED font
  /\ UNCHANGED <<file_vars, map_vars, gop, rsdp>>

\* init_gop: a NULL is printed about through the NULL, and passed on.
init_gop ==
  /\ Goto("init_gop", "get_map_size")
  /\ \/ gop' = TRUE /\ UNCHANGED failures
     \/ Refuse /\ UNCHANGED gop
  /\ UNCHANGED <<types, key, pool, file_vars, map_vars, font, rsdp, status>>

\* GetMemoryMap with a NULL buffer: it fails, but says how much there is.
get_map_size ==
  /\ Goto("get_map_size", "allocate_map")
  /\ map_size' = Descriptors(types) /\ map_key' = key
  /\ UNCHANGED <<types, key, pool, file_vars, map_room, map, info_vars, status, failures>>

allocate_map ==
  /\ Goto("allocate_map", "get_map")
  /\ \/ PoolServed /\ map_room' = map_size
     \/ PoolRefused /\ UNCHANGED map_room
  /\ UNCHANGED <<file_vars, map_size, map, map_key, info_vars, status>>

\* A mutation: the key is the one that came with the size.
renewed_key_Never == map_key
renewed_key == key

\* GetMemoryMap again.  With no room for what the map has become it fails and
\* leaves the buffer as it is; size and key are set in either case.
get_map ==
  /\ Goto("get_map", "find_rsdp")
  /\ map_size' = Descriptors(types) /\ map_key' = renewed_key
  /\ map' = IF map_size' <= map_room THEN types ELSE << >>
  /\ UNCHANGED <<types, key, pool, file_vars, map_room, info_vars, status, failures>>

\* The entries the loop accepts.  It indexes a pointer that it also advances,
\* so entry i (from 0) is taken on the GUID of entry 2i, and CompareGuid is 0
\* for equal ones: a GUID other than ACPI 2.0's is what it wants.  Entries
\* beyond the table are taken not to be ACPI 2.0's.
accepted(config) ==
  {i \in 0 .. Len(config) - 1 :
     /\ 2 * i < Len(config) => config[2 * i + 1] # "acpi2"
     /\ config[i + 1] \in {"acpi1", "acpi2"}}    \* "RSD PTR " in both

find_rsdp ==
  /\ Goto("find_rsdp", "exit_boot_services")
  /\ rsdp' = IF accepted(machine.config) = {} THEN "none"
             ELSE machine.config[Max(accepted(machine.config)) + 1]
  /\ UNCHANGED <<types, key, pool, file_vars, map_vars, font, gop, status, failures>>

\* ExitBootServices succeeds with the current key only; its status is not
\* looked at.  With a file that is no kernel the entry point is garbage.  The
\* loader's locals are dead from here on, but for what boot_info holds.
exit_boot_services ==
  /\ lpc = "exit_boot_services" /\ lpc' = "done" /\ status = "loading"
  /\ exited' = (map_key = key)
  /\ status' = IF machine.kernel = "good" THEN "kernel" ELSE "lost"
  /\ key' = 0 /\ map_key' = 0 /\ map_size' = 0 /\ map_room' = 0
  /\ failures' = 0 /\ events' = 0
  /\ UNCHANGED <<machine, types, pool, file_vars, map, info_vars, late>>

efi_main ==
  \/ open_kernel \/ read_header \/ read_program_headers
  \/ load_segment \/ segments_done
  \/ load_font \/ check_font \/ final_font \/ init_gop
  \/ get_map_size \/ allocate_map \/ get_map
  \/ find_rsdp \/ exit_boot_services

===============================================================================
