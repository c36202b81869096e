-------------------------- MODULE PageFrameAllocator --------------------------
(***************************************************************************)
(* The physical page-frame allocator: class PageFrameAllocator             *)
(* (kernel/src/paging/page_frame_allocator.cpp), the Bitmap it keeps       *)
(* (kernel/src/bitmap.cpp) and the size of memory it starts from           *)
(* (kernel/src/memory.cpp).                                                *)
(*                                                                         *)
(* Addresses are frame numbers (address / 4096): every address the kernel  *)
(* passes here is page aligned.  The bitmap is the set of indices whose    *)
(* bit is 1.  The allocator runs with interrupts off during boot, and no   *)
(* interrupt handler calls it, so one call is one step.                    *)
(***************************************************************************)
EXTENDS Integers, Sequences, FiniteSetsExt

CONSTANTS
  BitsPerByte,    \* 8: bits in a byte of the bitmap
  PageBytes,      \* 4096: bytes of bitmap in a frame
  BiosFrames,     \* 0x100: frames reserved for the BIOS
  IntFrames,      \* 2^19: the i at which the int i * 4096 turns negative
  CounterMod,     \* 2^52: the uint64_t byte counters, counted in frames
  MemMaps,        \* the memory maps the firmware may pass
  LockRanges,     \* the <<addr, page_count>> that callers lock
  MaxRun          \* bound: frames in one free_pages call

EfiConventionalMemory == 7
NULL == 0

\* Indices of the descriptors read_efi_memory_map looks at twice.
Conventional(map) == {i \in DOMAIN map : map[i].type = EfiConventionalMemory}

\* Size of memory in frames: the sum over the map, not its highest address.
get_memory_size(map) ==
  MapThenSumSet(LAMBDA i : map[i].num_pages, DOMAIN map)

\* The first of the longest conventional segments, which will hold the bitmap;
\* NULL when no conventional segment has a frame.
largest_free_mem_seg(map) ==
  LET longest == {i \in Conventional(map) :
                    /\ map[i].num_pages > 0
                    /\ \A j \in Conventional(map) :
                         map[j].num_pages <= map[i].num_pages}
  IN  IF longest = {} THEN NULL ELSE map[Min(longest)].phys_addr

\* Bytes of the bitmap for a memory of n frames.
bitmap_size(n) == n \div BitsPerByte + 1

ASSUME ConstantsAssumption ==
  /\ {BitsPerByte, PageBytes, BiosFrames, IntFrames, CounterMod} \subseteq Nat \ {0}
  /\ MaxRun \in 0 .. IntFrames    \* no caller frees 2 GiB in one call
  /\ LockRanges \subseteq Nat \X Nat

ASSUME MemMapsAssumption ==
  \A map \in MemMaps :
    /\ DOMAIN map \subseteq Nat
    /\ \A i \in DOMAIN map : map[i].phys_addr \in Nat /\ map[i].num_pages \in Nat
    /\ get_memory_size(map) \in Nat

VARIABLES
  mem_map,            \* the map of this boot: never changes
  initialized,        \* read_efi_memory_map has run
  size,               \* page_bitmap.size, in bytes
  buffer,             \* page_bitmap.buffer, as a frame number
  bits,               \* indices whose bit in the bitmap is 1
  page_bitmap_index,  \* where request_page resumes its scan
  free_memory, reserved_memory, used_memory,
  returned,           \* what the last request_page returned
  \* History, read by properties only:
  owned,              \* frames handed out by request_page and not freed
  pinned,             \* indices whose bit lock_pages set
  stray               \* 1 if the bit one past the bitmap happened to be set

counters == <<free_memory, reserved_memory, used_memory>>
geometry == <<mem_map, initialized, size, buffer, stray>>
vars == <<geometry, bits, page_bitmap_index, counters, returned, owned, pinned>>

-------------------------------------------------------------------------------
Wrap(n) == n % CounterMod

\* The byte offset i * 4096 of the range loops, in frames: i is an int, so the
\* product wraps at 2^31.
IntOffset(i) == ((i + IntFrames) % (2 * IntFrames)) - IntFrames

\* The indices a loop over page_count frames from addr really tests and sets.
\* operator[] and set refuse only index > size * 8, so one bit beyond the
\* bitmap is accepted; a negative sum is a huge uint64_t and is refused.
Reached(addr, page_count, bytes) ==
  {addr + IntOffset(i) : i \in 0 .. page_count - 1} \cap 0 .. bytes * BitsPerByte

\* A mutation: lock_page and reserve_page without their early return.
newly_set_Always(range, marked) == range

\* The bits a loop of lock_page or reserve_page sets, and counts: a bit that is
\* already 1 returns early, whoever set it.
newly_set(range, marked) == range \ marked

\* A mutation: the BIOS frames are not taken back.
bios_pages_None(bytes) == {}

\* reserve_pages(0, 0x100)
bios_pages(bytes) == Reached(0, BiosFrames, bytes)

\* A mutation: the bitmap's last, partly used frame is not locked.
bitmap_pages_Short(buf, bytes) == Reached(buf, bytes \div PageBytes, bytes)

\* lock_pages(page_bitmap.buffer, page_bitmap.size / 4096 + 1)
bitmap_pages(buf, bytes) == Reached(buf, bytes \div PageBytes + 1, bytes)

Init ==
  /\ mem_map \in MemMaps
  /\ initialized = FALSE
  /\ size = 0 /\ buffer = NULL /\ bits = {} /\ page_bitmap_index = 0
  /\ free_memory = 0 /\ reserved_memory = 0 /\ used_memory = 0
  /\ returned = NULL
  /\ owned = {} /\ pinned = {} /\ stray = 0

(***************************************************************************)
(* read_efi_memory_map: find room for the bitmap, reserve everything,      *)
(* give back conventional memory, reserve the BIOS frames, lock the        *)
(* bitmap's own frames.  The byte after the bitmap is not cleared by       *)
(* init_bitmap, so the bit one past the end starts with whatever it holds. *)
(***************************************************************************)
read_efi_memory_map ==
  LET n      == get_memory_size(mem_map)
      bytes  == bitmap_size(n)
      buf    == largest_free_mem_seg(mem_map)
      usable == UNION {Reached(mem_map[i].phys_addr, mem_map[i].num_pages, bytes) :
                         i \in Conventional(mem_map)}
  IN
  /\ ~initialized
  /\ initialized' = TRUE
  /\ size' = bytes /\ buffer' = buf
  /\ \E garbage \in SUBSET {bytes * BitsPerByte} :
       LET all      == newly_set(Reached(0, n + 1, bytes), garbage)
           returns  == usable \cap (garbage \union all)
           rest     == (garbage \union all) \ returns
           bios     == newly_set(bios_pages(bytes), rest)
           own      == newly_set(bitmap_pages(buf, bytes), rest \union bios)
           reserved == Cardinality(all) - Cardinality(returns) + Cardinality(bios)
       IN  /\ stray' = Cardinality(garbage)
           /\ bits' = rest \union bios \union own
           /\ pinned' = own
           /\ used_memory' = Wrap(Cardinality(own))
           /\ reserved_memory' = Wrap(reserved)
           /\ free_memory' = Wrap(n - reserved - Cardinality(own))
  /\ UNCHANGED <<mem_map, page_bitmap_index, returned, owned>>

-------------------------------------------------------------------------------
\* A mutation: request_page takes the frame at its index without testing it.
Candidates_Untested == page_bitmap_index .. size - 1

(***************************************************************************)
(* request_page: scan from page_bitmap_index to the first clear bit and    *)
(* lock it.  The scan is bounded by the size of the bitmap in bytes, not   *)
(* in bits.  Nothing found: the scan index stays at the end, NULL.         *)
(***************************************************************************)
Candidates == (page_bitmap_index .. size - 1) \ bits

request_page ==
  /\ initialized
  /\ \/ /\ Candidates # {}
        /\ returned' = Min(Candidates)
        /\ page_bitmap_index' = returned'
        /\ bits' = bits \union {returned'}
        /\ owned' = owned \union {returned'}
        /\ free_memory' = Wrap(free_memory - 1)
        /\ used_memory' = Wrap(used_memory + 1)
     \/ /\ Candidates = {}
        /\ returned' = NULL
        /\ page_bitmap_index' = Max({page_bitmap_index, size})
        /\ UNCHANGED <<bits, owned, free_memory, used_memory>>
  /\ UNCHANGED <<geometry, reserved_memory, pinned>>

\* lock_pages (and lock_page, the case page_count = 1): bits already set,
\* whoever set them, are left alone and not counted.
lock_pages(addr, page_count) ==
  LET fresh == newly_set(Reached(addr, page_count, size), bits)
  IN
  /\ initialized
  /\ bits' = bits \union fresh
  /\ pinned' = pinned \union fresh
  /\ free_memory' = Wrap(free_memory - Cardinality(fresh))
  /\ used_memory' = Wrap(used_memory + Cardinality(fresh))
  /\ UNCHANGED <<geometry, page_bitmap_index, reserved_memory, returned, owned>>

\* A mutation: free_page leaves the scan index where it is.
lowered_index_Never(cleared) == page_bitmap_index

\* free_page moves the scan index back to a lower frame it clears.
lowered_index(cleared) == Min({page_bitmap_index} \union cleared)

\* free_pages (and free_page): clear set bits, and move the scan index back.
\* The contract on callers: they free what request_page gave them.
free_pages(addr, page_count) ==
  LET cleared == Reached(addr, page_count, size) \cap bits
  IN
  /\ initialized
  /\ addr .. addr + page_count - 1 \subseteq owned
  /\ bits' = bits \ cleared
  /\ owned' = owned \ cleared
  /\ free_memory' = Wrap(free_memory + Cardinality(cleared))
  /\ used_memory' = Wrap(used_memory - Cardinality(cleared))
  /\ page_bitmap_index' = lowered_index(cleared)
  /\ UNCHANGED <<geometry, reserved_memory, returned, pinned>>

Next ==
  \/ read_efi_memory_map
  \/ request_page
  \/ \E range \in LockRanges : lock_pages(range[1], range[2])
  \/ \E addr \in owned, page_count \in 1 .. MaxRun : free_pages(addr, page_count)

Spec == Init /\ [][Next]_vars

-------------------------------------------------------------------------------
(***************************************************************************)
(* Properties.                                                             *)
(***************************************************************************)
mem_size == get_memory_size(mem_map)

\* Frames of the type the firmware says the kernel may use.
ConventionalFrames ==
  UNION {mem_map[i].phys_addr .. mem_map[i].phys_addr + mem_map[i].num_pages - 1 :
           i \in Conventional(mem_map)}

\* Frames the bitmap occupies.
BitmapFrames ==
  LET first == largest_free_mem_seg(mem_map)
  IN  first .. first + bitmap_size(mem_size) \div PageBytes

\* Frames that may reach a caller: conventional, above the BIOS area, and not
\* under the bitmap.
Usable == {f \in ConventionalFrames : f >= BiosFrames /\ f \notin BitmapFrames}

TypeOK ==
  /\ mem_map \in MemMaps
  /\ initialized \in BOOLEAN
  /\ {size, buffer, page_bitmap_index, returned} \subseteq Nat
  /\ stray \in {0, 1}
  /\ bits \subseteq 0 .. size * BitsPerByte
  /\ {owned, pinned} \subseteq SUBSET Nat
  /\ {free_memory, reserved_memory, used_memory} \subseteq 0 .. CounterMod - 1

\* The scan index never runs ahead of a clear bit: whatever free_page,
\* unreserve_page and request_page did, no free frame lies below the point
\* where the next request_page starts (page_frame_allocator.cpp:62-88).
HintSound ==
  /\ page_bitmap_index <= size
  /\ 0 .. page_bitmap_index - 1 \subseteq bits

\* Whatever the order of requests, locks and frees, a frame that is handed out
\* keeps its bit set, so that no second request_page returns it, and it is never
\* one that lock_pages took (page_frame_allocator.cpp:70-122).
HeldFramesAreMarked ==
  /\ owned \subseteq bits /\ pinned \subseteq bits
  /\ owned \cap pinned = {}

\* A frame handed out is conventional memory, above the BIOS frames and not
\* under the bitmap itself: neither firmware tables, nor page 0 (which would
\* read as NULL), nor the allocator's own bitmap is ever given to a caller
\* (page_frame_allocator.cpp:36-52).
HeldFramesAreUsable == owned \subseteq Usable

\* The three counters are what the bitmap says: used_memory counts the bits
\* set by lock_page, reserved_memory the others that are set, and free_memory
\* the rest of the memory size - one less than the clear frames, because
\* reserve_pages(0, mem_size / 4096 + 1) reserves a frame that is not there.
CountersMatchBitmap ==
  initialized =>
    /\ used_memory = Wrap(Cardinality(owned \union pinned))
    /\ reserved_memory = Wrap(Cardinality(bits \ (owned \union pinned)) - stray)
    /\ free_memory = Wrap(mem_size + stray - Cardinality(bits))

\* request_page returns NULL only when every frame below its scan limit is
\* taken: no sequence of requests, locks and frees loses a frame.
RequestFindsAFrame ==
  [][request_page /\ owned' = owned => 0 .. size - 1 \subseteq bits]_vars

\* Every step keeps the promise of the abstract pool: frames are granted only
\* from the pool and to one holder, and never revoked by lock_pages.
Pool == INSTANCE FramePool WITH
  Frames <- Nat,
  held   <- owned,
  pool   <- {f \in Usable : f < bitmap_size(mem_size)} \ pinned

PoolSpec == Pool!Spec

\* The comment on the final return of request_page: it is the place for "page
\* frame swapping" (page_frame_allocator.cpp:72), so the scan can only have
\* reached its end when no usable frame the bitmap covers is free.
NullMeansExhausted ==
  initialized /\ page_bitmap_index >= size =>
    Usable \cap 0 .. mem_size \subseteq bits

===============================================================================
