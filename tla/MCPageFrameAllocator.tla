------------------------- MODULE MCPageFrameAllocator -------------------------
(***************************************************************************)
(* Small memories for PageFrameAllocator, with a byte of BitsPerByte = 2   *)
(* bits, so that the bitmap of 12 frames has 7 bytes and covers 15 indices.*)
(***************************************************************************)
EXTENDS PageFrameAllocator

Segment(t, addr, n) == [type |-> t, phys_addr |-> addr, num_pages |-> n]

EfiReserved == 0
EfiLoaderData == 2

\* Conventional memory on both sides of the loader's data.
FlatMap == <<Segment(EfiConventionalMemory, 0, 4), Segment(EfiLoaderData, 4, 2),
             Segment(EfiConventionalMemory, 6, 6)>>

\* A hole: the last segment starts where the bitmap ends (index 14 = size * 2).
HoleMap == <<Segment(EfiConventionalMemory, 0, 5), Segment(EfiReserved, 5, 2),
             Segment(EfiConventionalMemory, 14, 5)>>

\* The bitmap lands in the middle of what request_page scans.
LowMap == <<Segment(EfiReserved, 0, 1), Segment(EfiConventionalMemory, 1, 9),
            Segment(EfiLoaderData, 10, 2)>>

\* Nothing conventional below the scan limit.
HighMap == <<Segment(EfiReserved, 0, 7), Segment(EfiConventionalMemory, 7, 5)>>

SmallMaps == {FlatMap, HoleMap, LowMap, HighMap}

\* The kernel image, a framebuffer above memory, a range across the scan limit.
SmallRanges == {<<0, 2>>, <<20, 2>>, <<3, 3>>, <<6, 9>>}

\* A segment longer than the int in the range loops can count: with
\* IntFrames = 4 its last two frames fold back onto frames 4 and 5, which are
\* the loader's.
LongSegmentMap == <<Segment(EfiReserved, 0, 4), Segment(EfiLoaderData, 4, 4),
                    Segment(EfiConventionalMemory, 8, 6)>>

LongMaps == {LongSegmentMap}
===============================================================================
