-------------------------- MODULE MCPageTableManager --------------------------
(***************************************************************************)
(* Three levels of two entries over a machine of a few frames: enough for  *)
(* some sequences of maps, too few for others, so that frame 0 becomes a   *)
(* table.                                                                  *)
(***************************************************************************)
EXTENDS PageTableManager

Segment(t, addr, n) == [type |-> t, phys_addr |-> addr, num_pages |-> n]

\* Frame 0 is the BIOS's and the bitmap's: none is left for the top table,
\* four are left for five tables, or eight of which the bitmap takes none.
TinyMap  == <<Segment(EfiConventionalMemory, 0, 1)>>
SmallMap == <<Segment(EfiConventionalMemory, 0, 5)>>
LargeMap == <<Segment(EfiConventionalMemory, 0, 10)>>

SmallMaps == {TinyMap, SmallMap, LargeMap}

NoRanges == {}

\* Three pages under two tables of the second level, two of them in one table
\* of the third.
SmallVirtPages == {0, 1, 6}

SmallPhysFrames == {4}
===============================================================================
