------------------------------ MODULE EfiLists ------------------------------
(***************************************************************************)
(* gnu-efi's doubly linked lists (inc/efilink.h): macros that change the   *)
(* links of two or three nodes at a time.  One list, of entries that are   *)
(* not in another one.                                                     *)
(***************************************************************************)
EXTENDS Integers, Sequences, SequencesExt

CONSTANTS
  ListEntries,
  ListHead,
  BAD_POINTER    \* what a node's links are before they are set, and what a build for
                 \* debugging makes them when it leaves the list

ASSUME ListNodesDiffer == ListHead \notin ListEntries /\ BAD_POINTER \notin ListEntries \union {ListHead}

VARIABLES
  EFI_DEBUG,     \* whether the build is one for debugging
  Flink, Blink,
  ring           \* history: the head, and behind it what was inserted and not removed;
                 \* nothing before the head is initialised
list_vars == <<EFI_DEBUG, Flink, Blink, ring>>

ListNodes == ListEntries \union {ListHead}

ListsInit ==
  /\ EFI_DEBUG \in BOOLEAN
  /\ Flink = [node \in ListNodes |-> BAD_POINTER] /\ Blink = Flink
  /\ ring = << >>

InitializeListHead ==
  /\ Flink' = [Flink EXCEPT ![ListHead] = ListHead]
  /\ Blink' = [Blink EXCEPT ![ListHead] = ListHead]
  /\ ring' = <<ListHead>>
  /\ UNCHANGED EFI_DEBUG

IsListEmpty == Flink[ListHead] = ListHead

\* An entry's place on the ring; it has none while it is in no list.
Place(entry, n) == n \in 2 .. Len(ring) /\ ring[n] = entry
Loose(entry) == ring # << >> /\ \A n \in DOMAIN ring : ring[n] # entry

-------------------------------------------------------------------------------
RemoveEntryList(entry) ==
  /\ \E n \in DOMAIN ring : Place(entry, n) /\ ring' = RemoveAt(ring, n)
  /\ LET flink == [Flink EXCEPT ![Blink[entry]] = Flink[entry]]
         blink == [Blink EXCEPT ![Flink[entry]] = Blink[entry]]
     IN  /\ Flink' = IF EFI_DEBUG THEN [flink EXCEPT ![entry] = BAD_POINTER] ELSE flink
         /\ Blink' = IF EFI_DEBUG THEN [blink EXCEPT ![entry] = BAD_POINTER] ELSE blink
  /\ UNCHANGED EFI_DEBUG

InsertTailList(entry) ==
  /\ Loose(entry) /\ ring' = Append(ring, entry)
  /\ Flink' = [Flink EXCEPT ![entry] = ListHead, ![Blink[ListHead]] = entry]
  /\ Blink' = [Blink EXCEPT ![entry] = Blink[ListHead], ![ListHead] = entry]
  /\ UNCHANGED EFI_DEBUG

\* A mutation: the entry that was the first is not told.
InsertHeadList_OneWay(entry) ==
  /\ Loose(entry) /\ ring' = InsertAt(ring, 2, entry)
  /\ Flink' = [Flink EXCEPT ![entry] = Flink[ListHead], ![ListHead] = entry]
  /\ Blink' = [Blink EXCEPT ![entry] = ListHead]
  /\ UNCHANGED EFI_DEBUG

InsertHeadList(entry) ==
  /\ Loose(entry) /\ ring' = InsertAt(ring, 2, entry)
  /\ Flink' = [Flink EXCEPT ![entry] = Flink[ListHead], ![ListHead] = entry]
  /\ Blink' = [Blink EXCEPT ![entry] = ListHead, ![Flink[ListHead]] = entry]
  /\ UNCHANGED EFI_DEBUG

\* "Put Entry2 before Entry1": the caller sees to it that it is not there yet.  All four
\* links are read before the first is written, and the first two assignments take the
\* second entry out.
SwapListEntries(entry1, entry2) ==
  /\ \E n, m \in DOMAIN ring :
       /\ Place(entry1, n) /\ Place(entry2, m) /\ m \notin {n - 1, n}
       /\ ring' = InsertAt(RemoveAt(ring, m), IF m < n THEN n - 1 ELSE n, entry2)
  /\ Flink' = [Flink EXCEPT ![Blink[entry2]] = Flink[entry2], ![entry2] = entry1, ![Blink[entry1]] = entry2]
  /\ Blink' = [Blink EXCEPT ![Flink[entry2]] = Blink[entry2], ![entry2] = Blink[entry1], ![entry1] = entry2]
  /\ UNCHANGED EFI_DEBUG

ListsNext ==
  \/ InitializeListHead
  \/ \E entry \in ListEntries :
       RemoveEntryList(entry) \/ InsertTailList(entry) \/ InsertHeadList(entry)
  \/ \E entry1, entry2 \in ListEntries : SwapListEntries(entry1, entry2)

ListsSpec == ListsInit /\ [][ListsNext]_list_vars

-------------------------------------------------------------------------------
Following(n) == IF n = Len(ring) THEN 1 ELSE n + 1

\* Whatever was inserted, removed and swapped, the forward links lead from the head through
\* the entries that are in the list, in their order, and back, the backward links the
\* other way, and only a list without entries is taken for empty.
ListIsLinked ==
  /\ \A n \in DOMAIN ring :
       Flink[ring[n]] = ring[Following(n)] /\ Blink[ring[Following(n)]] = ring[n]
  /\ ring # << >> => (IsListEmpty <=> Len(ring) = 1)
===============================================================================
