--------------------------------- MODULE Heap ---------------------------------
(***************************************************************************)
(* The kernel heap: init_heap, malloc, free and extend_heap                *)
(* (kernel/src/memory/heap.cpp), a doubly linked list of segment headers   *)
(* that lie in the heap itself.                                            *)
(*                                                                         *)
(* hdr is the memory the headers occupy: hdr[h] is the header at address   *)
(* h, for every h at which a whole header is stored, in the list or not.   *)
(* One iteration of malloc's loop is one step, so that a walk that never   *)
(* ends is a behaviour; every other call is one step.  Nothing interleaves *)
(* with them: no interrupt handler allocates.  Clients free what malloc    *)
(* gave them, once, and write nothing over the headers.                    *)
(***************************************************************************)
EXTENDS Integers, FiniteSets

CONSTANTS
  Grain,        \* 0x10: unit of a segment's length
  Header,       \* 32: sizeof(HeapSegHeader)
  Page,         \* 0x1000
  heap_start,   \* the address init_heap gets
  InitPages,    \* the page_count init_heap gets
  Sizes,        \* the sizes clients ask for
  MaxPages,     \* bound: pages of heap
  MaxLive,      \* bound: blocks clients hold
  MaxLength,    \* bound: length of a segment
  MaxStale      \* bound: calls once the list holds stale links

NULL == 0

ASSUME HeapConstantsAssumption ==
  /\ {Grain, Header, Page, heap_start, InitPages, MaxPages, MaxLive, MaxLength}
       \subseteq Nat \ {0}
  /\ Sizes \subseteq Nat /\ MaxStale \in Nat
  /\ Header % Grain = 0 /\ Page % Grain = 0 /\ Header < Page

VARIABLES
  hdr,           \* the stored headers
  heap_end, last_header,
  cur_segment,   \* malloc's cursor; NULL between calls
  request,       \* the rounded size malloc looks for; 0 between calls
  status,        \* "running"; "fault": touched an unmapped page, so the page
                 \*   fault handler halts; "lost": read a header that another
                 \*   header overwrote; "bound": a bound of the model is reached
  \* History, read by properties only:
  live,          \* blocks clients hold
  intact,        \* no two segments merged yet, no free segment fitted exactly
  stale_calls,   \* calls begun since intact ceased
  low_write      \* split wrote through a null next

vars == <<hdr, heap_end, last_header, cur_segment, request, status, live,
          intact, stale_calls, low_write>>

-------------------------------------------------------------------------------
\* A mutation: the size stays as the caller gave it.
RoundUp_Not(n, unit) == n

\* malloc rounds to 0x10 bytes, extend_heap to 0x1000.
RoundUp(n, unit) == IF n % unit > 0 THEN n - (n % unit) + unit ELSE n

\* The memory a call of combine_forward, combine_backward or split works on:
\* the headers, last_header, and how the call ended.
Image(seg, tail, end) == [seg |-> seg, tail |-> tail, end |-> end]

Memory == Image(hdr, last_header, "running")

Lost(m) == [m EXCEPT !.end = "lost"]

\* Storing a header at h destroys the headers it overlaps.
Store(h, record, seg) ==
  [a \in {h} \union {a \in DOMAIN seg : a + Header <= h \/ h + Header <= a} |->
     IF a = h THEN record ELSE seg[a]]

\* A mutation: the absorbed header itself is not counted.
merged_length_NoHeader(length, next_length) == length + next_length

\* The length of a segment that takes in its neighbour and that one's header.
merged_length(length, next_length) == length + next_length + Header

\* combine_forward: a free neighbour is counted into this segment.  `next`
\* keeps pointing at the absorbed header, which stays in the list.
combine_forward(h, m) ==
  LET n    == m.seg[h].next
      nn   == m.seg[n].next
      relinked == IF nn = NULL THEN m.seg ELSE [m.seg EXCEPT ![nn].last = h]
  IN  IF n = NULL THEN m
      ELSE IF n \notin DOMAIN m.seg THEN Lost(m)
      ELSE IF ~m.seg[n].free THEN m
      ELSE IF nn # NULL /\ nn \notin DOMAIN m.seg THEN Lost(m)
      ELSE [m EXCEPT
              !.seg  = [relinked EXCEPT
                          ![h].length = merged_length(@, m.seg[n].length)],
              !.tail = IF n = m.tail THEN h ELSE @]

combine_backward(h, m) ==
  LET l == m.seg[h].last
  IN  IF m.end = "lost" \/ l = NULL THEN m
      ELSE IF l \notin DOMAIN m.seg THEN Lost(m)
      ELSE IF m.seg[l].free THEN combine_forward(l, m)
      ELSE m

\* Mutations: last_header is not moved; the new segment is taken as used; the
\* two assignments that link it are swapped.
split_tail_Kept(h, new, m) == m.tail
split_free_Never(h, new, m) == FALSE
split_next_Swapped(h, new, m) == new

\* The fields split computes: last_header, and the new segment's free and next.
split_tail(h, new, m) == IF m.tail = h THEN new ELSE m.tail
split_free(h, new, m) == m.seg[h].free
split_next(h, new, m) == m.seg[h].next

\* split: cut the segment h after split_length bytes, when at least a header
\* and a grain remain.  next->last is written without a test of next.
splittable(h, split_length, m) ==
  split_length >= Grain /\ m.seg[h].length - split_length - Header >= Grain

split(h, split_length, m) ==
  LET next == m.seg[h].next
      new  == h + split_length + Header
      linked == IF next = NULL THEN m.seg ELSE [m.seg EXCEPT ![next].last = new]
      stored == Store(new,
                  [length |-> m.seg[h].length - split_length - Header,
                   next   |-> split_next(h, new, m),
                   last   |-> h,
                   free   |-> split_free(h, new, m)], linked)
  IN  IF ~splittable(h, split_length, m) THEN m
      ELSE IF next # NULL /\ next \notin DOMAIN m.seg THEN Lost(m)
      ELSE IF new + Header > heap_end THEN [m EXCEPT !.end = "fault"]
      ELSE [m EXCEPT
              !.seg  = [stored EXCEPT ![h].next = new, ![h].length = split_length],
              !.tail = split_tail(h, new, m)]

\* How the call ends: without incident, halted, or beyond the bound.
Ending(m) ==
  IF m.end = "running" /\ \E h \in DOMAIN m.seg : m.seg[h].length > MaxLength
  THEN "bound" ELSE m.end

-------------------------------------------------------------------------------
\* The state init_heap leaves: its pages mapped, and one free segment.
Init ==
  /\ heap_end = heap_start + InitPages * Page
  /\ hdr = [h \in {heap_start} |->
              [length |-> InitPages * Page - Header,
               next |-> NULL, last |-> NULL, free |-> TRUE]]
  /\ last_header = heap_start
  /\ cur_segment = NULL /\ request = 0 /\ status = "running"
  /\ live = {} /\ intact = TRUE /\ stale_calls = 0 /\ low_write = FALSE

\* A mutation: the walk starts at the last segment.
first_segment_Tail == last_header

\* The segment at which the walk starts.
first_segment == heap_start

\* A client's call, of which the model makes few once the links are stale.
Call ==
  /\ status = "running" /\ request = 0
  /\ intact \/ stale_calls < MaxStale
  /\ stale_calls' = IF intact THEN 0 ELSE stale_calls + 1

\* malloc: a call with a size of 0 returns NULL at once.
malloc(size) ==
  /\ Call
  /\ size > 0
  /\ request' = RoundUp(size, Grain)
  /\ cur_segment' = first_segment
  /\ UNCHANGED <<hdr, heap_end, last_header, status, live, intact, low_write>>

\* The cursor stands on a header that can be read.
Walking == status = "running" /\ cur_segment \in DOMAIN hdr

\* The call comes to an end in m: its writes stand, unless it never returns.
Complete(m) ==
  Ending(m) = "running" /\ hdr' = m.seg /\ last_header' = m.tail /\ UNCHANGED status

Halt(end) ==
  /\ status' = end
  /\ UNCHANGED <<hdr, heap_end, last_header, cur_segment, request, live, intact,
                 low_write>>

\* Halt within malloc, which is not a new call.
Stop(end) == Halt(end) /\ UNCHANGED stale_calls

Return(addr) ==
  /\ live' = live \union {[addr |-> addr, size |-> request]}
  /\ cur_segment' = NULL /\ request' = 0

\* malloc's loop: a larger free segment is split and taken.
take_split ==
  LET m == split(cur_segment, request, Memory)
  IN
  /\ Walking
  /\ hdr[cur_segment].free /\ hdr[cur_segment].length > request
  /\ \/ Ending(m) # "running" /\ Stop(Ending(m))
     \/ /\ Complete([m EXCEPT !.seg[cur_segment].free = FALSE])
        /\ low_write' = (low_write \/ (/\ splittable(cur_segment, request, Memory)
                                       /\ hdr[cur_segment].next = NULL))
        /\ Return(cur_segment + Header)
        /\ UNCHANGED <<heap_end, intact, stale_calls>>

\* malloc's loop: a free segment of the very size is returned.  The statement
\* meant to mark it, cur_segment->length == false, changes nothing.
take_exact ==
  /\ Walking
  /\ hdr[cur_segment].free /\ hdr[cur_segment].length = request
  /\ Return(cur_segment + Header)
  /\ intact' = FALSE
  /\ UNCHANGED <<hdr, heap_end, last_header, status, stale_calls, low_write>>

Unfit == ~hdr[cur_segment].free \/ hdr[cur_segment].length < request

\* malloc's loop: on to the next segment.
scan_next ==
  /\ Walking /\ Unfit
  /\ hdr[cur_segment].next # NULL
  /\ cur_segment' = hdr[cur_segment].next
  /\ UNCHANGED <<hdr, heap_end, last_header, request, status, live, intact,
                 stale_calls, low_write>>

\* malloc's loop reads a header that was overwritten.
scan_lost ==
  /\ status = "running" /\ cur_segment \notin DOMAIN hdr \union {NULL}
  /\ Stop("lost")

\* malloc's loop found nothing: extend_heap maps pages for the request, links
\* them in as a segment and joins it to a free one before it; malloc calls
\* itself and walks again from the start.
extend_heap ==
  LET length == RoundUp(request, Page)
      new    == heap_end
      added  == Store(new, [length |-> length - Header, next |-> NULL,
                            last |-> last_header, free |-> TRUE],
                      [hdr EXCEPT ![last_header].next = new])
      m      == combine_backward(new, Image(added, new, "running"))
      end    == IF heap_end + length > heap_start + MaxPages * Page THEN "bound"
                ELSE IF last_header \notin DOMAIN hdr THEN "lost"
                ELSE Ending(m)
  IN
  /\ Walking /\ Unfit
  /\ hdr[cur_segment].next = NULL
  /\ \/ end # "running" /\ Stop(end)
     \/ /\ end = "running" /\ Complete(m)
        /\ heap_end' = heap_end + length
        /\ cur_segment' = first_segment
        /\ intact' = (intact /\ m.seg = added)
        /\ UNCHANGED <<request, live, stale_calls, low_write>>

\* free: mark the segment, then join it to its neighbours.
free(block) ==
  LET seg   == block.addr - Header
      freed == Image([hdr EXCEPT ![seg].free = TRUE], last_header, "running")
      m     == combine_backward(seg, combine_forward(seg, freed))
      end   == IF seg \notin DOMAIN hdr THEN "lost" ELSE Ending(m)
  IN
  /\ Call
  /\ \/ end # "running" /\ Halt(end)
     \/ /\ end = "running" /\ Complete(m)
        /\ live' = live \ {block}
        /\ intact' = (intact /\ m = freed)
        /\ UNCHANGED <<heap_end, cur_segment, request, low_write>>

malloc_step == take_split \/ take_exact \/ scan_next \/ scan_lost \/ extend_heap

Next ==
  \/ \E size \in Sizes : Cardinality(live) < MaxLive /\ malloc(size)
  \/ malloc_step
  \/ \E block \in live : free(block)

\* The processor runs on: a started malloc takes its next step.
Spec == Init /\ [][Next]_vars /\ WF_vars(malloc_step)

-------------------------------------------------------------------------------
(***************************************************************************)
(* Properties.  Once two segments have merged the list holds stale links   *)
(* (see GrantsAreDisjoint and MallocReturns), so what the list is for is   *)
(* stated of the histories before that, and of the merge itself.           *)
(***************************************************************************)
EndOf(h, seg) == h + Header + seg[h].length

FreeFits(h) == hdr[h].free /\ hdr[h].length >= request

TypeOK ==
  /\ hdr \in [DOMAIN hdr -> [length : Nat, next : Nat, last : Nat, free : BOOLEAN]]
  /\ \A h \in DOMAIN hdr : hdr[h].length % Grain = 0 /\ hdr[h].length <= MaxLength
  /\ DOMAIN hdr \subseteq heap_start .. heap_end - Header
  /\ {heap_end, last_header, cur_segment} \subseteq Nat
  /\ request \in Nat /\ request % Grain = 0 /\ stale_calls \in 0 .. MaxStale
  /\ status \in {"running", "fault", "lost", "bound"}
  /\ live \subseteq [addr : Nat, size : Nat]
  /\ {intact, low_write} \subseteq BOOLEAN

\* As long as nothing merged, the headers tile the heap without gap or overlap,
\* next and last lead over them in address order, and last_header is the one
\* at the end (heap.cpp:78-99, 118-123).
TilesUntilMerge ==
  intact =>
    /\ hdr[heap_start].last = NULL
    /\ last_header \in DOMAIN hdr /\ EndOf(last_header, hdr) = heap_end
    /\ hdr[last_header].next = NULL
    /\ \A h \in DOMAIN hdr \ {last_header} :
         /\ EndOf(h, hdr) \in DOMAIN hdr
         /\ hdr[h].next = EndOf(h, hdr) /\ hdr[EndOf(h, hdr)].last = h
    /\ \A g, h \in DOMAIN hdr : g < h => EndOf(g, hdr) <= h

\* As long as nothing merged, the used segments are the blocks clients hold,
\* one each and large enough: nothing leaks, nothing is held twice.
LiveUntilMerge ==
  intact =>
    /\ {h \in DOMAIN hdr : ~hdr[h].free} = {b.addr - Header : b \in live}
    /\ \A b \in live : hdr[b.addr - Header].length >= b.size
    /\ \A b, c \in live : b.addr = c.addr => b = c

\* malloc is first fit: it takes the lowest free segment that is large enough,
\* and extends the heap only when no free segment anywhere is large enough.
FirstFitElseGrow ==
  [][ intact =>
        /\ take_split \/ take_exact =>
             \A h \in DOMAIN hdr : FreeFits(h) => cur_segment <= h
        /\ extend_heap => \A h \in DOMAIN hdr : ~FreeFits(h) ]_vars

\* The first merge is exact, whichever neighbours of the block are free: the
\* joined segment starts at the lowest of them and ends where the highest ends,
\* and last_header still is the segment at the end of the heap.
FreeCoalesces ==
  [][ intact /\ status' = "running" =>
        \A b \in live \ live' :
          LET seg  == b.addr - Header
              low  == IF hdr[seg].last # NULL /\ hdr[hdr[seg].last].free
                      THEN hdr[seg].last ELSE seg
              high == IF hdr[seg].next # NULL /\ hdr[hdr[seg].next].free
                      THEN hdr[seg].next ELSE seg
          IN  /\ hdr'[low].free
              /\ EndOf(low, hdr') = EndOf(high, hdr)
              /\ EndOf(last_header', hdr') = heap_end' ]_vars

\* While nothing has merged, every malloc comes to an end: it returns, or the
\* heap it extends joins its last segments.
MallocReturnsUntilMerge ==
  request # 0 /\ intact ~> request = 0 \/ ~intact \/ status # "running"

\* What malloc returns overlaps no block a client holds.
GrantsAreDisjoint ==
  [][ \A b \in live : take_split \/ take_exact =>
        \/ status' # "running"
        \/ b.addr + b.size <= cur_segment + Header
        \/ cur_segment + Header + request <= b.addr ]_vars

\* split writes the segment's neighbours, which lie in the heap.
SplitStaysInHeap == ~low_write

\* Every malloc returns.
MallocReturns == request # 0 ~> request = 0 \/ status # "running"
===============================================================================
