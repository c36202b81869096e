--------------------------- MODULE PageTableManager ---------------------------
(***************************************************************************)
(* The page tables: class PageTableManager                                 *)
(* (kernel/src/paging/page_table_manager.cpp), with PageMapIndexer and     *)
(* PageDirEntry, on top of the page-frame allocator.                       *)
(*                                                                         *)
(* map_mem walks the levels one by one, and at each may call request_page: *)
(* one level is one step.  tables holds the frames that map_mem or its     *)
(* caller zeroed and uses as tables; it reaches them by physical address.  *)
(***************************************************************************)
EXTENDS PageFrameAllocator

CONSTANTS
  Levels,         \* 4: levels of tables
  Fan,            \* 512: entries of a table
  VirtPages,      \* virtual page numbers callers map
  PhysFrames      \* frames callers map by number: identity, framebuffer

\* An entry whose Present flag is 0.  Other entries are the frame they name:
\* whenever map_mem sets Present it sets ReadWrite, and nothing clears either.
Absent == -1

ASSUME PagingAssumption ==
  /\ {Levels, Fan} \subseteq Nat \ {0}
  /\ VirtPages \subseteq Nat /\ PhysFrames \subseteq Nat

VARIABLES
  pml4_addr,      \* frame of the top table, once prepare_mem has it
  tables,         \* contents of the frames used as tables
  walk,           \* the map_mem call under way: a set of at most one record
  starved         \* history: some table had to be put in frame 0 (NULL)

ptm_vars == <<pml4_addr, tables, walk, starved>>
all_vars == <<vars, ptm_vars>>

-------------------------------------------------------------------------------
\* A mutation: virt_addr is not shifted between p_i and pt_i.
index_Unshifted(virt, level) ==
  (virt \div Fan ^ (IF level = Levels THEN 0 ELSE Levels - level - 1)) % Fan

\* PageMapIndexer: the index at a level, level 1 being the top table's.  What
\* does not fit in Levels digits is dropped.
index(virt, level) == (virt \div Fan ^ (Levels - level)) % Fan

\* Mutations: memset stops one entry short; it is not called, and the frame
\* holds what its last user left.
EmptyTable_Short == [i \in 0 .. Fan - 2 |-> Absent]
zeroed_Skipped(frame) ==
  [f \in DOMAIN tables \union {frame} |->
     IF f \in DOMAIN tables THEN tables[f] ELSE [i \in 0 .. Fan - 1 |-> frame]]

EmptyTable == [i \in 0 .. Fan - 1 |-> Absent]

\* memset(frame, 0, 4096)
zeroed(frame) ==
  [f \in DOMAIN tables \union {frame} |->
     IF f = frame THEN EmptyTable ELSE tables[f]]

PtmInit ==
  /\ Init
  /\ pml4_addr = Absent /\ tables = << >> /\ walk = {} /\ starved = FALSE

\* prepare_mem: global_ptm = PageTableManager(pml4), in a frame of its own.
new_page_table_manager ==
  /\ pml4_addr = Absent
  /\ request_page
  /\ pml4_addr' = returned'
  /\ tables' = zeroed(returned')
  /\ starved' = (owned' = owned)
  /\ UNCHANGED walk

\* Calls are modelled until a table was put in frame 0: memset has then zeroed
\* the first page of the kernel's code, and what runs next is anybody's guess.
Callable == pml4_addr # Absent /\ walk = {} /\ ~starved

\* map_mem(virt, phys) is called.
map_mem(virt, phys) ==
  /\ Callable
  /\ walk' = {[virt |-> virt, phys |-> phys, level |-> 1, table |-> pml4_addr]}
  /\ UNCHANGED <<vars, pml4_addr, tables, starved>>

\* map_mem(virt, request_page()), as init_heap and extend_heap call it: a NULL
\* is mapped like any frame.
map_mem_requested(virt) ==
  /\ Callable
  /\ request_page
  /\ walk' = {[virt |-> virt, phys |-> returned', level |-> 1, table |-> pml4_addr]}
  /\ UNCHANGED <<pml4_addr, tables, starved>>

\* The entry the call looks at: its table is a frame that holds a table.
entry(w) == tables[w.table][index(w.virt, w.level)]

\* A level whose entry is present is followed.
map_descend(w) ==
  /\ w.level < Levels /\ w.table \in DOMAIN tables /\ entry(w) # Absent
  /\ walk' = {[w EXCEPT !.level = @ + 1, !.table = entry(w)]}
  /\ UNCHANGED <<vars, pml4_addr, tables, starved>>

\* A level whose entry is absent gets a zeroed table, in the frame request_page
\* returns; a NULL is not tested, and makes frame 0 the table.
map_new_table(w) ==
  /\ w.level < Levels /\ w.table \in DOMAIN tables /\ entry(w) = Absent
  /\ request_page
  /\ tables' = [zeroed(returned') EXCEPT
                  ![w.table][index(w.virt, w.level)] = returned']
  /\ walk' = {[w EXCEPT !.level = @ + 1, !.table = returned']}
  /\ starved' = (starved \/ owned' = owned)
  /\ UNCHANGED pml4_addr

\* The last level's entry is set, whatever it held.
map_leaf(w) ==
  /\ w.level = Levels /\ w.table \in DOMAIN tables
  /\ tables' = [tables EXCEPT ![w.table][index(w.virt, w.level)] = w.phys]
  /\ walk' = {}
  /\ UNCHANGED <<vars, pml4_addr, starved>>

map_step == \E w \in walk : map_descend(w) \/ map_new_table(w) \/ map_leaf(w)

PtmNext ==
  \/ read_efi_memory_map /\ UNCHANGED ptm_vars
  \/ new_page_table_manager
  \/ \E virt \in VirtPages, phys \in PhysFrames : map_mem(virt, phys)
  \/ \E virt \in VirtPages : map_mem_requested(virt)
  \/ map_step

PtmSpec == PtmInit /\ [][PtmNext]_all_vars

-------------------------------------------------------------------------------
(***************************************************************************)
(* Properties.                                                             *)
(***************************************************************************)
PtmTypeOK ==
  /\ pml4_addr \in Nat \union {Absent}
  /\ tables \in [DOMAIN tables -> [0 .. Fan - 1 -> Nat \union {Absent}]]
  /\ DOMAIN tables \subseteq Nat
  /\ walk \subseteq [virt : Nat, phys : Nat, level : 1 .. Levels, table : Nat]
  /\ starved \in BOOLEAN

\* What the processor makes of a virtual page: it follows the tables, indexing
\* each level with that level's digit of the page number.
mmu_index(virt, level) == (virt \div Fan ^ (Levels - level)) % Fan

translate(virt) ==
  LET at[level \in 0 .. Levels] ==
        IF level = 0 THEN pml4_addr
        ELSE IF at[level - 1] \in DOMAIN tables
             THEN tables[at[level - 1]][mmu_index(virt, level)]
             ELSE Absent
  IN  at[Levels]

translation ==
  [virt \in {v \in VirtPages : translate(v) # Absent} |-> translate(virt)]

\* An entry that names a table, when its own table lies above the last level.
NamesTable(level, t, i) == level[t] < Levels /\ tables[t][i] # Absent

\* A level for each table: the top table's is 1, every other table is named by
\* exactly one entry, of a table one level up.
IsTree(level) ==
  /\ \A t \in DOMAIN tables : level[t] = 1 <=> t = pml4_addr
  /\ \A t \in DOMAIN tables, i \in 0 .. Fan - 1 :
       NamesTable(level, t, i) =>
         tables[t][i] \in DOMAIN tables /\ level[tables[t][i]] = level[t] + 1
  /\ \A f \in DOMAIN tables \ {pml4_addr} :
       \E t \in DOMAIN tables, i \in 0 .. Fan - 1 :
         NamesTable(level, t, i) /\ tables[t][i] = f
  /\ \A t, u \in DOMAIN tables, i, j \in 0 .. Fan - 1 :
       NamesTable(level, t, i) /\ NamesTable(level, u, j) /\ tables[t][i] = tables[u][j]
         => t = u /\ i = j

\* As long as there were frames, the tables are a tree: every table but the top
\* is named by exactly one entry of the level above, lies at one level, and is
\* a frame the allocator gave out and cannot give out again.  No table leaks
\* and none is shared, so that no mapping shows through another.
TablesAreATree ==
  ~starved =>
    /\ DOMAIN tables \subseteq owned
    /\ \E level \in [DOMAIN tables -> 1 .. Levels] : IsTree(level)

\* Seen through the processor's walk, map_mem maps the one page it is asked
\* to and leaves the others alone, at whatever step of the call one looks.
Space == INSTANCE AddressSpace WITH
  VirtualPages <- VirtPages,
  mapping      <- translation,
  call         <- {[virt |-> w.virt, phys |-> w.phys] : w \in walk},
  exhausted    <- starved

SpaceSpec == Space!Spec
===============================================================================
