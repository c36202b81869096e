------------------------ MODULE PageTableManagerProofs ------------------------
(***************************************************************************)
(* Proofs about PageTableManager, for every number of levels and of        *)
(* entries, every memory map, and any maps of its callers.                 *)
(***************************************************************************)
EXTENDS PageTableManager, PageFrameAllocatorProofs

-------------------------------------------------------------------------------
(***************************************************************************)
(* The inductive invariant: as long as there were frames the tables are a  *)
(* tree of frames the allocator gave out, and a call under way stands on a *)
(* table of the level it has come to.                                      *)
(***************************************************************************)
Indices == 0 .. Fan - 1
TableOf == [Indices -> Nat \union {Absent}]

StandsOn(level, w) ==
  /\ w \in [virt : Nat, phys : Nat, level : 1 .. Levels, table : DOMAIN tables]
  /\ level[w.table] = w.level

TypedTables ==
  /\ tables \in [DOMAIN tables -> TableOf]
  /\ DOMAIN tables \subseteq owned
  /\ pml4_addr = Absent => DOMAIN tables = {} /\ walk = {}
  /\ pml4_addr # Absent => pml4_addr \in DOMAIN tables

Levelled(level) == IsTree(level) /\ \A w \in walk : StandsOn(level, w)

TreeInv ==
  ~starved => TypedTables /\ \E level \in [DOMAIN tables -> 1 .. Levels] : Levelled(level)

PtmInv == Core /\ TreeInv /\ (starved => pml4_addr # Absent)

-------------------------------------------------------------------------------
LEMMA IndexType ==
  ASSUME NEW virt \in Nat, NEW l \in 1 .. Levels
  PROVE  index(virt, l) \in Indices
<1>1. Fan \in Nat \ {0} /\ Levels - l \in Nat
  BY PagingAssumption
<1>2. \A v, n \in Nat : (v \div Fan ^ n) % Fan \in 0 .. Fan - 1
  BY <1>1
<1> QED
  BY <1>1, <1>2 DEF index, Indices

\* Every step of the page tables is one of the allocator's, or leaves it alone.
LEMMA CoreStep == Core /\ [PtmNext]_all_vars => Core'
<1> SUFFICES ASSUME Core, [PtmNext]_all_vars PROVE Core'
  OBVIOUS
<1>1. [Next]_vars
  BY DEF PtmNext, Next, new_page_table_manager, map_mem, map_mem_requested, map_step,
         map_descend, map_new_table, map_leaf, all_vars
<1> QED
  BY <1>1, CoreNext

\* A frame that request_page returns was nobody's; what it returns is a number.
LEMMA FrameRequested ==
  ASSUME Core, request_page
  PROVE  /\ returned' \in Nat /\ owned \subseteq owned'
         /\ owned' # owned => returned' \notin owned /\ returned' \in owned'
<1>1. CASE Candidates = {}
  BY <1>1 DEF request_page, NULL
<1>2. CASE Candidates # {}
  <2>1. Min(Candidates) \in 0 .. size - 1 /\ Min(Candidates) \notin bits
    BY <1>2, FoundFrame
  <2>2. Min(Candidates) \in Nat /\ Min(Candidates) \notin owned
    BY <2>1 DEF Core, HeldFramesAreMarked
  <2> QED
    BY <1>2, <2>2 DEF request_page
<1> QED
  BY <1>1, <1>2

LEMMA PtmInvInit == PtmInit => PtmInv
<1> SUFFICES ASSUME PtmInit PROVE PtmInv
  OBVIOUS
<1>1. DOMAIN tables = {} /\ walk = {} /\ pml4_addr = Absent /\ owned = {}
  BY DEF PtmInit, Init
<1>2. tables \in [DOMAIN tables -> TableOf]
  BY DEF PtmInit
<1>3. TypedTables
  BY <1>1, <1>2 DEF TypedTables
<1> DEFINE none == [t \in {} |-> 1]
<1>4. none \in [DOMAIN tables -> 1 .. Levels] /\ Levelled(none)
  BY <1>1 DEF Levelled, IsTree
<1> QED
  BY <1>3, <1>4, CoreInit DEF PtmInv, TreeInv, PtmInit

\* The tree stays what it is when only the call under way changes.
LEMMA WalkKeeps ==
  ASSUME PtmInv, ~starved, UNCHANGED <<pml4_addr, tables, starved>>, owned \subseteq owned',
         pml4_addr # Absent,
         \A level \in [DOMAIN tables -> 1 .. Levels] :
           Levelled(level) => \A w \in walk' : StandsOn(level, w)
  PROVE  TreeInv'
<1>1. TypedTables
  BY DEF PtmInv, TreeInv
<1>2. PICK level \in [DOMAIN tables -> 1 .. Levels] : Levelled(level)
  BY DEF PtmInv, TreeInv
<1>3. TypedTables'
  BY <1>1 DEF TypedTables
<1>4. Levelled(level)'
  <2>1. IsTree(level)'
    BY <1>2 DEF Levelled, IsTree, NamesTable
  <2>2. \A w \in walk' : StandsOn(level, w)
    BY <1>2
  <2> QED
    BY <2>1, <2>2 DEF Levelled, StandsOn
<1> QED
  BY <1>3, <1>4 DEF TreeInv

LEMMA SameKeeps ==
  ASSUME TreeInv, UNCHANGED <<pml4_addr, tables, walk, starved, owned>>
  PROVE  TreeInv'
<1>1. CASE starved
  BY <1>1 DEF TreeInv
<1>2. CASE ~starved
  <2>1. TypedTables
    BY <1>2 DEF TreeInv
  <2>2. PICK level \in [DOMAIN tables -> 1 .. Levels] : Levelled(level)
    BY <1>2 DEF TreeInv
  <2>3. TypedTables'
    BY <2>1 DEF TypedTables
  <2>4. Levelled(level)'
    <3>1. IsTree(level)'
      BY <2>2 DEF Levelled, IsTree, NamesTable
    <3> QED
      BY <2>2, <3>1 DEF Levelled, StandsOn
  <2> QED
    BY <2>3, <2>4 DEF TreeInv
<1> QED
  BY <1>1, <1>2

\* map_mem starts at the top table.
LEMMA MapKeeps ==
  ASSUME PtmInv, ~starved, UNCHANGED <<pml4_addr, tables, starved>>, owned \subseteq owned',
         pml4_addr # Absent, NEW virt \in Nat, NEW phys \in Nat,
         walk' = {[virt |-> virt, phys |-> phys, level |-> 1, table |-> pml4_addr]}
  PROVE  TreeInv'
<1>1. ASSUME NEW level \in [DOMAIN tables -> 1 .. Levels], Levelled(level), NEW w \in walk'
      PROVE  StandsOn(level, w)
  <2>1. pml4_addr \in DOMAIN tables /\ Levels \in Nat \ {0}
    BY PagingAssumption DEF PtmInv, TreeInv, TypedTables
  <2>2. level[pml4_addr] = 1
    BY <1>1, <2>1 DEF Levelled, IsTree
  <2> QED
    BY <2>1, <2>2 DEF StandsOn
<1> QED
  BY <1>1, WalkKeeps

\* A level that is present is followed to a table one level down.
LEMMA DescendKeeps ==
  ASSUME PtmInv, ~starved, NEW w \in walk, map_descend(w)
  PROVE  TreeInv'
<1>1. /\ w.level < Levels /\ w.table \in DOMAIN tables /\ entry(w) # Absent
      /\ walk' = {[w EXCEPT !.level = @ + 1, !.table = entry(w)]}
      /\ UNCHANGED <<pml4_addr, tables, starved>> /\ owned' = owned
  BY DEF map_descend, vars
<1>2. ASSUME NEW level \in [DOMAIN tables -> 1 .. Levels], Levelled(level)
      PROVE  StandsOn(level, [w EXCEPT !.level = @ + 1, !.table = entry(w)])
  <2>1. /\ w \in [virt : Nat, phys : Nat, level : 1 .. Levels, table : DOMAIN tables]
        /\ level[w.table] = w.level
    BY <1>2 DEF Levelled, StandsOn
  <2>2. index(w.virt, w.level) \in Indices
    BY <2>1, IndexType
  <2>3. entry(w) \in DOMAIN tables /\ level[entry(w)] = w.level + 1
    BY <1>1, <1>2, <2>1, <2>2 DEF Levelled, IsTree, NamesTable, entry, Indices
  <2>4. w.level + 1 \in 1 .. Levels
    BY <1>1, <2>1, PagingAssumption
  <2> HIDE DEF entry
  <2> QED
    BY <2>1, <2>3, <2>4 DEF StandsOn
<1>3. pml4_addr # Absent
  BY DEF PtmInv, TreeInv, TypedTables
<1> QED
  BY <1>1, <1>2, <1>3, WalkKeeps

\* The last level's entry names no table.
LEMMA LeafKeeps ==
  ASSUME PtmInv, ~starved, NEW w \in walk, map_leaf(w)
  PROVE  TreeInv'
<1> DEFINE i == index(w.virt, w.level)
           D == DOMAIN tables
<1>1. /\ w.level = Levels /\ w.table \in D
      /\ tables' = [tables EXCEPT ![w.table][i] = w.phys]
      /\ walk' = {} /\ UNCHANGED <<pml4_addr, starved>> /\ owned' = owned
  BY DEF map_leaf, vars
<1>2. TypedTables
  BY DEF PtmInv, TreeInv
<1>3. PICK level \in [D -> 1 .. Levels] : Levelled(level)
  BY DEF PtmInv, TreeInv
<1>4. /\ w \in [virt : Nat, phys : Nat, level : 1 .. Levels, table : D]
      /\ level[w.table] = Levels
  BY <1>1, <1>3 DEF Levelled, StandsOn
<1>5. i \in Indices
  BY <1>4, IndexType
<1> HIDE DEF i
<1>6. /\ tables' \in [D -> TableOf] /\ DOMAIN tables' = D
      /\ \A t \in D : t # w.table => tables'[t] = tables[t]
  <2>1. tables[w.table] \in TableOf
    BY <1>1, <1>2 DEF TypedTables
  <2>2. [tables[w.table] EXCEPT ![i] = w.phys] \in TableOf
    BY <1>4, <1>5, <2>1 DEF TableOf
  <2> QED
    BY <1>1, <1>2, <2>2 DEF TypedTables
<1>7. TypedTables'
  BY <1>1, <1>2, <1>6 DEF TypedTables
<1>8. IsTree(level)'
  <2>1. \A t \in D, j \in Indices : NamesTable(level, t, j) <=> NamesTable(level, t, j)'
    BY <1>4, <1>6, PagingAssumption DEF NamesTable
  <2>2. \A t \in D, j \in Indices : NamesTable(level, t, j) => tables'[t][j] = tables[t][j]
    BY <1>4, <1>6, PagingAssumption DEF NamesTable
  <2>3. IsTree(level) /\ pml4_addr' = pml4_addr
    BY <1>1, <1>3 DEF Levelled
  <2> HIDE DEF NamesTable
  <2> QED
    BY <1>6, <2>1, <2>2, <2>3 DEF IsTree, Indices
<1> QED
  BY <1>1, <1>3, <1>6, <1>7, <1>8 DEF TreeInv, Levelled

\* A new table is zeroed, in a frame that was no table, and named by one entry.
LEMMA NewTableKeeps ==
  ASSUME PtmInv, ~starved, ~starved', NEW w \in walk, map_new_table(w)
  PROVE  TreeInv'
<1>0. PICK n, i, D : n = returned' /\ i = index(w.virt, w.level) /\ D = DOMAIN tables
  OBVIOUS
<1>1. /\ w.level < Levels /\ w.table \in D /\ entry(w) = Absent /\ request_page
      /\ tables' = [zeroed(n) EXCEPT ![w.table][i] = n]
      /\ walk' = {[w EXCEPT !.level = @ + 1, !.table = n]}
      /\ pml4_addr' = pml4_addr /\ owned' # owned
  BY <1>0 DEF map_new_table
<1>2. TypedTables
  BY DEF PtmInv, TreeInv
<1>3. PICK level \in [D -> 1 .. Levels] : Levelled(level)
  BY <1>0 DEF PtmInv, TreeInv
<1>4. /\ w \in [virt : Nat, phys : Nat, level : 1 .. Levels, table : D]
      /\ level[w.table] = w.level
  BY <1>0, <1>3 DEF Levelled, StandsOn
<1>5. i \in Indices
  BY <1>0, <1>4, IndexType
<1>6. n \in Nat /\ n \notin D /\ n \in owned' /\ D \subseteq owned'
  BY <1>0, <1>1, <1>2, FrameRequested DEF PtmInv, TypedTables
<1>7. pml4_addr \in D /\ pml4_addr # Absent
  BY <1>0, <1>2 DEF TypedTables
<1>8. tables[w.table][i] = Absent
  BY <1>0, <1>1 DEF entry
<1> DEFINE E == D \union {n}
<1>9. EmptyTable \in TableOf /\ \A j \in Indices : EmptyTable[j] = Absent
  BY DEF EmptyTable, TableOf, Indices
<1>10. /\ tables' \in [E -> TableOf] /\ DOMAIN tables' = E
       /\ tables'[n] = EmptyTable
       /\ \A t \in D : t # w.table => tables'[t] = tables[t]
       /\ tables'[w.table][i] = n
       /\ \A j \in Indices : j # i => tables'[w.table][j] = tables[w.table][j]
  <2> DEFINE z == zeroed(n)
  <2>1. /\ z \in [E -> TableOf] /\ z[n] = EmptyTable
        /\ \A t \in D : z[t] = tables[t]
    BY <1>0, <1>2, <1>6, <1>9 DEF zeroed, TypedTables
  <2>2. [z[w.table] EXCEPT ![i] = n] \in TableOf
    <3>1. z[w.table] \in TableOf
      BY <1>1, <2>1
    <3> HIDE DEF z
    <3> QED
      BY <1>5, <1>6, <3>1 DEF TableOf
  <2>3. tables' = [z EXCEPT ![w.table] = [z[w.table] EXCEPT ![i] = n]]
    BY <1>1
  <2> HIDE DEF z
  <2>4. /\ tables' \in [E -> TableOf]
        /\ tables'[w.table] = [z[w.table] EXCEPT ![i] = n]
        /\ \A t \in E : t # w.table => tables'[t] = z[t]
    BY <1>1, <2>1, <2>2, <2>3
  <2>5. n # w.table
    BY <1>1, <1>6
  <2>6. z[w.table] = tables[w.table] /\ z[w.table] \in TableOf
    BY <1>1, <2>1
  <2> QED
    BY <1>5, <2>1, <2>4, <2>5, <2>6 DEF TableOf
<1>11. w.level + 1 \in 1 .. Levels /\ w.level \in 1 .. Levels
  BY <1>1, <1>4, PagingAssumption
<1>12. PICK below \in [E -> 1 .. Levels] :
         below[n] = w.level + 1 /\ \A t \in D : below[t] = level[t]
  <2> DEFINE b == [t \in E |-> IF t = n THEN w.level + 1 ELSE level[t]]
  <2>1. b \in [E -> 1 .. Levels] /\ b[n] = w.level + 1 /\ \A t \in D : b[t] = level[t]
    BY <1>6, <1>11
  <2> HIDE DEF b
  <2> QED
    BY <2>1
<1>13. TypedTables'
  BY <1>1, <1>6, <1>7, <1>10 DEF TypedTables, Absent
<1>14. IsTree(level)
  BY <1>3 DEF Levelled
<1>15. \A t \in E, j \in Indices :
         NamesTable(below, t, j)' <=> (t \in D /\ NamesTable(level, t, j)) \/ (t = w.table /\ j = i)
  <2> SUFFICES ASSUME NEW t \in E, NEW j \in Indices
               PROVE  NamesTable(below, t, j)' <=>
                        (t \in D /\ NamesTable(level, t, j)) \/ (t = w.table /\ j = i)
    OBVIOUS
  <2>1. NamesTable(below, t, j)' <=> below[t] < Levels /\ tables'[t][j] # Absent
    BY DEF NamesTable
  <2>2. CASE t = n
    BY <1>1, <1>6, <1>9, <1>10, <2>1, <2>2
  <2>3. CASE t = w.table /\ j = i
    BY <1>1, <1>4, <1>6, <1>10, <1>12, <2>1, <2>3 DEF Absent
  <2>4. CASE t \in D /\ ~(t = w.table /\ j = i)
    <3>1. below[t] = level[t] /\ tables'[t][j] = tables[t][j]
      BY <1>10, <1>12, <2>4
    <3> QED
      BY <2>1, <2>4, <3>1 DEF NamesTable
  <2> QED
    BY <2>2, <2>3, <2>4
<1>16. \A t \in D, j \in Indices :
         NamesTable(level, t, j) => /\ ~(t = w.table /\ j = i)
                                    /\ tables'[t][j] = tables[t][j]
                                    /\ tables[t][j] \in D
                                    /\ level[tables[t][j]] = level[t] + 1
  BY <1>0, <1>8, <1>10, <1>14 DEF NamesTable, IsTree, Indices
<1>17. IsTree(below)'
  <2> HIDE DEF NamesTable
  <2>1. \A t \in E : below[t] = 1 <=> t = pml4_addr'
    BY <1>0, <1>1, <1>6, <1>7, <1>11, <1>12, <1>14 DEF IsTree
  <2>2. \A t \in E, j \in Indices :
          NamesTable(below, t, j)' =>
            tables'[t][j] \in E /\ below[tables'[t][j]] = below[t] + 1
    BY <1>1, <1>4, <1>10, <1>12, <1>15, <1>16
  <2>3. \A f \in E \ {pml4_addr} :
          \E t \in E, j \in Indices : NamesTable(below, t, j)' /\ tables'[t][j] = f
    <3>1. ASSUME NEW f \in D \ {pml4_addr}
          PROVE  \E t \in E, j \in Indices : NamesTable(below, t, j)' /\ tables'[t][j] = f
      <4>1. PICK t \in D, j \in Indices : NamesTable(level, t, j) /\ tables[t][j] = f
        BY <1>0, <1>14 DEF IsTree, Indices
      <4> QED
        BY <1>15, <1>16, <4>1
    <3>2. NamesTable(below, w.table, i)' /\ tables'[w.table][i] = n
      BY <1>1, <1>5, <1>10, <1>15
    <3> QED
      BY <1>1, <1>5, <3>1, <3>2
  <2>4. \A t, u \in E, j, k \in Indices :
          NamesTable(below, t, j)' /\ NamesTable(below, u, k)' /\ tables'[t][j] = tables'[u][k]
            => t = u /\ j = k
    <3>1. \A t, u \in D, j, k \in Indices :
            NamesTable(level, t, j) /\ NamesTable(level, u, k) /\ tables[t][j] = tables[u][k]
              => t = u /\ j = k
      BY <1>0, <1>14 DEF IsTree, Indices
    <3> QED
      BY <1>6, <1>10, <1>15, <1>16, <3>1
  <2> QED
    <3>1. pml4_addr' = pml4_addr /\ DOMAIN tables' = E
      BY <1>1, <1>10
    <3> HIDE DEF E
    <3> QED
      BY <2>1, <2>2, <2>3, <2>4, <3>1 DEF IsTree, Indices
<1>18. StandsOn(below, [w EXCEPT !.level = @ + 1, !.table = n])'
  BY <1>4, <1>10, <1>11, <1>12 DEF StandsOn
<1> QED
  BY <1>1, <1>10, <1>12, <1>13, <1>17, <1>18 DEF TreeInv, Levelled

\* The top table is zeroed, in a frame of its own.
LEMMA NewManagerKeeps ==
  ASSUME PtmInv, ~starved, ~starved', new_page_table_manager
  PROVE  TreeInv'
<1>0. PICK n : n = returned'
  OBVIOUS
<1>1. /\ pml4_addr = Absent /\ request_page /\ pml4_addr' = n /\ tables' = zeroed(n)
      /\ owned' # owned /\ walk' = walk
  BY <1>0 DEF new_page_table_manager
<1>2. DOMAIN tables = {} /\ walk = {}
  BY <1>1 DEF PtmInv, TreeInv, TypedTables
<1>3. n \in Nat /\ n \in owned'
  BY <1>0, <1>1, FrameRequested DEF PtmInv
<1>4. EmptyTable \in TableOf /\ \A j \in Indices : EmptyTable[j] = Absent
  BY DEF EmptyTable, TableOf, Indices
<1>5. DOMAIN tables' = {n} /\ tables'[n] = EmptyTable /\ tables' \in [{n} -> TableOf]
  BY <1>1, <1>2, <1>4 DEF zeroed
<1>6. TypedTables'
  BY <1>1, <1>3, <1>5 DEF TypedTables, Absent
<1>7. PICK top \in [{n} -> 1 .. Levels] : top[n] = 1
  <2>1. [t \in {n} |-> 1] \in [{n} -> 1 .. Levels] /\ [t \in {n} |-> 1][n] = 1
    BY PagingAssumption
  <2> QED
    BY <2>1
<1>8. IsTree(top)'
  BY <1>1, <1>4, <1>5, <1>7 DEF IsTree, NamesTable, Indices
<1> QED
  BY <1>1, <1>2, <1>5, <1>6, <1>7, <1>8 DEF TreeInv, Levelled

LEMMA StarvedStep ==
  ASSUME PtmInv, [PtmNext]_all_vars
  PROVE  starved' => pml4_addr' # Absent
<1>1. CASE new_page_table_manager
  BY <1>1, FrameRequested DEF new_page_table_manager, PtmInv, Absent
<1>2. ASSUME NEW w \in walk, map_new_table(w) PROVE pml4_addr' # Absent
  BY <1>2 DEF map_new_table, PtmInv, TreeInv, TypedTables
<1>3. ASSUME UNCHANGED <<pml4_addr, starved>> PROVE starved' => pml4_addr' # Absent
  BY <1>3 DEF PtmInv
<1> QED
  BY <1>1, <1>2, <1>3 DEF PtmNext, ptm_vars, all_vars, map_mem, map_mem_requested, map_step,
                          map_descend, map_leaf

LEMMA PtmInvStep == PtmInv /\ [PtmNext]_all_vars => PtmInv'
<1> SUFFICES ASSUME PtmInv, [PtmNext]_all_vars
             PROVE  TreeInv'
  BY CoreStep, StarvedStep DEF PtmInv
<1>1. CASE starved'
  BY <1>1 DEF TreeInv
<1>2. CASE starved
  <2>1. starved'
    BY <1>2 DEF PtmInv, PtmNext, ptm_vars, all_vars, new_page_table_manager, map_mem,
                map_mem_requested, map_step, map_descend, map_new_table, map_leaf
  <2> QED
    BY <1>1, <2>1
<1>3. CASE ~starved /\ ~starved'
  <2>1. CASE read_efi_memory_map /\ UNCHANGED ptm_vars
    <3>1. owned' = owned
      BY <2>1 DEF read_efi_memory_map
    <3> QED
      BY <2>1, <3>1, SameKeeps DEF ptm_vars, PtmInv
  <2>2. CASE new_page_table_manager
    BY <1>3, <2>2, NewManagerKeeps
  <2>3. ASSUME NEW virt \in VirtPages, NEW phys \in PhysFrames, map_mem(virt, phys)
        PROVE  TreeInv'
    <3>1. virt \in Nat /\ phys \in Nat
      BY PagingAssumption
    <3>2. UNCHANGED <<pml4_addr, tables, starved>> /\ owned' = owned /\ pml4_addr # Absent
      BY <2>3 DEF map_mem, vars, Callable
    <3> QED
      BY <1>3, <2>3, <3>1, <3>2, MapKeeps DEF map_mem
  <2>4. ASSUME NEW virt \in VirtPages, map_mem_requested(virt) PROVE TreeInv'
    <3>1. virt \in Nat /\ returned' \in Nat /\ owned \subseteq owned'
      BY <2>4, PagingAssumption, FrameRequested DEF PtmInv, map_mem_requested
    <3> QED
      BY <1>3, <2>4, <3>1, MapKeeps DEF map_mem_requested, Callable
  <2>5. ASSUME NEW w \in walk, map_descend(w) PROVE TreeInv'
    BY <1>3, <2>5, DescendKeeps
  <2>6. ASSUME NEW w \in walk, map_new_table(w) PROVE TreeInv'
    BY <1>3, <2>6, NewTableKeeps
  <2>7. ASSUME NEW w \in walk, map_leaf(w) PROVE TreeInv'
    BY <1>3, <2>7, LeafKeeps
  <2>8. CASE UNCHANGED all_vars
    BY <2>8, SameKeeps DEF all_vars, vars, ptm_vars, PtmInv
  <2> QED
    BY <2>1, <2>2, <2>3, <2>4, <2>5, <2>6, <2>7, <2>8 DEF PtmNext, map_step
<1> QED
  BY <1>1, <1>2, <1>3

LEMMA PtmInvariance == PtmSpec => []PtmInv
<1> QED
  BY PtmInvInit, PtmInvStep, PTL DEF PtmSpec

\* Whatever callers map, the tables are a tree of frames that the allocator gave out:
\* none is shared, none is lost (page_table_manager.cpp:15-75).
THEOREM TablesStayATree == PtmSpec => []TablesAreATree
<1>1. PtmInv => TablesAreATree
  BY DEF PtmInv, TreeInv, TypedTables, Levelled, TablesAreATree
<1> QED
  BY <1>1, PtmInvariance, PTL

-------------------------------------------------------------------------------
(***************************************************************************)
(* The processor's walk.  translate is a recursive function: that it is    *)
(* defined, and what it depends on, is shown by induction, in the form of  *)
(* a set of numbers that has no least one outside it.                      *)
(***************************************************************************)
LEMMA NatSetInduction ==
  ASSUME NEW S, 0 \in S, \A n \in Nat : n \in S => n + 1 \in S
  PROVE  Nat \subseteq S
<1> SUFFICES ASSUME Nat \ S # {} PROVE FALSE
  OBVIOUS
<1>1. PICK m \in Nat \ S : \A y \in Nat \ S : m <= y
  BY MinOfNats
<1>2. m # 0 /\ m - 1 \in Nat
  BY <1>1
<1>3. m - 1 \in S
  BY <1>1, <1>2
<1> QED
  BY <1>1, <1>2, <1>3

\* What a table's entry leads to, and the entries a walk comes to.
Follow(virt, l, t) ==
  IF t \in DOMAIN tables THEN tables[t][mmu_index(virt, l)] ELSE Absent

Walks(virt, f) ==
  f = [l \in 0 .. Levels |-> IF l = 0 THEN pml4_addr ELSE Follow(virt, l, f[l - 1])]

LEMMA WalkExists ==
  ASSUME NEW virt
  PROVE  \E f : Walks(virt, f)
<1> DEFINE Part(n, f) ==
             f = [l \in 0 .. n |-> IF l = 0 THEN pml4_addr ELSE Follow(virt, l, f[l - 1])]
           S == {n \in Nat : \E f : Part(n, f)}
<1>1. 0 \in S
  <2> DEFINE f == [l \in 0 .. 0 |-> pml4_addr]
  <2>1. Part(0, f)
    OBVIOUS
  <2> QED
    BY <2>1
<1>2. ASSUME NEW n \in Nat, n \in S PROVE n + 1 \in S
  <2>1. PICK f : Part(n, f)
    BY <1>2
  <2> DEFINE g == [l \in 0 .. n + 1 |->
                     IF l = n + 1 THEN Follow(virt, n + 1, f[n]) ELSE f[l]]
  <2>2. \A l \in 0 .. n : g[l] = f[l]
    OBVIOUS
  <2>3. ASSUME NEW l \in 0 .. n + 1
        PROVE  g[l] = IF l = 0 THEN pml4_addr ELSE Follow(virt, l, g[l - 1])
    <3>1. CASE l = n + 1
      BY <2>2, <3>1
    <3>2. CASE l \in 0 .. n
      <4>1. f[l] = IF l = 0 THEN pml4_addr ELSE Follow(virt, l, f[l - 1])
        BY <2>1, <3>2
      <4>2. l # 0 => g[l - 1] = f[l - 1]
        BY <2>2, <3>2
      <4>3. g[l] = f[l]
        BY <2>2, <3>2
      <4> HIDE DEF g
      <4> QED
        BY <4>1, <4>2, <4>3
    <3> QED
      BY <3>1, <3>2
  <2>4. g = [l \in 0 .. n + 1 |-> g[l]]
    OBVIOUS
  <2> HIDE DEF g
  <2>5. Part(n + 1, g)
    BY <2>3, <2>4
  <2> QED
    BY <2>5
<1> HIDE DEF S
<1>3. Levels \in S
  BY <1>1, <1>2, NatSetInduction, PagingAssumption
<1> QED
  BY <1>3 DEF S, Walks

LEMMA WalkFacts ==
  ASSUME NEW virt, NEW f, Walks(virt, f)
  PROVE  /\ f[0] = pml4_addr
         /\ \A l \in 1 .. Levels : f[l] = Follow(virt, l, f[l - 1])
<1>1. \A l \in 0 .. Levels : f[l] = IF l = 0 THEN pml4_addr ELSE Follow(virt, l, f[l - 1])
  BY DEF Walks
<1>2. 0 \in 0 .. Levels
  BY PagingAssumption
<1>3. \A l \in 1 .. Levels : l \in 0 .. Levels /\ l # 0
  BY PagingAssumption
<1> QED
  BY <1>1, <1>2, <1>3

LEMMA WalkUnique ==
  ASSUME NEW virt, NEW f, NEW g, Walks(virt, f), Walks(virt, g)
  PROVE  f = g
<1> DEFINE S == {n \in Nat : n > Levels \/ f[n] = g[n]}
<1>0. Levels \in Nat \ {0}
  BY PagingAssumption
<1>1. 0 \in S
  BY WalkFacts
<1>2. ASSUME NEW n \in Nat, n \in S PROVE n + 1 \in S
  <2>1. CASE n + 1 > Levels
    BY <2>1
  <2>2. CASE n + 1 <= Levels
    <3>1. n + 1 \in 1 .. Levels /\ (n + 1) - 1 = n /\ f[n] = g[n]
      BY <1>0, <1>2, <2>2
    <3>2. f[n + 1] = Follow(virt, n + 1, f[n]) /\ g[n + 1] = Follow(virt, n + 1, g[n])
      BY <3>1, WalkFacts
    <3> QED
      BY <3>1, <3>2
  <2> QED
    BY <1>0, <2>1, <2>2
<1> HIDE DEF S
<1>3. Nat \subseteq S
  BY <1>1, <1>2, NatSetInduction
<1>4. \A l \in 0 .. Levels : f[l] = g[l]
  BY <1>0, <1>3 DEF S
<1>5. f = [l \in 0 .. Levels |-> f[l]] /\ g = [l \in 0 .. Levels |-> g[l]]
  BY DEF Walks
<1> QED
  BY <1>4, <1>5

\* What a page translates to is where its walk ends.
LEMMA Translates ==
  ASSUME NEW virt, NEW f, Walks(virt, f)
  PROVE  translate(virt) = f[Levels]
<1> DEFINE at == CHOOSE h : h = [level \in 0 .. Levels |->
                   IF level = 0 THEN pml4_addr
                   ELSE IF h[level - 1] \in DOMAIN tables
                        THEN tables[h[level - 1]][mmu_index(virt, level)]
                        ELSE Absent]
<1>1. at = [level \in 0 .. Levels |->
              IF level = 0 THEN pml4_addr
              ELSE IF at[level - 1] \in DOMAIN tables
                   THEN tables[at[level - 1]][mmu_index(virt, level)]
                   ELSE Absent]
  BY DEF Walks, Follow
<1>2. translate(virt) = at[Levels]
  BY DEF translate
<1> HIDE DEF at
<1>3. Walks(virt, at)
  BY <1>1 DEF Walks, Follow
<1>4. at = f
  BY <1>3, WalkUnique
<1> QED
  BY <1>2, <1>4

-------------------------------------------------------------------------------
(***************************************************************************)
(* The tables implement the address space.  A walk that is not lost stands *)
(* at each level on a table of that level, so that two walks through the   *)
(* same table came there by the same indices.                              *)
(***************************************************************************)

\* No two of the pages that callers map have the same indices at all levels: they
\* are addresses below Fan ^ Levels pages.
PagesDiffer ==
  \A u, v \in VirtPages : (\A l \in 1 .. Levels : index(u, l) = index(v, l)) => u = v

LEMMA SameIndex == \A virt, l : mmu_index(virt, l) = index(virt, l)
  BY DEF mmu_index, index

LEMMA TableFrames ==
  ASSUME PtmInv, ~starved
  PROVE  DOMAIN tables \subseteq Nat /\ Absent \notin DOMAIN tables
<1>1. owned \subseteq Nat
  BY DEF PtmInv, Core, TypeOK
<1> QED
  BY <1>1 DEF PtmInv, TreeInv, TypedTables, Absent

LEMMA PathLevels ==
  ASSUME PtmInv, ~starved, NEW level, Levelled(level), NEW virt \in Nat, NEW f, Walks(virt, f)
  PROVE  \A l \in 0 .. Levels - 1 :
           f[l] = Absent \/ (f[l] \in DOMAIN tables /\ level[f[l]] = l + 1)
<1> DEFINE At(l) == f[l] = Absent \/ (f[l] \in DOMAIN tables /\ level[f[l]] = l + 1)
           S == {n \in Nat : n >= Levels \/ At(n)}
<1>0. Levels \in Nat \ {0}
  BY PagingAssumption
<1>1. 0 \in S
  BY WalkFacts DEF PtmInv, TreeInv, TypedTables, Levelled, IsTree
<1>2. ASSUME NEW n \in Nat, n \in S PROVE n + 1 \in S
  <2>1. CASE n + 1 >= Levels
    BY <2>1
  <2>2. CASE n + 1 < Levels
    <3>1. n + 1 \in 1 .. Levels /\ (n + 1) - 1 = n /\ At(n)
      BY <1>0, <1>2, <2>2
    <3>2. f[n + 1] = Follow(virt, n + 1, f[n])
      BY <3>1, WalkFacts
    <3>3. CASE f[n] \in DOMAIN tables /\ level[f[n]] = n + 1 /\ f[n + 1] # Absent
      <4>1. mmu_index(virt, n + 1) \in Indices
        BY <3>1, IndexType, SameIndex
      <4>2. f[n + 1] = tables[f[n]][mmu_index(virt, n + 1)]
        BY <3>2, <3>3 DEF Follow
      <4>3. f[n + 1] \in DOMAIN tables /\ level[f[n + 1]] = level[f[n]] + 1
        BY <2>2, <3>3, <4>1, <4>2 DEF Levelled, IsTree, NamesTable, Indices
      <4> QED
        BY <3>3, <4>3
    <3>4. CASE f[n] = Absent
      BY <3>2, <3>4, TableFrames DEF Follow
    <3> QED
      BY <3>1, <3>3, <3>4
  <2> QED
    BY <1>0, <2>1, <2>2
<1> HIDE DEF S
<1>3. Nat \subseteq S
  BY <1>1, <1>2, NatSetInduction
<1> QED
  BY <1>0, <1>3 DEF S

\* Two walks that meet at a table have had the same indices.
LEMMA PathsApart ==
  ASSUME PtmInv, ~starved, NEW u \in Nat, NEW v \in Nat, NEW f, NEW g, Walks(u, f), Walks(v, g),
         NEW m \in 0 .. Levels - 1, f[m] = g[m], f[m] # Absent
  PROVE  \A l \in 1 .. m : index(u, l) = index(v, l)
<1> DEFINE Meet(n) == f[n] = g[n] /\ f[n] # Absent
           Same(n) == \A l \in 1 .. n : index(u, l) = index(v, l)
           S == {n \in Nat : n >= Levels \/ (Meet(n) => Same(n))}
<1>0. Levels \in Nat \ {0}
  BY PagingAssumption
<1>1. 0 \in S
  OBVIOUS
<1>2. ASSUME NEW n \in Nat, n \in S PROVE n + 1 \in S
  <2>1. CASE n + 1 >= Levels \/ ~Meet(n + 1)
    BY <2>1
  <2>2. CASE n + 1 < Levels /\ Meet(n + 1)
    <3>1. n + 1 \in 1 .. Levels /\ (n + 1) - 1 = n /\ n \in 0 .. Levels - 1
      BY <1>0, <2>2
    <3>2. PICK level \in [DOMAIN tables -> 1 .. Levels] : Levelled(level)
      BY DEF PtmInv, TreeInv
    <3>3. /\ f[n + 1] = Follow(u, n + 1, f[n])
          /\ g[n + 1] = Follow(v, n + 1, g[n])
      BY <3>1, WalkFacts
    <3>4. /\ f[n] \in DOMAIN tables /\ level[f[n]] = n + 1
          /\ g[n] \in DOMAIN tables /\ level[g[n]] = n + 1
      <4>1. f[n] = Absent \/ (f[n] \in DOMAIN tables /\ level[f[n]] = n + 1)
        BY <3>1, <3>2, PathLevels
      <4>2. g[n] = Absent \/ (g[n] \in DOMAIN tables /\ level[g[n]] = n + 1)
        BY <3>1, <3>2, PathLevels
      <4>3. f[n] # Absent /\ g[n] # Absent
        BY <2>2, <3>3, TableFrames DEF Follow
      <4> QED
        BY <4>1, <4>2, <4>3
    <3>5. index(u, n + 1) \in Indices /\ index(v, n + 1) \in Indices
      BY <3>1, IndexType
    <3>6. /\ f[n + 1] = tables[f[n]][index(u, n + 1)]
          /\ g[n + 1] = tables[g[n]][index(v, n + 1)]
      BY <3>3, <3>4, SameIndex DEF Follow
    <3>7. f[n] = g[n] /\ index(u, n + 1) = index(v, n + 1)
      <4>1. /\ NamesTable(level, f[n], index(u, n + 1))
            /\ NamesTable(level, g[n], index(v, n + 1))
        BY <2>2, <3>4, <3>6 DEF NamesTable
      <4>2. tables[f[n]][index(u, n + 1)] = tables[g[n]][index(v, n + 1)]
        BY <2>2, <3>6
      <4>3. \A t, s \in DOMAIN tables, i, j \in Indices :
              NamesTable(level, t, i) /\ NamesTable(level, s, j) /\ tables[t][i] = tables[s][j]
                => t = s /\ i = j
        BY <3>2 DEF Levelled, IsTree, Indices
      <4> QED
        BY <3>4, <3>5, <4>1, <4>2, <4>3
    <3>8. Meet(n)
      BY <3>4, <3>7, TableFrames
    <3>9. Same(n)
      BY <1>0, <1>2, <2>2, <3>8
    <3> QED
      BY <3>7, <3>9
  <2> QED
    BY <1>0, <2>1, <2>2
<1> HIDE DEF S
<1>3. Nat \subseteq S
  BY <1>1, <1>2, NatSetInduction
<1>4. m \in S /\ ~(m >= Levels)
  BY <1>0, <1>3
<1> QED
  BY <1>4 DEF S

\* A walk that has met an absent entry ends in one.
LEMMA AbsentStays ==
  ASSUME Absent \notin DOMAIN tables, NEW virt, NEW f, Walks(virt, f),
         NEW m \in 0 .. Levels, f[m] = Absent
  PROVE  f[Levels] = Absent
<1> DEFINE S == {n \in Nat : n < m \/ n > Levels \/ f[n] = Absent}
<1>0. Levels \in Nat \ {0}
  BY PagingAssumption
<1>1. 0 \in S
  OBVIOUS
<1>2. ASSUME NEW n \in Nat, n \in S PROVE n + 1 \in S
  <2>1. CASE n + 1 <= m \/ n + 1 > Levels
    BY <1>0, <2>1
  <2>2. CASE n >= m /\ n + 1 <= Levels
    <3>1. n + 1 \in 1 .. Levels /\ (n + 1) - 1 = n /\ f[n] = Absent
      BY <1>0, <1>2, <2>2
    <3> QED
      BY <3>1, WalkFacts DEF Follow
  <2> QED
    BY <1>0, <2>1, <2>2
<1> HIDE DEF S
<1>3. Levels \in S
  BY <1>0, <1>1, <1>2, NatSetInduction
<1> QED
  BY <1>0, <1>3 DEF S

\* A walk is the same when each of the entries it comes to is.
LEMMA WalkSame ==
  ASSUME NEW virt, NEW f, Walks(virt, f), pml4_addr' = pml4_addr,
         \A l \in 1 .. Levels : Follow(virt, l, f[l - 1])' = Follow(virt, l, f[l - 1])
  PROVE  Walks(virt, f)'
<1>1. \A l \in 0 .. Levels : l # 0 => l \in 1 .. Levels
  BY PagingAssumption
<1> HIDE DEF Follow
<1> QED
  BY <1>1 DEF Walks

\* What the walks show, in the next state as in this one.
Shown ==
  \A virt : /\ \E f : Walks(virt, f)
            /\ \A f : Walks(virt, f) => translate(virt) = f[Levels]

LEMMA AlwaysShown == Shown /\ Shown'
<1>1. Shown
  BY WalkExists, Translates DEF Shown
<1> QED
  BY <1>1, PTL

\* The pages translate to the same frames, and the mapping is the same.
LEMMA SameMapping ==
  ASSUME \A v \in VirtPages : translate(v)' = translate(v)
  PROVE  translation' = translation
BY DEF translation

LEMMA SameTables ==
  ASSUME UNCHANGED <<pml4_addr, tables>>
  PROVE  /\ translation' = translation
         /\ \A virt, f : Walks(virt, f) => Walks(virt, f)'
<1>1. \A virt, f : Walks(virt, f) => Walks(virt, f)'
  BY DEF Walks, Follow
<1>2. \A v : translate(v)' = translate(v)
  BY <1>1, AlwaysShown DEF Shown
<1> QED
  BY <1>1, <1>2, SameMapping

\* A call under way is the only one, and stands where the walk of its page comes to.
Reaches(w, f) == Walks(w.virt, f) /\ f[w.level - 1] = w.table

PathInv ==
  ~starved => \A w \in walk : /\ w.virt \in VirtPages /\ \A u \in walk : u = w
                              /\ \E f : Reaches(w, f)

SpaceInv == PtmInv /\ PathInv /\ starved \in BOOLEAN

\* A new table is empty: the pages whose walk comes to it translate to nothing, as
\* before, and the other walks do not change.
LEMMA NewTableShows ==
  ASSUME SpaceInv, ~starved, ~starved', NEW w \in walk, map_new_table(w)
  PROVE  /\ translation' = translation
         /\ PathInv'
<1>0. PICK n, i, D : n = returned' /\ i = index(w.virt, w.level) /\ D = DOMAIN tables
  OBVIOUS
<1>1. /\ w.level < Levels /\ w.table \in D /\ tables[w.table][i] = Absent
      /\ request_page /\ tables' = [zeroed(n) EXCEPT ![w.table][i] = n]
      /\ walk' = {[w EXCEPT !.level = @ + 1, !.table = n]}
      /\ pml4_addr' = pml4_addr /\ owned' # owned
  BY <1>0 DEF map_new_table, entry
<1>2. TypedTables /\ D \subseteq Nat /\ Absent \notin D /\ Levels \in Nat \ {0}
  BY <1>0, TableFrames, PagingAssumption DEF SpaceInv, PtmInv, TreeInv
<1>3. PICK level \in [D -> 1 .. Levels] : Levelled(level)
  BY <1>0 DEF SpaceInv, PtmInv, TreeInv
<1>4. /\ w \in [virt : Nat, phys : Nat, level : 1 .. Levels, table : D]
      /\ level[w.table] = w.level
  BY <1>0, <1>3 DEF Levelled, StandsOn
<1>5. i \in Indices
  BY <1>0, <1>4, IndexType
<1>6. n \in Nat /\ n \notin D /\ n # Absent
  BY <1>0, <1>1, <1>2, FrameRequested DEF SpaceInv, PtmInv, TypedTables, Absent
<1>7. /\ DOMAIN tables' = D \union {n}
      /\ \A j \in Indices : tables'[n][j] = Absent
      /\ \A t \in D : t # w.table => tables'[t] = tables[t]
      /\ tables'[w.table][i] = n
      /\ \A j \in Indices : j # i => tables'[w.table][j] = tables[w.table][j]
  <2> DEFINE z == zeroed(n)
  <2>1. /\ DOMAIN z = D \union {n} /\ z[n] = EmptyTable
        /\ \A t \in D : z[t] = tables[t]
    BY <1>0, <1>6 DEF zeroed
  <2>2. tables[w.table] \in TableOf
    BY <1>0, <1>1, <1>2 DEF TypedTables
  <2>3. tables' = [z EXCEPT ![w.table] = [z[w.table] EXCEPT ![i] = n]]
    BY <1>1
  <2>4. z = [t \in DOMAIN z |-> z[t]]
    BY DEF zeroed
  <2> HIDE DEF z
  <2>5. /\ DOMAIN tables' = D \union {n}
        /\ tables'[w.table] = [z[w.table] EXCEPT ![i] = n]
        /\ \A t \in D \union {n} : t # w.table => tables'[t] = z[t]
    <3>1. w.table \in DOMAIN z
      BY <1>1, <2>1
    <3>2. tables' = [t \in DOMAIN z |->
                       IF t = w.table THEN [z[w.table] EXCEPT ![i] = n] ELSE z[t]]
      BY <2>3, <3>1
    <3> QED
      BY <2>1, <3>1, <3>2
  <2>6. n # w.table /\ z[w.table] \in TableOf
    BY <1>1, <1>6, <2>1, <2>2
  <2>7. \A j \in Indices : tables'[n][j] = Absent
    <3>1. tables'[n] = EmptyTable
      BY <2>1, <2>5, <2>6
    <3> QED
      BY <3>1 DEF EmptyTable, Indices
  <2>8. \A t \in D : t # w.table => tables'[t] = tables[t]
    BY <2>1, <2>5
  <2>9. /\ tables'[w.table][i] = n
        /\ \A j \in Indices : j # i => tables'[w.table][j] = tables[w.table][j]
    <3>1. z[w.table] = tables[w.table]
      BY <1>1, <2>1
    <3> QED
      BY <1>5, <2>2, <2>5, <3>1 DEF TableOf
  <2> QED
    BY <2>5, <2>7, <2>8, <2>9
\* Walks that do not pass through the entry.
<1>8. ASSUME NEW v \in Nat, NEW f, Walks(v, f),
             ~(f[w.level - 1] = w.table /\ index(v, w.level) = i)
      PROVE  Walks(v, f)'
  <2>1. ASSUME NEW l \in 1 .. Levels
        PROVE  Follow(v, l, f[l - 1])' = Follow(v, l, f[l - 1])
    <3>1. l - 1 \in 0 .. Levels - 1 /\ index(v, l) \in Indices
      BY <1>2, IndexType
    <3>2. f[l - 1] = Absent \/ (f[l - 1] \in D /\ level[f[l - 1]] = l)
      BY <1>0, <1>2, <1>3, <1>8, <3>1, PathLevels DEF SpaceInv
    <3>3. CASE f[l - 1] = Absent
      BY <1>0, <1>2, <1>6, <1>7, <3>3 DEF Follow
    <3>4. CASE f[l - 1] \in D /\ f[l - 1] # w.table
      BY <1>0, <1>7, <3>4 DEF Follow
    <3>5. CASE f[l - 1] = w.table /\ level[f[l - 1]] = l
      <4>1. l = w.level /\ index(v, l) # i
        BY <1>4, <1>8, <3>5
      <4>2. tables'[w.table][index(v, l)] = tables[w.table][index(v, l)]
        BY <1>7, <3>1, <4>1
      <4> QED
        BY <1>0, <1>1, <1>7, <3>5, <4>2, SameIndex DEF Follow
    <3> QED
      BY <3>2, <3>3, <3>4, <3>5
  <2> QED
    BY <1>1, <1>8, <2>1, WalkSame
\* Walks that do: they come to the new table, and end there.
<1>9. ASSUME NEW v \in Nat, NEW f, Walks(v, f),
             f[w.level - 1] = w.table, index(v, w.level) = i
      PROVE  /\ f[Levels] = Absent
             /\ \E g : Walks(v, g)' /\ g[w.level] = n /\ g[Levels] = Absent
  <2>1. f[w.level] = Absent
    BY <1>0, <1>1, <1>4, <1>9, WalkFacts, SameIndex DEF Follow
  <2>2. f[Levels] = Absent
    BY <1>0, <1>1, <1>2, <1>4, <1>9, <2>1, AbsentStays
  <2> DEFINE g == [l \in 0 .. Levels |->
                     IF l < w.level THEN f[l] ELSE IF l = w.level THEN n ELSE Absent]
  <2>3. /\ \A l \in 0 .. w.level - 1 : g[l] = f[l]
        /\ g[w.level] = n
        /\ \A l \in 0 .. Levels : l > w.level => g[l] = Absent
    <3>1. w.level \in 0 .. Levels /\ \A l \in 0 .. w.level - 1 : l \in 0 .. Levels /\ l < w.level
      BY <1>2, <1>4
    <3>2. w.level \in Int /\ \A l \in 0 .. Levels : l > w.level => ~(l < w.level) /\ l # w.level
      BY <1>2, <1>4
    <3> QED
      BY <3>1, <3>2
  <2>4. g = [l \in 0 .. Levels |-> g[l]]
    OBVIOUS
  <2> HIDE DEF g
  <2>5. g[0] = pml4_addr'
    BY <1>1, <1>4, <1>9, <2>3, WalkFacts
  <2>6. ASSUME NEW l \in 1 .. Levels
        PROVE  g[l] = Follow(v, l, g[l - 1])'
    <3>0. l - 1 \in 0 .. Levels - 1 /\ index(v, l) \in Indices
      BY <1>2, IndexType
    <3>1. CASE l < w.level
      <4>1. f[l - 1] = Absent \/ (f[l - 1] \in D /\ level[f[l - 1]] = l)
        BY <1>0, <1>2, <1>3, <1>9, <3>0, PathLevels DEF SpaceInv
      <4>2. g[l - 1] = f[l - 1] /\ g[l] = f[l] /\ f[l] = Follow(v, l, f[l - 1])
        BY <1>4, <1>9, <2>3, <3>1, WalkFacts
      <4>3. f[l - 1] # w.table
        BY <1>4, <3>1, <4>1, <1>1, <1>2
      <4>4. f[l - 1] \in DOMAIN tables <=> f[l - 1] \in DOMAIN tables'
        BY <1>0, <1>2, <1>6, <1>7, <4>1
      <4> QED
        BY <1>0, <1>7, <4>1, <4>2, <4>3, <4>4 DEF Follow
    <3>2. CASE l = w.level
      <4>1. g[l - 1] = w.table /\ g[l] = n
        BY <1>4, <1>9, <2>3, <3>2
      <4> QED
        BY <1>1, <1>7, <1>9, <3>2, <4>1, SameIndex DEF Follow
    <3>3. CASE l = w.level + 1
      <4>1. g[l - 1] = n /\ g[l] = Absent
        BY <1>2, <1>4, <2>3, <3>3
      <4> QED
        BY <1>7, <3>0, <4>1, SameIndex DEF Follow
    <3>4. CASE l > w.level + 1
      <4>1. g[l - 1] = Absent /\ g[l] = Absent
        <5>1. l - 1 \in 0 .. Levels /\ l \in 0 .. Levels /\ l - 1 > w.level /\ l > w.level
          BY <1>2, <1>4, <3>4
        <5> QED
          BY <2>3, <5>1
      <4> QED
        BY <1>2, <1>6, <1>7, <4>1 DEF Follow
    <3> QED
      BY <1>4, <3>1, <3>2, <3>3, <3>4
  <2>7. \A l \in 0 .. Levels : g[l] = IF l = 0 THEN pml4_addr' ELSE Follow(v, l, g[l - 1])'
    BY <1>2, <2>5, <2>6
  <2>8. Walks(v, g)'
    BY <2>4, <2>7 DEF Walks
  <2>9. g[Levels] = Absent
    BY <1>1, <1>2, <1>4, <2>3
  <2> QED
    BY <2>2, <2>3, <2>8, <2>9
<1>10. ASSUME NEW v \in VirtPages PROVE translate(v)' = translate(v)
  <2>1. v \in Nat
    BY PagingAssumption
  <2>2. PICK f : Walks(v, f)
    BY WalkExists
  <2>3. translate(v) = f[Levels]
    BY <2>2, AlwaysShown DEF Shown
  <2>4. CASE f[w.level - 1] = w.table /\ index(v, w.level) = i
    <3>1. f[Levels] = Absent /\ \E g : Walks(v, g)' /\ g[w.level] = n /\ g[Levels] = Absent
      BY <1>9, <2>1, <2>2, <2>4
    <3> QED
      BY <2>3, <3>1, AlwaysShown DEF Shown
  <2>5. CASE ~(f[w.level - 1] = w.table /\ index(v, w.level) = i)
    <3>1. Walks(v, f)'
      BY <1>8, <2>1, <2>2, <2>5
    <3> QED
      BY <2>3, <3>1, AlwaysShown DEF Shown
  <2> QED
    BY <2>4, <2>5
<1>11. PathInv'
  <2>1. PICK f : Reaches(w, f)
    BY DEF SpaceInv, PathInv
  <2>2. w.virt \in VirtPages /\ w.virt \in Nat
    BY <1>4 DEF SpaceInv, PathInv
  <2>3. PICK g : Walks(w.virt, g)' /\ g[w.level] = n
    BY <1>0, <1>9, <2>1, <2>2 DEF Reaches
  <2>4. PICK u : u = [w EXCEPT !.level = @ + 1, !.table = n]
    OBVIOUS
  <2>5. u.virt = w.virt /\ u.level - 1 = w.level /\ u.table = n
    BY <1>4, <2>4
  <2>6. Reaches(u, g)'
    BY <2>3, <2>5 DEF Reaches
  <2>7. walk' = {u}
    BY <1>1, <2>4
  <2> QED
    BY <2>2, <2>5, <2>6, <2>7 DEF PathInv
<1> QED
  BY <1>10, <1>11, SameMapping

\* The last level's entry is the page's own: the walk of no other page comes to it.
LEMMA LeafShows ==
  ASSUME PagesDiffer, SpaceInv, ~starved, NEW w \in walk, map_leaf(w)
  PROVE  /\ w.virt \in VirtPages /\ w.phys \in Nat /\ walk = {w}
         /\ translate(w.virt)' = w.phys
         /\ \A v \in VirtPages : v # w.virt => translate(v)' = translate(v)
<1>0. PICK i, D : i = index(w.virt, w.level) /\ D = DOMAIN tables
  OBVIOUS
<1>1. /\ w.level = Levels /\ w.table \in D
      /\ tables' = [tables EXCEPT ![w.table][i] = w.phys]
      /\ pml4_addr' = pml4_addr
  BY <1>0 DEF map_leaf
<1>2. TypedTables /\ D \subseteq Nat /\ Absent \notin D /\ Levels \in Nat \ {0}
  BY <1>0, TableFrames, PagingAssumption DEF SpaceInv, PtmInv, TreeInv
<1>3. PICK level \in [D -> 1 .. Levels] : Levelled(level)
  BY <1>0 DEF SpaceInv, PtmInv, TreeInv
<1>4. /\ w \in [virt : Nat, phys : Nat, level : 1 .. Levels, table : D]
      /\ level[w.table] = Levels
  BY <1>0, <1>1, <1>3 DEF Levelled, StandsOn
<1>5. i \in Indices
  BY <1>0, <1>4, IndexType
<1>6. PICK p : Reaches(w, p)
  BY DEF SpaceInv, PathInv
<1>7. w.virt \in VirtPages /\ w.virt \in Nat /\ walk = {w}
  BY <1>4 DEF SpaceInv, PathInv
<1>8. /\ DOMAIN tables' = D
      /\ \A t \in D : t # w.table => tables'[t] = tables[t]
      /\ tables'[w.table][i] = w.phys
      /\ \A j \in Indices : j # i => tables'[w.table][j] = tables[w.table][j]
  BY <1>0, <1>1, <1>2, <1>5 DEF TypedTables, TableOf
<1>9. ASSUME NEW v \in Nat, NEW f, Walks(v, f), NEW l \in 1 .. Levels,
             ~(f[l - 1] = w.table /\ l = Levels /\ index(v, l) = i)
      PROVE  Follow(v, l, f[l - 1])' = Follow(v, l, f[l - 1])
  <2>1. l - 1 \in 0 .. Levels - 1 /\ index(v, l) \in Indices
    BY <1>2, <1>9, IndexType
  <2>2. f[l - 1] = Absent \/ (f[l - 1] \in D /\ level[f[l - 1]] = l)
    BY <1>0, <1>2, <1>3, <1>9, <2>1, PathLevels DEF SpaceInv
  <2>3. CASE f[l - 1] # w.table
    BY <1>0, <1>8, <2>3 DEF Follow
  <2>4. CASE f[l - 1] = w.table
    <3>1. l = Levels /\ index(v, l) # i
      BY <1>2, <1>4, <1>1, <1>9, <2>2, <2>4
    <3>2. tables'[w.table][index(v, l)] = tables[w.table][index(v, l)]
      BY <1>8, <2>1, <3>1
    <3> QED
      BY <1>0, <1>1, <1>8, <2>4, <3>2, SameIndex DEF Follow
  <2> QED
    BY <2>3, <2>4
\* A page whose walk comes to the entry is the page the call maps.
<1>10. ASSUME NEW v \in VirtPages, NEW f, Walks(v, f),
              f[Levels - 1] = w.table, index(v, Levels) = i
       PROVE  v = w.virt
  <2>1. v \in Nat /\ Levels - 1 \in 0 .. Levels - 1
    BY <1>2, PagingAssumption
  <2>2. p[Levels - 1] = w.table /\ Walks(w.virt, p)
    BY <1>1, <1>6 DEF Reaches
  <2>3. w.table # Absent
    BY <1>1, <1>2
  <2>4. \A l \in 1 .. Levels - 1 : index(v, l) = index(w.virt, l)
    BY <1>7, <1>10, <2>1, <2>2, <2>3, PathsApart DEF SpaceInv
  <2>5. \A l \in 1 .. Levels : index(v, l) = index(w.virt, l)
    BY <1>0, <1>1, <1>2, <1>10, <2>4
  <2> QED
    BY <1>7, <2>5 DEF PagesDiffer
<1>11. ASSUME NEW v \in VirtPages, v # w.virt PROVE translate(v)' = translate(v)
  <2>1. v \in Nat
    BY PagingAssumption
  <2>2. PICK f : Walks(v, f)
    BY WalkExists
  <2>3. ASSUME NEW l \in 1 .. Levels
        PROVE  Follow(v, l, f[l - 1])' = Follow(v, l, f[l - 1])
    BY <1>9, <1>10, <1>11, <2>1, <2>2
  <2>4. Walks(v, f)'
    BY <1>1, <2>2, <2>3, WalkSame
  <2> QED
    BY <2>2, <2>4, AlwaysShown DEF Shown
<1>12. translate(w.virt)' = w.phys
  <2>1. Walks(w.virt, p) /\ p[Levels - 1] = w.table
    BY <1>1, <1>6 DEF Reaches
  <2> DEFINE g == [l \in 0 .. Levels |-> IF l = Levels THEN w.phys ELSE p[l]]
  <2>2. g[Levels] = w.phys /\ \A l \in 0 .. Levels - 1 : g[l] = p[l]
    BY <1>2
  <2>3. g = [l \in 0 .. Levels |-> g[l]]
    OBVIOUS
  <2> HIDE DEF g
  <2>4. g[0] = pml4_addr'
    BY <1>1, <1>2, <2>1, <2>2, WalkFacts
  <2>5. ASSUME NEW l \in 1 .. Levels
        PROVE  g[l] = Follow(w.virt, l, g[l - 1])'
    <3>0. l - 1 \in 0 .. Levels - 1
      BY <1>2
    <3>1. CASE l = Levels
      <4>1. g[l] = w.phys /\ g[l - 1] = w.table
        BY <1>2, <2>1, <2>2, <3>1, <3>0
      <4> QED
        BY <1>0, <1>1, <1>8, <3>1, <4>1, SameIndex DEF Follow
    <3>2. CASE l # Levels
      <4>1. g[l] = p[l] /\ g[l - 1] = p[l - 1]
        BY <1>2, <2>2, <3>0, <3>2
      <4>2. Follow(w.virt, l, p[l - 1])' = Follow(w.virt, l, p[l - 1])
        BY <1>7, <1>9, <2>1, <3>2
      <4> QED
        BY <2>1, <4>1, <4>2, WalkFacts
    <3> QED
      BY <3>1, <3>2
  <2>6. \A l \in 0 .. Levels :
          g[l] = IF l = 0 THEN pml4_addr' ELSE Follow(w.virt, l, g[l - 1])'
    BY <1>2, <2>4, <2>5
  <2>7. Walks(w.virt, g)'
    BY <2>3, <2>6 DEF Walks
  <2> QED
    BY <2>2, <2>7, AlwaysShown DEF Shown
<1> QED
  BY <1>4, <1>7, <1>11, <1>12

\* Until there is a top table nothing is mapped, and nothing is when it is new.
NothingShown ==
  Absent \notin DOMAIN tables =>
    \A virt, f, m : Walks(virt, f) /\ m \in 0 .. Levels /\ f[m] = Absent => f[Levels] = Absent

LEMMA NeverShown == NothingShown /\ NothingShown'
<1>1. NothingShown
  BY AbsentStays DEF NothingShown
<1> QED
  BY <1>1, PTL

LEMMA EmptyMapping ==
  ASSUME \A v \in VirtPages : translate(v) = Absent
  PROVE  translation = << >>
<1> HIDE DEF translate
<1>1. {v \in VirtPages : translate(v) # Absent} = {}
  OBVIOUS
<1> QED
  BY <1>1 DEF translation

LEMMA NewManagerShows ==
  ASSUME SpaceInv, ~starved, ~starved', new_page_table_manager
  PROVE  translation' = translation /\ PathInv' /\ walk' = walk
<1>0. PICK n : n = returned'
  OBVIOUS
<1>1. /\ pml4_addr = Absent /\ request_page /\ pml4_addr' = n /\ tables' = zeroed(n)
      /\ owned' # owned /\ walk' = walk
  BY <1>0 DEF new_page_table_manager
<1>2. DOMAIN tables = {} /\ walk = {} /\ Levels \in Nat \ {0}
  BY <1>1, PagingAssumption DEF SpaceInv, PtmInv, TreeInv, TypedTables
<1>3. n \in Nat /\ n # Absent
  BY <1>0, <1>1, FrameRequested DEF SpaceInv, PtmInv, Absent
<1>4. DOMAIN tables' = {n} /\ \A j \in Indices : tables'[n][j] = Absent
  BY <1>1, <1>2 DEF zeroed, EmptyTable, Indices
<1>5. ASSUME NEW v \in VirtPages PROVE translate(v)' = translate(v)
  <2>1. v \in Nat
    BY PagingAssumption
  <2>2. PICK f : Walks(v, f)
    BY WalkExists
  <2>3. f[0] = Absent /\ 0 \in 0 .. Levels
    BY <1>1, <1>2, <2>2, WalkFacts
  <2>4. translate(v) = Absent
    BY <1>2, <2>2, <2>3, AlwaysShown, NeverShown DEF Shown, NothingShown
  <2>5. PICK g : Walks(v, g)'
    BY AlwaysShown DEF Shown
  <2>6. 0 \in 0 .. Levels /\ 1 \in 0 .. Levels /\ 1 \in 1 .. Levels
    BY <1>2
  <2>7. g[0] = n /\ g[1] = Follow(v, 1, g[0])'
    BY <1>1, <2>5, <2>6 DEF Walks
  <2>8. g[1] = Absent
    BY <1>4, <2>1, <2>6, <2>7, IndexType, SameIndex DEF Follow
  <2>9. translate(v)' = Absent
    BY <1>3, <1>4, <2>5, <2>6, <2>8, AlwaysShown, NeverShown DEF Shown, NothingShown
  <2> QED
    BY <2>4, <2>9
<1> QED
  BY <1>1, <1>2, <1>5, SameMapping DEF PathInv

\* A call starts at the top table, where every walk does.
LEMMA MapShows ==
  ASSUME ~starved, UNCHANGED <<pml4_addr, tables, starved>>, NEW virt \in VirtPages, NEW phys,
         walk' = {[virt |-> virt, phys |-> phys, level |-> 1, table |-> pml4_addr]}
  PROVE  translation' = translation /\ PathInv'
<1>1. PICK f : Walks(virt, f)
  BY WalkExists
<1>2. PICK w : w = [virt |-> virt, phys |-> phys, level |-> 1, table |-> pml4_addr]
  OBVIOUS
<1>3. w.virt = virt /\ w.level - 1 = 0 /\ w.table = pml4_addr
  BY <1>2
<1>4. Walks(virt, f)' /\ f[0] = pml4_addr
  BY <1>1, SameTables, WalkFacts
<1>5. Reaches(w, f)'
  BY <1>3, <1>4 DEF Reaches
<1>6. walk' = {w}
  BY <1>2
<1> QED
  BY <1>3, <1>5, <1>6, SameTables DEF PathInv

LEMMA DescendShows ==
  ASSUME SpaceInv, ~starved, NEW w \in walk, map_descend(w)
  PROVE  translation' = translation /\ PathInv'
<1>1. PICK f : Reaches(w, f)
  BY DEF SpaceInv, PathInv
<1>2. /\ w.table \in DOMAIN tables
      /\ walk' = {[w EXCEPT !.level = @ + 1, !.table = entry(w)]}
      /\ UNCHANGED <<pml4_addr, tables, starved>>
  BY DEF map_descend
<1>3. PICK level \in [DOMAIN tables -> 1 .. Levels] : Levelled(level)
  BY DEF SpaceInv, PtmInv, TreeInv
<1>4. w \in [virt : Nat, phys : Nat, level : 1 .. Levels, table : DOMAIN tables]
  BY <1>3 DEF Levelled, StandsOn
<1>5. f[w.level] = entry(w)
  BY <1>1, <1>2, <1>4, WalkFacts, SameIndex DEF Reaches, Follow, entry
<1>6. PICK e : e = entry(w)
  OBVIOUS
<1>7. PICK u : u = [w EXCEPT !.level = @ + 1, !.table = e]
  OBVIOUS
<1>8. u.virt = w.virt /\ u.level - 1 = w.level /\ u.table = e
  BY <1>4, <1>7
<1>9. Walks(w.virt, f)'
  BY <1>1, <1>2, SameTables DEF Reaches
<1>10. Reaches(u, f)'
  BY <1>5, <1>6, <1>8, <1>9 DEF Reaches
<1>11. w.virt \in VirtPages
  BY DEF SpaceInv, PathInv
<1>12. walk' = {u}
  BY <1>2, <1>6, <1>7
<1> QED
  BY <1>2, <1>8, <1>10, <1>11, <1>12, SameTables DEF PathInv

LEMMA StillShows ==
  ASSUME PathInv, UNCHANGED <<pml4_addr, tables, walk, starved>>
  PROVE  translation' = translation /\ PathInv'
<1>1. \A w, f : Reaches(w, f) => Reaches(w, f)'
  BY SameTables DEF Reaches
<1> QED
  BY <1>1, SameTables DEF PathInv

LEMMA StarvedType == starved \in BOOLEAN /\ [PtmNext]_all_vars => starved' \in BOOLEAN
  BY DEF PtmNext, ptm_vars, all_vars, new_page_table_manager, map_mem, map_mem_requested,
         map_step, map_descend, map_new_table, map_leaf

\* Every step of the page tables is a step of the address space, or none.
LEMMA SpaceStep ==
  ASSUME PagesDiffer, SpaceInv, [PtmNext]_all_vars
  PROVE  PathInv' /\ [Space!Next]_(Space!vars)
<1> DEFINE asked == {[virt |-> u.virt, phys |-> u.phys] : u \in walk}
<1>0. starved \in BOOLEAN /\ starved' \in BOOLEAN
  BY StarvedType DEF SpaceInv
<1>1. CASE starved'
  BY <1>0, <1>1 DEF PathInv, Space!Next, Space!Lapse
<1>2. CASE starved
  <2>1. starved'
    BY <1>2 DEF SpaceInv, PtmInv, PtmNext, ptm_vars, all_vars, new_page_table_manager, map_mem,
                map_mem_requested, map_step, map_descend, map_new_table, map_leaf
  <2> QED
    BY <1>1, <2>1
<1>3. ASSUME translation' = translation, walk' = walk, starved' = starved
      PROVE  [Space!Next]_(Space!vars)
  <2>1. asked' = asked
    BY <1>3
  <2>2. <<translation, asked, starved>>' = <<translation, asked, starved>>
    BY <1>3, <2>1
  <2> QED
    BY <2>2 DEF Space!vars
<1>4. ASSUME NEW virt \in VirtPages, NEW phys \in Nat, walk = {}, translation' = translation,
             walk' = {[virt |-> virt, phys |-> phys, level |-> 1, table |-> pml4_addr]},
             starved' = starved
      PROVE  Space!Next
  <2>1. asked = {} /\ asked' = {[virt |-> virt, phys |-> phys]}
    BY <1>4
  <2>2. PICK c : c = [virt |-> virt, phys |-> phys]
    OBVIOUS
  <2> HIDE DEF asked
  <2>3. Space!Ask
    BY <1>4, <2>1, <2>2 DEF Space!Ask, asked
  <2> QED
    BY <2>3 DEF Space!Next
<1>5. CASE ~starved /\ ~starved'
  <2>0. starved' = starved
    BY <1>0, <1>5
  <2>1. CASE read_efi_memory_map /\ UNCHANGED ptm_vars
    BY <1>3, <1>5, <2>0, <2>1, StillShows DEF ptm_vars, SpaceInv
  <2>2. CASE new_page_table_manager
    BY <1>3, <1>5, <2>0, <2>2, NewManagerShows
  <2>3. ASSUME NEW virt \in VirtPages, NEW phys \in PhysFrames, map_mem(virt, phys)
        PROVE  PathInv' /\ [Space!Next]_(Space!vars)
    <3>1. phys \in Nat
      BY PagingAssumption
    <3>2. translation' = translation /\ PathInv'
      BY <1>5, <2>3, MapShows DEF map_mem
    <3> QED
      BY <1>4, <1>5, <2>0, <2>3, <3>1, <3>2 DEF map_mem, Callable
  <2>4. ASSUME NEW virt \in VirtPages, map_mem_requested(virt)
        PROVE  PathInv' /\ [Space!Next]_(Space!vars)
    <3>1. returned' \in Nat
      BY <2>4, FrameRequested DEF SpaceInv, PtmInv, map_mem_requested
    <3>2. translation' = translation /\ PathInv'
      BY <1>5, <2>4, MapShows DEF map_mem_requested
    <3> QED
      BY <1>4, <1>5, <2>0, <2>4, <3>1, <3>2 DEF map_mem_requested, Callable
  <2>5. ASSUME NEW w \in walk, NEW e, translation' = translation,
               walk' = {[w EXCEPT !.level = @ + 1, !.table = e]}
        PROVE  [Space!Next]_(Space!vars)
    <3>1. walk = {w}
      BY <1>5 DEF SpaceInv, PathInv
    <3>2. PICK level \in [DOMAIN tables -> 1 .. Levels] : Levelled(level)
      BY <1>5 DEF SpaceInv, PtmInv, TreeInv
    <3>3. w \in [virt : Nat, phys : Nat, level : 1 .. Levels, table : DOMAIN tables]
      BY <3>2 DEF Levelled, StandsOn
    <3>4. PICK u : u = [w EXCEPT !.level = @ + 1, !.table = e]
      OBVIOUS
    <3>5. u.virt = w.virt /\ u.phys = w.phys
      BY <3>3, <3>4
    <3>6. asked' = asked
      BY <2>5, <3>1, <3>4, <3>5
    <3>7. <<translation, asked, starved>>' = <<translation, asked, starved>>
      BY <2>0, <2>5, <3>6
    <3> QED
      BY <3>7 DEF Space!vars
  <2>6. ASSUME NEW w \in walk, map_descend(w)
        PROVE  PathInv' /\ [Space!Next]_(Space!vars)
    BY <1>5, <2>5, <2>6, DescendShows DEF map_descend
  <2>7. ASSUME NEW w \in walk, map_new_table(w)
        PROVE  PathInv' /\ [Space!Next]_(Space!vars)
    BY <1>5, <2>5, <2>7, NewTableShows DEF map_new_table
  <2>8. ASSUME NEW w \in walk, map_leaf(w)
        PROVE  PathInv' /\ [Space!Next]_(Space!vars)
    <3>1. /\ w.virt \in VirtPages /\ w.phys \in Nat /\ walk = {w}
          /\ translate(w.virt)' = w.phys
          /\ \A v \in VirtPages : v # w.virt => translate(v)' = translate(v)
      BY <1>5, <2>8, LeafShows
    <3>2. walk' = {} /\ asked = {[virt |-> w.virt, phys |-> w.phys]} /\ asked' = {}
      BY <2>8, <3>1 DEF map_leaf
    <3>3. w.phys # Absent
      BY <3>1 DEF Absent
    <3> DEFINE now == [v \in DOMAIN translation \union {w.virt} |->
                         IF v = w.virt THEN w.phys ELSE translation[v]]
    <3>4. translation' = now
      <4> HIDE DEF translate
      <4>1. DOMAIN translation = {v \in VirtPages : translate(v) # Absent}
        BY DEF translation
      <4>2. {v \in VirtPages : translate(v)' # Absent} = DOMAIN translation \union {w.virt}
        BY <3>1, <3>3, <4>1
      <4>3. \A v \in DOMAIN translation \union {w.virt} :
              translate(v)' = IF v = w.virt THEN w.phys ELSE translation[v]
        BY <3>1, <4>1 DEF translation
      <4> QED
        BY <4>2, <4>3 DEF translation
    <3>5. Space!Serve
      <4>1. [virt |-> w.virt, phys |-> w.phys].virt = w.virt
            /\ [virt |-> w.virt, phys |-> w.phys].phys = w.phys
        OBVIOUS
      <4> QED
        BY <1>5, <2>0, <3>2, <3>4, <4>1 DEF Space!Serve
    <3>6. PathInv'
      BY <3>2 DEF PathInv
    <3> QED
      BY <3>5, <3>6 DEF Space!Next
  <2>9. CASE UNCHANGED all_vars
    BY <1>3, <1>5, <2>0, <2>9, StillShows DEF all_vars, ptm_vars, SpaceInv
  <2> QED
    BY <2>1, <2>2, <2>3, <2>4, <2>6, <2>7, <2>8, <2>9 DEF PtmNext, map_step
<1> QED
  BY <1>1, <1>2, <1>5

LEMMA SpaceStart ==
  ASSUME PtmInit
  PROVE  PathInv /\ Space!Init
<1>1. pml4_addr = Absent /\ DOMAIN tables = {} /\ walk = {} /\ starved = FALSE
  BY DEF PtmInit
<1>2. ASSUME NEW v \in VirtPages PROVE translate(v) = Absent
  <2>1. PICK f : Walks(v, f)
    BY WalkExists
  <2>2. 0 \in 0 .. Levels /\ f[0] = Absent
    BY <1>1, <2>1, WalkFacts, PagingAssumption
  <2> QED
    BY <1>1, <2>1, <2>2, AlwaysShown, NeverShown DEF Shown, NothingShown
<1>3. translation = << >>
  BY <1>2, EmptyMapping
<1> QED
  BY <1>1, <1>3 DEF PathInv, Space!Init

\* Seen through the processor's walk, a call of map_mem maps the page it is asked to and
\* no other, at the step that sets the last entry, whatever callers map and in whatever
\* order, for as long as there are frames for tables (page_table_manager.cpp:15-75).
THEOREM TablesImplementSpace ==
  ASSUME PagesDiffer
  PROVE  PtmSpec => SpaceSpec
<1>1. PtmInit => SpaceInv /\ Space!Init
  BY PtmInvInit, SpaceStart DEF SpaceInv, PtmInit
<1>2. SpaceInv /\ [PtmNext]_all_vars => SpaceInv' /\ [Space!Next]_(Space!vars)
  BY PtmInvStep, SpaceStep, StarvedType DEF SpaceInv
<1> QED
  BY <1>1, <1>2, PTL DEF PtmSpec, SpaceSpec, Space!Spec
===============================================================================
