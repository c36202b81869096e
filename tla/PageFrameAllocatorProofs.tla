----------------------- MODULE PageFrameAllocatorProofs -----------------------
(***************************************************************************)
(* Proofs about PageFrameAllocator for every memory map and every value of *)
(* the constants.                                                          *)
(***************************************************************************)
EXTENDS PageFrameAllocator, FiniteSetTheorems, WellFoundedInduction, TLAPS

-------------------------------------------------------------------------------
(***************************************************************************)
(* Lemmas on the operators the allocator is built from.                    *)
(***************************************************************************)
\* Min picks the least element of a non-empty set of naturals.
LEMMA MinOfNats ==
  ASSUME NEW S \in SUBSET Nat, S # {}
  PROVE  Min(S) \in S /\ \A y \in S : Min(S) <= y
<1> DEFINE less == {ss \in Nat \X Nat : ss[1] < ss[2]}
<1>1. IsWellFoundedOn(less, Nat)
  BY NatLessThanWellFounded DEF OpToRel
<1> HIDE DEF less
<1>2. PICK x \in S : \A y \in S : <<y, x>> \notin less
  BY <1>1, WFMin
<1>3. ASSUME NEW y \in S PROVE x <= y
  <2>1. CASE y < x
    <3>1. <<y, x>> \in less
      BY <2>1, x \in Nat, y \in Nat DEF less
    <3> QED
      BY <3>1, <1>2
  <2> QED
    BY <2>1, x \in Nat, y \in Nat
<1> QED
  BY <1>2, <1>3 DEF Min

\* What lies below a number lies below a larger one.
LEMMA BelowSmaller ==
  ASSUME NEW a \in Nat, NEW b \in Nat, a <= b, NEW i \in 0 .. a - 1
  PROVE  i \in Nat /\ i < a /\ i < b
OBVIOUS

\* Max of two naturals.
LEMMA MaxOfTwo ==
  ASSUME NEW a \in Nat, NEW b \in Nat
  PROVE  Max({a, b}) = IF a >= b THEN a ELSE b
<1> DEFINE m == IF a >= b THEN a ELSE b
<1>1. m \in {a, b} /\ \A y \in {a, b} : m >= y
  OBVIOUS
<1>2. \A x \in {a, b} : (\A y \in {a, b} : x >= y) => x = m
  OBVIOUS
<1> QED
  BY <1>1, <1>2 DEF Max

\* Euclid: a number is its quotient and its remainder.
LEMMA ModRange ==
  ASSUME NEW M \in Nat \ {0}, NEW x \in Int
  PROVE  x % M \in 0 .. M - 1 /\ x \div M \in Int /\ x = M * (x \div M) + (x % M)
OBVIOUS

LEMMA ModUnique ==
  ASSUME NEW M \in Nat \ {0}, NEW q \in Int, NEW r \in 0 .. M - 1
  PROVE  (M * q + r) % M = r
OBVIOUS

LEMMA ModAdd ==
  ASSUME NEW M \in Nat \ {0}, NEW x \in Int, NEW k \in Int
  PROVE  ((x % M) + k) % M = (x + k) % M
<1> DEFINE q == x \div M
           y == x % M
           r == (x + k) % M
           p == (x + k) \div M
<1>1. x = M * q + y /\ q \in Int /\ y \in 0 .. M - 1
  BY ModRange
<1>2. x + k = M * p + r /\ p \in Int /\ r \in 0 .. M - 1
  BY ModRange
<1> HIDE DEF q, y, r, p
<1>3. p - q \in Int
  BY <1>1, <1>2
<1>4. (M * (p - q) + r) % M = r
  BY <1>3, <1>2, ModUnique
<1>5. M * (p - q) = M * p - M * q
  BY <1>1, <1>2
<1>6. y + k = M * (p - q) + r
  <2> DEFINE mp == M * p
             mq == M * q
             mpq == M * (p - q)
  <2>1. mp \in Int /\ mq \in Int /\ mpq = mp - mq /\ x = mq + y /\ x + k = mp + r
    BY <1>1, <1>2, <1>5
  <2> HIDE DEF mp, mq, mpq
  <2>2. y + k = mpq + r
    BY <2>1, <1>1, <1>2
  <2> QED
    BY <2>2 DEF mpq
<1> QED
  BY <1>4, <1>6 DEF y, r

\* Counters that wrap add up: wrapping early or late is the same.
LEMMA WrapAdd ==
  ASSUME NEW x \in Int, NEW k \in Int
  PROVE  Wrap(Wrap(x) + k) = Wrap(x + k)
BY ModAdd, ConstantsAssumption DEF Wrap

LEMMA WrapType ==
  ASSUME NEW x \in Int
  PROVE  Wrap(x) \in 0 .. CounterMod - 1
BY ConstantsAssumption DEF Wrap

\* A range loop touches only indices the bitmap's bounds test lets through.
LEMMA ReachedType ==
  ASSUME NEW addr, NEW page_count, NEW bytes \in Nat
  PROVE  /\ Reached(addr, page_count, bytes) \in SUBSET (0 .. bytes * BitsPerByte)
         /\ Reached(addr, page_count, bytes) \in SUBSET Nat
BY ConstantsAssumption DEF Reached

\* Below 2^31 bytes the int product is exact, and a range loop reaches its range.
LEMMA ReachedExact ==
  ASSUME NEW addr \in Nat, NEW page_count \in 0 .. IntFrames, NEW bytes \in Nat
  PROVE  Reached(addr, page_count, bytes) =
           (addr .. addr + page_count - 1) \cap 0 .. bytes * BitsPerByte
<1>1. ASSUME NEW i \in 0 .. page_count - 1 PROVE IntOffset(i) = i
  <2> DEFINE M == 2 * IntFrames
             r == i + IntFrames
  <2>1. IntFrames \in Nat \ {0}
    BY ConstantsAssumption
  <2>2. M \in Nat \ {0} /\ r \in 0 .. M - 1
    BY <2>1
  <2>3. r % M = r
    <3> HIDE DEF M, r
    <3>1. (M * 0 + r) % M = r
      BY <2>2, ModUnique
    <3> QED
      BY <2>2, <3>1
  <2> QED
    BY <2>1, <2>3 DEF IntOffset
<1>2. {addr + IntOffset(i) : i \in 0 .. page_count - 1} =
        {addr + i : i \in 0 .. page_count - 1}
  BY <1>1
<1>3. {addr + i : i \in 0 .. page_count - 1} = addr .. addr + page_count - 1
  <2>1. ASSUME NEW a \in addr .. addr + page_count - 1
        PROVE  a - addr \in 0 .. page_count - 1 /\ a = addr + (a - addr)
    BY ConstantsAssumption
  <2> QED
    BY <2>1, ConstantsAssumption
<1> QED
  BY <1>2, <1>3 DEF Reached

LEMMA FiniteBits ==
  ASSUME NEW bytes \in Nat, NEW S \in SUBSET (0 .. bytes * BitsPerByte)
  PROVE  IsFiniteSet(S) /\ Cardinality(S) \in Nat
<1>1. bytes * BitsPerByte \in Nat
  BY ConstantsAssumption
<1>2. IsFiniteSet(0 .. bytes * BitsPerByte)
  BY <1>1, FS_Interval
<1>3. IsFiniteSet(S)
  BY <1>2, FS_Subset
<1> QED
  BY <1>3, FS_CardinalityType

LEMMA MapTypes ==
  ASSUME NEW map \in MemMaps
  PROVE  /\ get_memory_size(map) \in Nat
         /\ bitmap_size(get_memory_size(map)) \in Nat \ {0}
         /\ largest_free_mem_seg(map) \in Nat
<1>1. get_memory_size(map) \in Nat
  BY MemMapsAssumption
<1>2. bitmap_size(get_memory_size(map)) \in Nat \ {0}
  BY <1>1, ConstantsAssumption DEF bitmap_size
<1>3. largest_free_mem_seg(map) \in Nat
  <2> DEFINE longest == {i \in Conventional(map) :
                           /\ map[i].num_pages > 0
                           /\ \A j \in Conventional(map) :
                                map[j].num_pages <= map[i].num_pages}
  <2>1. longest \subseteq DOMAIN map
    BY DEF Conventional
  <2>2. longest \in SUBSET Nat
    BY <2>1, MemMapsAssumption
  <2>3. CASE longest = {}
    BY <2>3 DEF largest_free_mem_seg, NULL
  <2>4. CASE longest # {}
    <3>1. Min(longest) \in DOMAIN map
      BY <2>1, <2>2, <2>4, MinOfNats
    <3>2. map[Min(longest)].phys_addr \in Nat
      BY <3>1, MemMapsAssumption
    <3> HIDE DEF longest
    <3>3. largest_free_mem_seg(map) = map[Min(longest)].phys_addr
      BY <2>4 DEF largest_free_mem_seg, longest
    <3> QED
      BY <3>2, <3>3
  <2> QED
    BY <2>3, <2>4
<1> QED
  BY <1>1, <1>2, <1>3
-------------------------------------------------------------------------------
(***************************************************************************)
(* The invariant that holds with no assumption on the memory map: before   *)
(* the map is read there is no bitmap; afterwards the scan index never     *)
(* runs ahead of a clear bit and what is handed out is marked.             *)
(***************************************************************************)
BeforeBoot ==
  ~initialized =>
    /\ size = 0 /\ page_bitmap_index = 0
    /\ bits = {} /\ owned = {} /\ pinned = {}

Core == TypeOK /\ BeforeBoot /\ HintSound /\ HeldFramesAreMarked

\* What request_page returns when it finds a frame.
LEMMA FoundFrame ==
  ASSUME Core, Candidates # {}
  PROVE  /\ Min(Candidates) \in 0 .. size - 1
         /\ Min(Candidates) >= page_bitmap_index
         /\ Min(Candidates) \notin bits
         /\ 0 .. Min(Candidates) - 1 \subseteq bits
<1>1. size \in Nat /\ page_bitmap_index \in Nat
  BY DEF Core, TypeOK
<1>2. Candidates \in SUBSET Nat
  BY <1>1 DEF Candidates
<1>3. Min(Candidates) \in Candidates /\ \A y \in Candidates : Min(Candidates) <= y
  BY <1>2, MinOfNats
<1>4. Min(Candidates) \in page_bitmap_index .. size - 1 /\ Min(Candidates) \notin bits
  BY <1>3 DEF Candidates
<1>5. ASSUME NEW i \in 0 .. Min(Candidates) - 1 PROVE i \in bits
  <2>1. CASE i < page_bitmap_index
    BY <2>1, <1>1 DEF Core, HintSound
  <2>2. CASE i >= page_bitmap_index
    BY <2>2, <1>1, <1>3, <1>4 DEF Candidates
  <2> QED
    BY <2>1, <2>2, <1>1, <1>4
<1> QED
  BY <1>1, <1>4, <1>5

LEMMA CoreInit == Init => Core
<1> SUFFICES ASSUME Init PROVE Core
  OBVIOUS
<1>1. {free_memory, reserved_memory, used_memory} \subseteq 0 .. CounterMod - 1
  BY ConstantsAssumption DEF Init
<1>2. {size, buffer, page_bitmap_index, returned} \subseteq Nat
  BY DEF Init, NULL
<1>3. bits \subseteq 0 .. size * BitsPerByte /\ {owned, pinned} \subseteq SUBSET Nat
  BY DEF Init
<1>4. TypeOK
  BY <1>1, <1>2, <1>3 DEF Init, TypeOK
<1> QED
  BY <1>4 DEF Init, Core, BeforeBoot, HintSound, HeldFramesAreMarked

LEMMA CoreRead ==
  ASSUME Core, read_efi_memory_map
  PROVE  Core'
<1> DEFINE n == get_memory_size(mem_map)
           bytes == bitmap_size(n)
           buf == largest_free_mem_seg(mem_map)
           usable == UNION {Reached(mem_map[i].phys_addr, mem_map[i].num_pages, bytes) :
                              i \in Conventional(mem_map)}
<1>1. n \in Nat /\ bytes \in Nat \ {0} /\ buf \in Nat
  BY MapTypes DEF Core, TypeOK
<1>2. PICK garbage \in SUBSET {bytes * BitsPerByte} :
        LET all      == newly_set(Reached(0, n + 1, bytes), garbage)
            returns  == usable \cap (garbage \union all)
            rest     == (garbage \union all) \ returns
            bios     == newly_set(bios_pages(bytes), rest)
            own      == newly_set(bitmap_pages(buf, bytes), rest \union bios)
            reserved == Cardinality(all) - Cardinality(returns) + Cardinality(bios)
        IN  /\ stray' = Cardinality(garbage)
            /\ bits' = rest \union bios \union own
            /\ pinned' = own
            /\ used_memory' = Wrap(Cardinality(own))
            /\ reserved_memory' = Wrap(reserved)
            /\ free_memory' = Wrap(n - reserved - Cardinality(own))
  BY DEF read_efi_memory_map
<1> DEFINE all      == newly_set(Reached(0, n + 1, bytes), garbage)
           returns  == usable \cap (garbage \union all)
           rest     == (garbage \union all) \ returns
           bios     == newly_set(bios_pages(bytes), rest)
           own      == newly_set(bitmap_pages(buf, bytes), rest \union bios)
           index    == 0 .. bytes * BitsPerByte
<1>3. bytes * BitsPerByte \in Nat
  BY <1>1, ConstantsAssumption
<1>4. /\ garbage \in SUBSET index /\ all \in SUBSET index
      /\ bios \in SUBSET index /\ own \in SUBSET index
  BY <1>1, <1>3, ReachedType DEF newly_set, bios_pages, bitmap_pages
<1>5. returns \in SUBSET index /\ rest \in SUBSET index
  BY <1>4
<1>6. ~initialized /\ initialized' = TRUE /\ size' = bytes /\ buffer' = buf
      /\ UNCHANGED <<mem_map, page_bitmap_index, returned, owned>>
  BY DEF read_efi_memory_map
<1>7. /\ stray' = Cardinality(garbage)
      /\ bits' = rest \union bios \union own
      /\ pinned' = own
      /\ used_memory' = Wrap(Cardinality(own))
      /\ reserved_memory' =
           Wrap(Cardinality(all) - Cardinality(returns) + Cardinality(bios))
      /\ free_memory' =
           Wrap(n - (Cardinality(all) - Cardinality(returns) + Cardinality(bios))
                  - Cardinality(own))
  BY <1>2
<1>8. stray' \in {0, 1}
  <2>1. garbage = {} \/ garbage = {bytes * BitsPerByte}
    BY <1>2
  <2> QED
    BY <2>1, <1>7, FS_EmptySet, FS_Singleton
<1>9. /\ Cardinality(all) \in Nat /\ Cardinality(returns) \in Nat
      /\ Cardinality(bios) \in Nat /\ Cardinality(own) \in Nat
  <2> HIDE DEF all, returns, bios, own
  <2> QED
    BY <1>1, <1>4, <1>5, FiniteBits
<1> HIDE DEF n, bytes, buf, usable, all, returns, rest, bios, own
<1>10. {free_memory, reserved_memory, used_memory}' \subseteq 0 .. CounterMod - 1
  BY <1>1, <1>7, <1>9, WrapType
<1>11. TypeOK'
  BY <1>1, <1>3, <1>4, <1>5, <1>6, <1>7, <1>8, <1>10 DEF Core, TypeOK, BeforeBoot
<1>12. BeforeBoot' /\ HintSound' /\ HeldFramesAreMarked'
  BY <1>1, <1>6, <1>7 DEF Core, BeforeBoot, HintSound, HeldFramesAreMarked
<1> QED
  BY <1>11, <1>12 DEF Core

LEMMA CoreRequest ==
  ASSUME Core, request_page
  PROVE  Core'
<1>1. initialized /\ UNCHANGED <<geometry, reserved_memory, pinned>>
  BY DEF request_page
<1>2. CASE Candidates # {}
  <2> DEFINE frame == Min(Candidates)
  <2>1. /\ frame \in 0 .. size - 1 /\ frame >= page_bitmap_index
        /\ frame \notin bits /\ 0 .. frame - 1 \subseteq bits
    BY <1>2, FoundFrame
  <2>2. /\ returned' = frame /\ page_bitmap_index' = frame
        /\ bits' = bits \union {frame} /\ owned' = owned \union {frame}
        /\ free_memory' = Wrap(free_memory - 1)
        /\ used_memory' = Wrap(used_memory + 1)
    BY <1>2 DEF request_page
  <2> HIDE DEF frame
  <2>3. frame \in 0 .. size * BitsPerByte
    <3>1. size * BitsPerByte >= size
      BY ConstantsAssumption DEF Core, TypeOK
    <3> QED
      BY <2>1, <3>1, ConstantsAssumption DEF Core, TypeOK
  <2>4. {free_memory, reserved_memory, used_memory}' \subseteq 0 .. CounterMod - 1
    BY <1>1, <2>2, WrapType DEF Core, TypeOK
  <2>5. TypeOK'
    <3>1. bits' \subseteq 0 .. size' * BitsPerByte
      BY <1>1, <2>2, <2>3 DEF Core, TypeOK, geometry
    <3>2. frame \in Nat
      BY <2>1
    <3>3. {size, buffer, page_bitmap_index, returned}' \subseteq Nat
      BY <1>1, <2>2, <3>2 DEF Core, TypeOK, geometry
    <3>4. {owned, pinned}' \subseteq SUBSET Nat
      BY <1>1, <2>2, <3>2 DEF Core, TypeOK
    <3> QED
      BY <1>1, <2>4, <3>1, <3>3, <3>4 DEF Core, TypeOK, geometry
  <2>6. HintSound'
    <3>1. page_bitmap_index' <= size'
      BY <1>1, <2>1, <2>2 DEF Core, TypeOK, geometry
    <3>2. 0 .. page_bitmap_index' - 1 \subseteq bits'
      BY <2>1, <2>2
    <3> QED
      BY <3>1, <3>2 DEF HintSound
  <2>7. BeforeBoot' /\ HeldFramesAreMarked'
    BY <1>1, <2>1, <2>2 DEF Core, BeforeBoot, HeldFramesAreMarked, geometry
  <2> QED
    BY <2>5, <2>6, <2>7 DEF Core
<1>3. CASE Candidates = {}
  <2>1. /\ returned' = NULL /\ page_bitmap_index' = Max({page_bitmap_index, size})
        /\ UNCHANGED <<bits, owned, free_memory, used_memory>>
    BY <1>3 DEF request_page
  <2>2. page_bitmap_index' = size
    BY <2>1, MaxOfTwo DEF Core, TypeOK, HintSound
  <2>3. TypeOK'
    BY <1>1, <2>1, <2>2 DEF Core, TypeOK, geometry, NULL
  <2>4. 0 .. size - 1 \subseteq bits
    BY <1>3 DEF Candidates, Core, TypeOK, HintSound
  <2>5. HintSound'
    <3>1. size' = size /\ size \in Nat
      BY <1>1 DEF geometry, Core, TypeOK
    <3>2. page_bitmap_index' <= size'
      BY <2>2, <3>1
    <3>3. 0 .. page_bitmap_index' - 1 \subseteq bits'
      BY <2>1, <2>2, <2>4
    <3> QED
      BY <3>2, <3>3 DEF HintSound
  <2>6. BeforeBoot' /\ HeldFramesAreMarked'
    BY <1>1, <2>1 DEF Core, BeforeBoot, HeldFramesAreMarked, geometry
  <2> QED
    BY <2>3, <2>5, <2>6 DEF Core
<1> QED
  BY <1>2, <1>3

LEMMA CoreLock ==
  ASSUME Core, NEW addr, NEW page_count, lock_pages(addr, page_count)
  PROVE  Core'
<1> DEFINE fresh == newly_set(Reached(addr, page_count, size), bits)
<1>1. /\ initialized
      /\ bits' = bits \union fresh /\ pinned' = pinned \union fresh
      /\ free_memory' = Wrap(free_memory - Cardinality(fresh))
      /\ used_memory' = Wrap(used_memory + Cardinality(fresh))
      /\ UNCHANGED <<geometry, page_bitmap_index, reserved_memory, returned, owned>>
  BY DEF lock_pages
<1>2. fresh \in SUBSET (0 .. size * BitsPerByte) /\ fresh \cap bits = {}
  BY ReachedType DEF newly_set, Core, TypeOK
<1>3. fresh \in SUBSET Nat /\ Cardinality(fresh) \in Nat
  <2> HIDE DEF fresh
  <2> QED
    BY <1>2, FiniteBits DEF Core, TypeOK
<1> HIDE DEF fresh
<1>4. {free_memory, reserved_memory, used_memory}' \subseteq 0 .. CounterMod - 1
  BY <1>1, <1>3, WrapType DEF Core, TypeOK
<1>5. TypeOK'
  BY <1>1, <1>2, <1>3, <1>4 DEF Core, TypeOK, geometry
<1>6. BeforeBoot' /\ HintSound' /\ HeldFramesAreMarked'
  BY <1>1, <1>2 DEF Core, BeforeBoot, HintSound, HeldFramesAreMarked, geometry
<1> QED
  BY <1>5, <1>6 DEF Core

LEMMA CoreFree ==
  ASSUME Core, NEW addr \in Nat, NEW page_count \in 1 .. MaxRun,
         free_pages(addr, page_count)
  PROVE  Core'
<1> DEFINE reached == Reached(addr, page_count, size)
           cleared == reached \cap bits
<1>1. /\ initialized
      /\ bits' = bits \ cleared /\ owned' = owned \ cleared
      /\ free_memory' = Wrap(free_memory + Cardinality(cleared))
      /\ used_memory' = Wrap(used_memory - Cardinality(cleared))
      /\ page_bitmap_index' = Min({page_bitmap_index} \union cleared)
      /\ UNCHANGED <<geometry, reserved_memory, returned, pinned>>
  BY DEF free_pages, lowered_index
<1>2. cleared \in SUBSET owned
  <2>1. reached = (addr .. addr + page_count - 1) \cap 0 .. size * BitsPerByte
    <3>1. page_count \in 0 .. IntFrames
      BY ConstantsAssumption
    <3> QED
      BY <3>1, ReachedExact DEF Core, TypeOK
  <2> QED
    BY <2>1 DEF free_pages
<1>3. cleared \in SUBSET Nat /\ Cardinality(cleared) \in Nat
  <2>1. cleared \in SUBSET (0 .. size * BitsPerByte)
    BY DEF Core, TypeOK
  <2> HIDE DEF cleared
  <2> QED
    BY <2>1, FiniteBits DEF Core, TypeOK
<1> HIDE DEF reached, cleared
<1>4. {free_memory, reserved_memory, used_memory}' \subseteq 0 .. CounterMod - 1
  BY <1>1, <1>3, WrapType DEF Core, TypeOK
<1>5. /\ page_bitmap_index' \in {page_bitmap_index} \union cleared
      /\ \A i \in {page_bitmap_index} \union cleared : page_bitmap_index' <= i
  <2> DEFINE S == {page_bitmap_index} \union cleared
  <2>1. S \in SUBSET Nat /\ S # {}
    BY <1>3 DEF Core, TypeOK
  <2>2. page_bitmap_index' = Min(S)
    BY <1>1
  <2> HIDE DEF S
  <2>3. page_bitmap_index' \in S /\ \A i \in S : page_bitmap_index' <= i
    BY <2>1, <2>2, MinOfNats
  <2> QED
    BY <2>3 DEF S
<1>6. TypeOK'
  BY <1>1, <1>3, <1>4, <1>5 DEF Core, TypeOK, geometry
<1>7. HintSound'
  <2>1. page_bitmap_index \in Nat /\ page_bitmap_index' \in Nat /\ size' = size
        /\ size \in Nat /\ page_bitmap_index <= size
    BY <1>1, <1>3, <1>5 DEF Core, TypeOK, HintSound, geometry
  <2>2. page_bitmap_index' <= page_bitmap_index
    BY <1>5
  <2>3. ASSUME NEW i, i \in 0 .. page_bitmap_index' - 1 PROVE i \in bits'
    <3>1. i \in Nat /\ i < page_bitmap_index' /\ i < page_bitmap_index
      BY <2>1, <2>2, <2>3, BelowSmaller
    <3>2. i \in bits
      BY <2>1, <3>1 DEF Core, HintSound
    <3>3. i \notin cleared
      BY <1>5, <2>1, <3>1
    <3> QED
      BY <1>1, <3>2, <3>3
  <2>4. page_bitmap_index' <= size'
    BY <2>1, <2>2
  <2> QED
    BY <2>3, <2>4 DEF HintSound
<1>8. BeforeBoot' /\ HeldFramesAreMarked'
  BY <1>1, <1>2 DEF Core, BeforeBoot, HeldFramesAreMarked, geometry
<1> QED
  BY <1>6, <1>7, <1>8 DEF Core

\* A step of the allocator is one of its calls, with the arguments callers pass.
LEMMA CoreNext == Core /\ [Next]_vars => Core'
<1> SUFFICES ASSUME Core, [Next]_vars PROVE Core'
  OBVIOUS
<1>1. CASE read_efi_memory_map
  BY <1>1, CoreRead
<1>2. CASE request_page
  BY <1>2, CoreRequest
<1>3. ASSUME NEW range \in LockRanges, lock_pages(range[1], range[2]) PROVE Core'
  BY <1>3, CoreLock
<1>4. ASSUME NEW addr \in owned, NEW page_count \in 1 .. MaxRun,
             free_pages(addr, page_count)
      PROVE  Core'
  <2>1. addr \in Nat
    BY DEF Core, TypeOK
  <2> QED
    BY <1>4, <2>1, CoreFree
<1>5. CASE UNCHANGED vars
  BY <1>5 DEF vars, geometry, counters, Core, TypeOK, BeforeBoot, HintSound,
     HeldFramesAreMarked
<1> QED
  BY <1>1, <1>2, <1>3, <1>4, <1>5 DEF Next

THEOREM CoreInvariant == Spec => []Core
<1> QED
  BY CoreInit, CoreNext, PTL DEF Spec

\* The variables keep their types: in particular no range loop sets a bit
\* outside the bitmap, and the counters stay within 64 bits.
THEOREM TypeCorrect == Spec => []TypeOK
<1>1. Core => TypeOK
  BY DEF Core
<1> QED
  BY <1>1, CoreInvariant, PTL

\* The scan index is sound: no clear bit ever lies below it, for any history of
\* requests, locks and frees.
THEOREM HintIsSound == Spec => []HintSound
<1>1. Core => HintSound
  BY DEF Core
<1> QED
  BY <1>1, CoreInvariant, PTL

\* A frame that is handed out keeps its bit until it is given back, so no
\* frame has two holders.
THEOREM HeldFramesMarked == Spec => []HeldFramesAreMarked
<1>1. Core => HeldFramesAreMarked
  BY DEF Core
<1> QED
  BY <1>1, CoreInvariant, PTL

\* request_page fails only when every index below its scan limit is set.
THEOREM RequestIsComplete == Spec => RequestFindsAFrame
<1>1. Core /\ [Next]_vars =>
        [request_page /\ owned' = owned => 0 .. size - 1 \subseteq bits]_vars
  <2> SUFFICES ASSUME Core, request_page, owned' = owned
               PROVE  0 .. size - 1 \subseteq bits
    OBVIOUS
  <2>1. Candidates = {}
    <3>1. SUFFICES ASSUME Candidates # {} PROVE FALSE
      OBVIOUS
    <3>2. Min(Candidates) \notin bits
      BY <3>1, FoundFrame
    <3>3. Min(Candidates) \in owned'
      BY <3>1 DEF request_page
    <3> QED
      BY <3>2, <3>3 DEF Core, HeldFramesAreMarked
  <2> QED
    BY <2>1 DEF Candidates, Core, TypeOK, HintSound
<1> QED
  BY <1>1, CoreInvariant, PTL DEF Spec, RequestFindsAFrame

-------------------------------------------------------------------------------
(***************************************************************************)
(* The counters.  CountersMatchBitmap is inductive together with Core.     *)
(***************************************************************************)
LEMMA CardinalityOfUnion ==
  ASSUME NEW S, NEW T, IsFiniteSet(S), IsFiniteSet(T), S \cap T = {}
  PROVE  Cardinality(S \union T) = Cardinality(S) + Cardinality(T)
<1>1. Cardinality(S \union T) = Cardinality(S) + Cardinality(T) - Cardinality(S \cap T)
  BY FS_Union
<1>2. Cardinality(S \cap T) = 0 /\ Cardinality(S) \in Nat /\ Cardinality(T) \in Nat
  BY FS_EmptySet, FS_CardinalityType
<1> QED
  BY <1>1, <1>2

LEMMA CardinalityOfRest ==
  ASSUME NEW S, NEW T \in SUBSET S, IsFiniteSet(S)
  PROVE  Cardinality(S \ T) = Cardinality(S) - Cardinality(T)
<1>1. Cardinality(S \ T) = Cardinality(S) - Cardinality(S \cap T)
  BY FS_Difference
<1>2. S \cap T = T
  OBVIOUS
<1> QED
  BY <1>1, <1>2

Counted == Core /\ CountersMatchBitmap

\* The counts of the bits that the invariant relates, and the finite sets they count.
LEMMA CountsAreNumbers ==
  ASSUME Core
  PROVE  /\ IsFiniteSet(bits) /\ IsFiniteSet(owned \union pinned)
         /\ IsFiniteSet(bits \ (owned \union pinned))
         /\ Cardinality(bits) \in Nat /\ Cardinality(owned \union pinned) \in Nat
         /\ Cardinality(bits \ (owned \union pinned)) \in Nat
         /\ mem_size \in Nat /\ stray \in {0, 1}
<1>1. size \in Nat /\ bits \in SUBSET (0 .. size * BitsPerByte)
  BY DEF Core, TypeOK
<1>2. /\ owned \union pinned \in SUBSET (0 .. size * BitsPerByte)
      /\ bits \ (owned \union pinned) \in SUBSET (0 .. size * BitsPerByte)
  BY <1>1 DEF Core, HeldFramesAreMarked
<1>3. mem_size \in Nat
  BY MapTypes DEF Core, TypeOK, mem_size
<1> QED
  BY <1>1, <1>2, <1>3, FiniteBits DEF Core, TypeOK

LEMMA CountedRead ==
  ASSUME Counted, read_efi_memory_map
  PROVE  CountersMatchBitmap'
<1> DEFINE n == get_memory_size(mem_map)
           bytes == bitmap_size(n)
           buf == largest_free_mem_seg(mem_map)
           usable == UNION {Reached(mem_map[i].phys_addr, mem_map[i].num_pages, bytes) :
                              i \in Conventional(mem_map)}
<1>1. n \in Nat /\ bytes \in Nat
  BY MapTypes DEF Counted, Core, TypeOK
<1>2. PICK garbage \in SUBSET {bytes * BitsPerByte} :
        LET all      == newly_set(Reached(0, n + 1, bytes), garbage)
            returns  == usable \cap (garbage \union all)
            rest     == (garbage \union all) \ returns
            bios     == newly_set(bios_pages(bytes), rest)
            own      == newly_set(bitmap_pages(buf, bytes), rest \union bios)
            reserved == Cardinality(all) - Cardinality(returns) + Cardinality(bios)
        IN  /\ stray' = Cardinality(garbage)
            /\ bits' = rest \union bios \union own
            /\ pinned' = own
            /\ used_memory' = Wrap(Cardinality(own))
            /\ reserved_memory' = Wrap(reserved)
            /\ free_memory' = Wrap(n - reserved - Cardinality(own))
  BY DEF read_efi_memory_map
<1> DEFINE all      == newly_set(Reached(0, n + 1, bytes), garbage)
           returns  == usable \cap (garbage \union all)
           rest     == (garbage \union all) \ returns
           bios     == newly_set(bios_pages(bytes), rest)
           own      == newly_set(bitmap_pages(buf, bytes), rest \union bios)
           index    == 0 .. bytes * BitsPerByte
<1>3. /\ stray' = Cardinality(garbage)
      /\ bits' = rest \union bios \union own
      /\ pinned' = own
      /\ used_memory' = Wrap(Cardinality(own))
      /\ reserved_memory' =
           Wrap(Cardinality(all) - Cardinality(returns) + Cardinality(bios))
      /\ free_memory' =
           Wrap(n - (Cardinality(all) - Cardinality(returns) + Cardinality(bios))
                  - Cardinality(own))
  BY <1>2
<1>4. owned' = {} /\ mem_size' = n
  BY DEF read_efi_memory_map, Counted, Core, BeforeBoot, mem_size
<1>5. /\ garbage \in SUBSET index /\ all \in SUBSET index
      /\ bios \in SUBSET index /\ own \in SUBSET index
  <2>1. bytes * BitsPerByte \in Nat
    BY <1>1, ConstantsAssumption
  <2> QED
    BY <1>1, <2>1, ReachedType DEF newly_set, bios_pages, bitmap_pages
<1>6. /\ garbage \cap all = {} /\ returns \in SUBSET (garbage \union all)
      /\ rest = (garbage \union all) \ returns
      /\ bios \cap rest = {} /\ own \cap (rest \union bios) = {}
  BY DEF newly_set
<1> HIDE DEF n, usable, all, returns, rest, bios, own
<1>7. /\ returns \in SUBSET index /\ garbage \union all \in SUBSET index
      /\ rest \in SUBSET index /\ rest \union bios \in SUBSET index
  BY <1>5, <1>6
<1> HIDE DEF bytes
<1>8. ASSUME NEW S \in SUBSET index PROVE IsFiniteSet(S) /\ Cardinality(S) \in Nat
  BY <1>1, FiniteBits
<1> HIDE DEF index
<1>9. /\ IsFiniteSet(garbage) /\ IsFiniteSet(all) /\ IsFiniteSet(garbage \union all)
      /\ IsFiniteSet(returns) /\ IsFiniteSet(rest) /\ IsFiniteSet(bios)
      /\ IsFiniteSet(rest \union bios) /\ IsFiniteSet(own)
  BY <1>5, <1>7, <1>8
<1>10. /\ Cardinality(garbage) \in Nat /\ Cardinality(all) \in Nat
       /\ Cardinality(returns) \in Nat /\ Cardinality(rest) \in Nat
       /\ Cardinality(bios) \in Nat /\ Cardinality(own) \in Nat
  BY <1>5, <1>7, <1>8
<1>11. Cardinality(garbage \union all) = Cardinality(garbage) + Cardinality(all)
  BY <1>6, <1>9, CardinalityOfUnion
<1>12. Cardinality(rest) = Cardinality(garbage) + Cardinality(all) - Cardinality(returns)
  <2>1. Cardinality((garbage \union all) \ returns) =
          Cardinality(garbage \union all) - Cardinality(returns)
    BY <1>6, <1>9, CardinalityOfRest
  <2>2. rest = (garbage \union all) \ returns
    BY <1>6
  <2>3. Cardinality(rest) = Cardinality(garbage \union all) - Cardinality(returns)
    BY <2>1, <2>2, Zenon
  <2> QED
    BY <1>10, <1>11, <2>3
<1>13. Cardinality(rest \union bios) = Cardinality(rest) + Cardinality(bios)
  BY <1>6, <1>9, CardinalityOfUnion
<1>14. Cardinality(rest \union bios \union own) =
         Cardinality(rest) + Cardinality(bios) + Cardinality(own)
  BY <1>6, <1>9, <1>13, CardinalityOfUnion
<1>15. owned' \union pinned' = own /\ bits' \ (owned' \union pinned') = rest \union bios
  BY <1>3, <1>4, <1>6
<1>16. used_memory' = Wrap(Cardinality(owned' \union pinned'))
  BY <1>3, <1>15
<1>17. reserved_memory' = Wrap(Cardinality(bits' \ (owned' \union pinned')) - stray')
  <2>1. Cardinality(all) - Cardinality(returns) + Cardinality(bios)
          = Cardinality(rest \union bios) - Cardinality(garbage)
    BY <1>10, <1>12, <1>13
  <2> QED
    BY <1>3, <1>15, <2>1
<1>18. free_memory' = Wrap(mem_size' + stray' - Cardinality(bits'))
  <2>1. n - (Cardinality(all) - Cardinality(returns) + Cardinality(bios)) - Cardinality(own)
          = n + Cardinality(garbage) - Cardinality(rest \union bios \union own)
    BY <1>1, <1>10, <1>12, <1>14
  <2> QED
    BY <1>3, <1>4, <2>1
<1> QED
  BY <1>16, <1>17, <1>18 DEF CountersMatchBitmap

LEMMA CountedRequest ==
  ASSUME Counted, request_page
  PROVE  CountersMatchBitmap'
<1>1. Core /\ CountersMatchBitmap /\ initialized
      /\ UNCHANGED <<geometry, reserved_memory, pinned>>
  BY DEF Counted, request_page
<1>2. CASE Candidates = {}
  BY <1>1, <1>2, Zenon DEF request_page, CountersMatchBitmap, geometry, mem_size
<1>3. CASE Candidates # {}
  <2> DEFINE frame == Min(Candidates)
             held == owned \union pinned
  <2>1. /\ bits' = bits \union {frame} /\ owned' = owned \union {frame}
        /\ free_memory' = Wrap(free_memory - 1)
        /\ used_memory' = Wrap(used_memory + 1)
    BY <1>3 DEF request_page
  <2>2. frame \notin bits /\ frame \notin held
    BY <1>1, <1>3, FoundFrame DEF Core, HeldFramesAreMarked
  <2>3. /\ owned' \union pinned' = held \union {frame}
        /\ bits' \ (owned' \union pinned') = bits \ held
        /\ mem_size' = mem_size /\ stray' = stray /\ initialized'
    BY <1>1, <2>1, <2>2 DEF geometry, mem_size
  <2> HIDE DEF frame
  <2>4. Cardinality(bits') = Cardinality(bits) + 1
        /\ Cardinality(held \union {frame}) = Cardinality(held) + 1
    BY <1>1, <2>1, <2>2, CountsAreNumbers, FS_AddElement
  <2>5. /\ Cardinality(bits) \in Nat /\ Cardinality(held) \in Nat
        /\ mem_size \in Nat /\ stray \in Nat
    BY <1>1, CountsAreNumbers
  <2>6. /\ used_memory = Wrap(Cardinality(held))
        /\ reserved_memory = Wrap(Cardinality(bits \ held) - stray)
        /\ free_memory = Wrap(mem_size + stray - Cardinality(bits))
    BY <1>1 DEF CountersMatchBitmap
  <2> HIDE DEF held
  <2>7. used_memory' = Wrap(Cardinality(held) + 1)
    BY <2>1, <2>5, <2>6, WrapAdd
  <2>8. free_memory' = Wrap(mem_size + stray - Cardinality(bits'))
    <3> DEFINE left == mem_size + stray - Cardinality(bits)
               less == 0 - 1
    <3>1. left \in Int /\ less \in Int /\ left + less = mem_size + stray - Cardinality(bits')
      BY <2>4, <2>5
    <3>2. free_memory = Wrap(left) /\ free_memory - 1 = free_memory + less
      BY <1>1, <2>6 DEF Core, TypeOK
    <3> HIDE DEF left, less
    <3> QED
      BY <2>1, <3>1, <3>2, WrapAdd
  <2> QED
    BY <1>1, <2>3, <2>4, <2>6, <2>7, <2>8 DEF CountersMatchBitmap
<1> QED
  BY <1>2, <1>3

LEMMA CountedLock ==
  ASSUME Counted, NEW addr, NEW page_count, lock_pages(addr, page_count)
  PROVE  CountersMatchBitmap'
<1> DEFINE fresh == newly_set(Reached(addr, page_count, size), bits)
           held == owned \union pinned
<1>1. /\ Core /\ CountersMatchBitmap /\ initialized
      /\ bits' = bits \union fresh /\ pinned' = pinned \union fresh
      /\ free_memory' = Wrap(free_memory - Cardinality(fresh))
      /\ used_memory' = Wrap(used_memory + Cardinality(fresh))
      /\ UNCHANGED <<geometry, page_bitmap_index, reserved_memory, returned, owned>>
  BY DEF Counted, lock_pages
<1>2. fresh \in SUBSET (0 .. size * BitsPerByte) /\ fresh \cap bits = {} /\ size \in Nat
  BY <1>1, ReachedType DEF newly_set, Core, TypeOK
<1> HIDE DEF fresh
<1>3. IsFiniteSet(fresh) /\ Cardinality(fresh) \in Nat
  BY <1>2, FiniteBits
<1>4. fresh \cap held = {}
  BY <1>1, <1>2 DEF Core, HeldFramesAreMarked
<1>5. /\ owned' \union pinned' = held \union fresh
      /\ bits' \ (owned' \union pinned') = bits \ held
      /\ mem_size' = mem_size /\ stray' = stray /\ initialized'
  BY <1>1, <1>2 DEF geometry, mem_size
<1>6. /\ Cardinality(bits) \in Nat /\ Cardinality(held) \in Nat
      /\ IsFiniteSet(bits) /\ IsFiniteSet(held)
      /\ mem_size \in Nat /\ stray \in Nat
  BY <1>1, CountsAreNumbers
<1>7. /\ used_memory = Wrap(Cardinality(held))
      /\ reserved_memory = Wrap(Cardinality(bits \ held) - stray)
      /\ free_memory = Wrap(mem_size + stray - Cardinality(bits))
  BY <1>1 DEF CountersMatchBitmap
<1> HIDE DEF held
<1>8. Cardinality(held \union fresh) = Cardinality(held) + Cardinality(fresh)
  <2>1. held \cap fresh = {}
    BY <1>4
  <2> QED
    BY <1>3, <1>6, <2>1, CardinalityOfUnion
<1>9. Cardinality(bits') = Cardinality(bits) + Cardinality(fresh)
  <2>1. bits \cap fresh = {}
    BY <1>2
  <2>2. Cardinality(bits \union fresh) = Cardinality(bits) + Cardinality(fresh)
    BY <1>3, <1>6, <2>1, CardinalityOfUnion
  <2> QED
    BY <1>1, <2>2
<1>10. used_memory' = Wrap(Cardinality(held \union fresh))
  <2>1. used_memory' = Wrap(Cardinality(held) + Cardinality(fresh))
    BY <1>1, <1>3, <1>6, <1>7, WrapAdd
  <2> QED
    BY <1>8, <2>1
<1>11. free_memory' = Wrap(mem_size + stray - Cardinality(bits'))
  <2> DEFINE left == mem_size + stray - Cardinality(bits)
             less == 0 - Cardinality(fresh)
  <2>1. left \in Int /\ less \in Int /\ left + less = mem_size + stray - Cardinality(bits')
    BY <1>3, <1>6, <1>9
  <2>2. free_memory = Wrap(left) /\ free_memory - Cardinality(fresh) = free_memory + less
        /\ free_memory' = Wrap(free_memory - Cardinality(fresh))
    BY <1>1, <1>3, <1>7 DEF Core, TypeOK
  <2> HIDE DEF left, less
  <2> QED
    BY <2>1, <2>2, WrapAdd
<1> QED
  BY <1>1, <1>5, <1>7, <1>10, <1>11 DEF CountersMatchBitmap

\* What free_pages clears is what its caller held.
LEMMA ClearedIsOwned ==
  ASSUME Core, NEW addr \in Nat, NEW page_count \in 1 .. MaxRun,
         free_pages(addr, page_count)
  PROVE  Reached(addr, page_count, size) \cap bits \in SUBSET owned
<1>1. page_count \in 0 .. IntFrames
  BY ConstantsAssumption
<1>2. Reached(addr, page_count, size) =
        (addr .. addr + page_count - 1) \cap 0 .. size * BitsPerByte
  BY <1>1, ReachedExact DEF Core, TypeOK
<1> QED
  BY <1>2 DEF free_pages

LEMMA CountedFree ==
  ASSUME Counted, NEW addr \in Nat, NEW page_count \in 1 .. MaxRun,
         free_pages(addr, page_count)
  PROVE  CountersMatchBitmap'
<1> DEFINE cleared == Reached(addr, page_count, size) \cap bits
           held == owned \union pinned
<1>1. /\ Core /\ CountersMatchBitmap /\ initialized
      /\ bits' = bits \ cleared /\ owned' = owned \ cleared
      /\ free_memory' = Wrap(free_memory + Cardinality(cleared))
      /\ used_memory' = Wrap(used_memory - Cardinality(cleared))
      /\ UNCHANGED <<geometry, reserved_memory, returned, pinned>>
  BY DEF Counted, free_pages
<1>2. cleared \in SUBSET owned /\ cleared \in SUBSET bits /\ cleared \in SUBSET held
  BY <1>1, ClearedIsOwned
<1> HIDE DEF cleared
<1>3. IsFiniteSet(bits) /\ IsFiniteSet(held) /\ Cardinality(bits) \in Nat
      /\ Cardinality(held) \in Nat /\ mem_size \in Nat /\ stray \in Nat
  BY <1>1, CountsAreNumbers
<1>4. Cardinality(cleared) \in Nat
  BY <1>2, <1>3, FS_Subset, FS_CardinalityType
<1>5. /\ owned' \union pinned' = held \ cleared
      /\ bits' \ (owned' \union pinned') = bits \ held
      /\ mem_size' = mem_size /\ stray' = stray /\ initialized'
  <2>1. cleared \cap pinned = {}
    BY <1>1, <1>2 DEF Core, HeldFramesAreMarked
  <2> QED
    BY <1>1, <1>2, <2>1 DEF geometry, mem_size
<1>6. /\ used_memory = Wrap(Cardinality(held))
      /\ reserved_memory = Wrap(Cardinality(bits \ held) - stray)
      /\ free_memory = Wrap(mem_size + stray - Cardinality(bits))
  BY <1>1 DEF CountersMatchBitmap
<1> HIDE DEF held
<1>7. Cardinality(held \ cleared) = Cardinality(held) - Cardinality(cleared)
  BY <1>2, <1>3, CardinalityOfRest
<1>8. Cardinality(bits') = Cardinality(bits) - Cardinality(cleared)
  <2>1. Cardinality(bits \ cleared) = Cardinality(bits) - Cardinality(cleared)
    BY <1>2, <1>3, CardinalityOfRest
  <2> QED
    BY <1>1, <2>1
<1>9. used_memory' = Wrap(Cardinality(held \ cleared))
  <2> DEFINE less == 0 - Cardinality(cleared)
  <2>1. less \in Int /\ Cardinality(held) + less = Cardinality(held \ cleared)
        /\ used_memory - Cardinality(cleared) = used_memory + less
    BY <1>1, <1>3, <1>4, <1>7 DEF Core, TypeOK
  <2> HIDE DEF less
  <2> QED
    BY <1>1, <1>3, <1>6, <2>1, WrapAdd
<1>10. free_memory' = Wrap(mem_size + stray - Cardinality(bits'))
  <2> DEFINE left == mem_size + stray - Cardinality(bits)
  <2>1. left \in Int /\ left + Cardinality(cleared) = mem_size + stray - Cardinality(bits')
    BY <1>3, <1>4, <1>8
  <2>2. free_memory = Wrap(left)
    BY <1>6
  <2> HIDE DEF left
  <2> QED
    BY <1>1, <1>4, <2>1, <2>2, WrapAdd
<1> QED
  BY <1>1, <1>5, <1>6, <1>9, <1>10 DEF CountersMatchBitmap

\* The counters are what the bitmap says they are, through every request, lock and
\* free, wrapped or not.
THEOREM CountersMatch == Spec => []CountersMatchBitmap
<1>1. Init => Counted
  BY CoreInit DEF Counted, CountersMatchBitmap, Init
<1>2. Counted /\ [Next]_vars => Counted'
  <2> SUFFICES ASSUME Counted, [Next]_vars PROVE CountersMatchBitmap'
    BY CoreNext DEF Counted
  <2>1. CASE read_efi_memory_map
    BY <2>1, CountedRead
  <2>2. CASE request_page
    BY <2>2, CountedRequest
  <2>3. ASSUME NEW range \in LockRanges, lock_pages(range[1], range[2])
        PROVE  CountersMatchBitmap'
    BY <2>3, CountedLock
  <2>4. ASSUME NEW addr \in owned, NEW page_count \in 1 .. MaxRun,
               free_pages(addr, page_count)
        PROVE  CountersMatchBitmap'
    <3>1. addr \in Nat
      BY DEF Counted, Core, TypeOK
    <3> QED
      BY <2>4, <3>1, CountedFree
  <2>5. CASE UNCHANGED vars
    BY <2>5 DEF vars, geometry, counters, Counted, CountersMatchBitmap, mem_size
  <2> QED
    BY <2>1, <2>2, <2>3, <2>4, <2>5 DEF Next
<1>3. Counted => CountersMatchBitmap
  BY DEF Counted
<1> QED
  BY <1>1, <1>2, <1>3, PTL DEF Spec

-------------------------------------------------------------------------------
(***************************************************************************)
(* What may be handed out.  Beyond 2^31 bytes the int products of the      *)
(* range loops fold back onto other frames, so that these results are      *)
(* about memory whose conventional segments and bitmap are shorter.        *)
(***************************************************************************)
IntsSuffice ==
  /\ BiosFrames <= IntFrames
  /\ \A map \in MemMaps :
       /\ bitmap_size(get_memory_size(map)) < IntFrames
       /\ \A i \in Conventional(map) : map[i].num_pages <= IntFrames

\* Every clear bit the scan can come to is a usable frame, and so is every frame held,
\* which the scan came to.
ClearFramesAreUsable ==
  initialized =>
    /\ size = bitmap_size(mem_size)
    /\ (0 .. size - 1) \ bits \subseteq Usable
    /\ owned \subseteq (0 .. size - 1) \cap Usable

Sorted == Core /\ ClearFramesAreUsable

\* The first loop of read_efi_memory_map reserves every frame the scan can come to,
\* even where memory is longer than its int.
LEMMA FirstFramesReserved ==
  ASSUME NEW n \in Nat, NEW bytes \in Nat, bytes = bitmap_size(n), bytes < IntFrames,
         NEW f \in 0 .. bytes - 1
  PROVE  f \in Reached(0, n + 1, bytes) /\ f \in 0 .. bytes * BitsPerByte
<1>1. n \div BitsPerByte <= n
  BY ConstantsAssumption
<1>2. f \in 0 .. (n + 1) - 1 /\ f < IntFrames
  BY <1>1, ConstantsAssumption DEF bitmap_size
<1>3. bytes <= bytes * BitsPerByte /\ bytes * BitsPerByte \in Nat
  BY ConstantsAssumption
<1>4. f \in 0 .. bytes * BitsPerByte
  BY <1>3
<1>5. IntOffset(f) = f
  <2> DEFINE M == 2 * IntFrames
             r == f + IntFrames
  <2>1. M \in Nat \ {0} /\ r \in 0 .. M - 1
    BY <1>2, ConstantsAssumption
  <2> HIDE DEF M, r
  <2>2. (M * 0 + r) % M = r
    BY <2>1, ModUnique
  <2>3. r % M = r
    BY <2>1, <2>2
  <2> QED
    BY <1>2, <2>3, ConstantsAssumption DEF M, r, IntOffset
<1>6. f = 0 + IntOffset(f)
  BY <1>5
<1>7. f \in {0 + IntOffset(i) : i \in 0 .. (n + 1) - 1}
  BY <1>2, <1>6
<1> QED
  BY <1>4, <1>7 DEF Reached

LEMMA SortedRead ==
  ASSUME IntsSuffice, Sorted, read_efi_memory_map
  PROVE  ClearFramesAreUsable'
<1> DEFINE n == get_memory_size(mem_map)
           bytes == bitmap_size(n)
           buf == largest_free_mem_seg(mem_map)
           usable == UNION {Reached(mem_map[i].phys_addr, mem_map[i].num_pages, bytes) :
                              i \in Conventional(mem_map)}
<1>1. /\ mem_map \in MemMaps /\ n \in Nat /\ bytes \in Nat \ {0} /\ buf \in Nat
      /\ bytes < IntFrames /\ BiosFrames \in 0 .. IntFrames
  BY MapTypes, ConstantsAssumption DEF Sorted, Core, TypeOK, IntsSuffice
<1>2. PICK garbage \in SUBSET {bytes * BitsPerByte} :
        LET all      == newly_set(Reached(0, n + 1, bytes), garbage)
            returns  == usable \cap (garbage \union all)
            rest     == (garbage \union all) \ returns
            bios     == newly_set(bios_pages(bytes), rest)
            own      == newly_set(bitmap_pages(buf, bytes), rest \union bios)
        IN  bits' = rest \union bios \union own
  BY DEF read_efi_memory_map
<1>3. /\ Reached(0, n + 1, bytes) \subseteq usable \union bits'
      /\ bios_pages(bytes) \subseteq bits' /\ bitmap_pages(buf, bytes) \subseteq bits'
  <2> DEFINE all  == Reached(0, n + 1, bytes) \ garbage
             rest == (garbage \union all) \ (usable \cap (garbage \union all))
             bios == bios_pages(bytes) \ rest
             own  == bitmap_pages(buf, bytes) \ (rest \union bios)
  <2>1. bits' = rest \union bios \union own
    BY <1>2 DEF newly_set
  <2>2. Reached(0, n + 1, bytes) \subseteq usable \union rest
    OBVIOUS
  <2> HIDE DEF rest
  <2> QED
    BY <2>1, <2>2
<1> HIDE DEF usable
<1>4. /\ ~initialized /\ size' = bytes /\ mem_size' = n /\ mem_map' = mem_map
      /\ owned' = {}
  BY DEF read_efi_memory_map, mem_size, Sorted, Core, BeforeBoot
<1> HIDE DEF n
<1>5. ASSUME NEW f \in 0 .. bytes - 1, f \notin bits'
      PROVE  f \in Usable
  <2>1. f \in Reached(0, n + 1, bytes) /\ f \in 0 .. bytes * BitsPerByte
    BY <1>1, FirstFramesReserved
  <2>2. f \in usable /\ f \notin bios_pages(bytes) /\ f \notin bitmap_pages(buf, bytes)
    BY <1>3, <1>5, <2>1
  <2> HIDE DEF bytes
  <2>3. f \in ConventionalFrames
    <3>1. PICK i \in Conventional(mem_map) :
                 f \in Reached(mem_map[i].phys_addr, mem_map[i].num_pages, bytes)
      BY <2>2 DEF usable
    <3>2. mem_map[i].phys_addr \in Nat /\ mem_map[i].num_pages \in 0 .. IntFrames
      BY <1>1, MemMapsAssumption, ConstantsAssumption DEF IntsSuffice, Conventional
    <3>3. f \in mem_map[i].phys_addr .. mem_map[i].phys_addr + mem_map[i].num_pages - 1
      BY <1>1, <3>1, <3>2, ReachedExact
    <3> QED
      BY <3>3 DEF ConventionalFrames
  <2>4. f >= BiosFrames
    <3>1. Reached(0, BiosFrames, bytes) =
            (0 .. 0 + BiosFrames - 1) \cap 0 .. bytes * BitsPerByte
      BY <1>1, ReachedExact
    <3> QED
      BY <1>1, <2>1, <2>2, <3>1 DEF bios_pages
  <2>5. f \notin BitmapFrames
    <3> DEFINE m == bytes \div PageBytes + 1
    <3>1. m \in 0 .. IntFrames
      <4>1. bytes \div PageBytes \in Nat /\ bytes \div PageBytes <= bytes
        BY <1>1, ConstantsAssumption
      <4> QED
        BY <1>1, <4>1, ConstantsAssumption
    <3> HIDE DEF m
    <3>2. Reached(buf, m, bytes) = (buf .. buf + m - 1) \cap 0 .. bytes * BitsPerByte
      BY <1>1, <3>1, ReachedExact
    <3>3. f \notin buf .. buf + m - 1
      BY <2>1, <2>2, <3>2 DEF bitmap_pages, m
    <3>4. buf + m - 1 = buf + bytes \div PageBytes
      BY <1>1, ConstantsAssumption DEF m
    <3> QED
      BY <3>3, <3>4 DEF BitmapFrames, mem_size, bytes, n
  <2> QED
    BY <2>3, <2>4, <2>5 DEF Usable
<1>6. Usable' = Usable
  BY <1>4 DEF Usable, ConventionalFrames, BitmapFrames, mem_size
<1>7. size' = bitmap_size(mem_size')
  BY <1>4
<1> HIDE DEF bytes
<1> QED
  BY <1>4, <1>5, <1>6, <1>7 DEF ClearFramesAreUsable

\* The frame request_page takes is one the scan can come to.
LEMMA SortedNext ==
  ASSUME IntsSuffice, Sorted, [Next]_vars
  PROVE  Sorted'
<1>1. Core /\ Core'
  BY CoreNext DEF Sorted
<1>2. CASE read_efi_memory_map
  BY <1>1, <1>2, SortedRead DEF Sorted
<1>3. ASSUME UNCHANGED <<mem_map, initialized, size>>,
             (0 .. size - 1) \ bits' \subseteq ((0 .. size - 1) \ bits) \union owned,
             owned' \subseteq owned \union ((0 .. size - 1) \ bits)
      PROVE  Sorted'
  <2>1. Usable' = Usable /\ mem_size' = mem_size
    BY <1>3 DEF Usable, ConventionalFrames, BitmapFrames, mem_size
  <2> QED
    BY <1>1, <1>3, <2>1 DEF Sorted, ClearFramesAreUsable
<1>4. CASE request_page
  <2>1. CASE Candidates = {}
    BY <1>3, <1>4, <2>1 DEF request_page, geometry
  <2>2. CASE Candidates # {}
    <3> DEFINE frame == Min(Candidates)
    <3>1. frame \in (0 .. size - 1) \ bits
      BY <1>1, <2>2, FoundFrame
    <3>2. bits' = bits \union {frame} /\ owned' = owned \union {frame}
          /\ UNCHANGED geometry
      BY <1>4, <2>2 DEF request_page
    <3> HIDE DEF frame
    <3> QED
      BY <1>3, <3>1, <3>2 DEF geometry
  <2> QED
    BY <2>1, <2>2
<1>5. ASSUME NEW range \in LockRanges, lock_pages(range[1], range[2]) PROVE Sorted'
  BY <1>3, <1>5 DEF lock_pages, geometry
<1>6. ASSUME NEW addr \in owned, NEW page_count \in 1 .. MaxRun,
             free_pages(addr, page_count)
      PROVE  Sorted'
  <2>1. addr \in Nat
    BY <1>1 DEF Core, TypeOK
  <2>2. Reached(addr, page_count, size) \cap bits \in SUBSET owned
    BY <1>1, <1>6, <2>1, ClearedIsOwned
  <2> QED
    BY <1>3, <1>6, <2>2 DEF free_pages, geometry
<1>7. CASE UNCHANGED vars
  BY <1>3, <1>7 DEF vars, geometry
<1> QED
  BY <1>2, <1>4, <1>5, <1>6, <1>7 DEF Next

LEMMA SortedInit == Init => Sorted
BY CoreInit DEF Sorted, ClearFramesAreUsable, Init

\* What is handed out is conventional memory, neither the BIOS's nor the bitmap's,
\* on every memory map whose segments the int loops can count.
THEOREM HeldFramesUsable ==
  ASSUME IntsSuffice
  PROVE  Spec => []HeldFramesAreUsable
<1>1. Sorted /\ [Next]_vars => Sorted'
  BY SortedNext
<1>2. Sorted => HeldFramesAreUsable
  BY DEF Sorted, Core, BeforeBoot, ClearFramesAreUsable, HeldFramesAreUsable
<1> QED
  BY <1>1, <1>2, SortedInit, PTL DEF Spec

\* The allocator implements the pool of frames: each of its steps grants a frame of
\* the pool that nobody holds, takes frames back, withdraws free ones, or changes
\* nothing a caller could see.
THEOREM AllocatorImplementsPool ==
  ASSUME IntsSuffice
  PROVE  Spec => PoolSpec
<1> DEFINE pool == {f \in Usable : f < bitmap_size(mem_size)} \ pinned
<1>1. Init => Pool!Init
  <2> SUFFICES ASSUME Init PROVE Pool!Init
    OBVIOUS
  <2>1. Usable \in SUBSET Nat
    BY MemMapsAssumption DEF Init, Usable, ConventionalFrames, Conventional
  <2> QED
    BY <2>1 DEF Init, Pool!Init
<1>2. Sorted /\ Sorted' /\ [Next]_vars => [Pool!Next]_Pool!vars
  <2> SUFFICES ASSUME Sorted, Sorted', [Next]_vars PROVE Pool!Next \/ UNCHANGED Pool!vars
    OBVIOUS
  <2>1. UNCHANGED mem_map => Usable' = Usable /\ mem_size' = mem_size
    BY DEF Usable, ConventionalFrames, BitmapFrames, mem_size
  <2>2. CASE read_efi_memory_map
    <3>1. owned = {} /\ owned' = owned /\ pinned = {} /\ UNCHANGED mem_map
      BY <2>2 DEF read_efi_memory_map, Sorted, Core, BeforeBoot
    <3>2. pool' \in SUBSET pool
      BY <2>1, <3>1
    <3> QED
      BY <3>1, <3>2 DEF Pool!Next, Pool!Withdraw
  <2>3. CASE request_page
    <3>0. pool' = pool
      BY <2>1, <2>3 DEF request_page, geometry
    <3>1. CASE Candidates = {}
      BY <2>3, <3>0, <3>1 DEF request_page, Pool!vars
    <3>2. CASE Candidates # {}
      <4> DEFINE frame == Min(Candidates)
      <4>1. frame \in (0 .. size - 1) \ bits
        BY <3>2, FoundFrame DEF Sorted
      <4>2. owned' = owned \union {frame}
        BY <2>3, <3>2 DEF request_page
      <4> HIDE DEF frame
      <4>3. initialized
        BY <2>3 DEF request_page
      <4>4. frame \in pool \ owned
        BY <4>1, <4>3 DEF Sorted, ClearFramesAreUsable, Core, HeldFramesAreMarked, TypeOK
      <4> QED
        BY <3>0, <4>2, <4>4 DEF Pool!Next, Pool!Grant
    <3> QED
      BY <3>1, <3>2
  <2>4. ASSUME NEW range \in LockRanges, lock_pages(range[1], range[2])
        PROVE  Pool!Next
    <3>1. /\ UNCHANGED <<mem_map, size, owned>> /\ initialized /\ initialized'
          /\ pinned \subseteq pinned'
      BY <2>4 DEF lock_pages, geometry
    <3>2. pool' \in SUBSET pool
      BY <2>1, <3>1
    <3>3. owned \subseteq pool'
      BY <2>1, <3>1 DEF Sorted, ClearFramesAreUsable, Core, HeldFramesAreMarked, TypeOK
    <3> QED
      BY <3>1, <3>2, <3>3 DEF Pool!Next, Pool!Withdraw
  <2>5. ASSUME NEW addr \in owned, NEW page_count \in 1 .. MaxRun,
               free_pages(addr, page_count)
        PROVE  Pool!Next
    <3>1. UNCHANGED <<mem_map, pinned>> /\ owned' \in SUBSET owned
      BY <2>5 DEF free_pages, geometry
    <3>2. pool' = pool
      BY <2>1, <3>1
    <3> QED
      BY <3>1, <3>2 DEF Pool!Next, Pool!Return
  <2>6. CASE UNCHANGED vars
    BY <2>1, <2>6 DEF vars, geometry, Pool!vars
  <2> QED
    BY <2>2, <2>3, <2>4, <2>5, <2>6 DEF Next
<1>3. Sorted /\ [Next]_vars => Sorted'
  BY SortedNext
<1> QED
  BY <1>1, <1>2, <1>3, SortedInit, PTL DEF Spec, PoolSpec, Pool!Spec
===============================================================================
