------------------------------ MODULE HeapProofs ------------------------------
(***************************************************************************)
(* Proofs about Heap, for every size of heap, page, header and grain, and  *)
(* any calls of its clients, up to the first merge of two segments, and of *)
(* that merge.                                                             *)
(***************************************************************************)
EXTENDS Heap, TLAPS

-------------------------------------------------------------------------------
(***************************************************************************)
(* The inductive invariant.                                                *)
(***************************************************************************)
HeapSegHeader == [length : Nat, next : Nat, last : Nat, free : BOOLEAN]

\* The segments lie between heap_start and end, the last one at tail, each where the
\* one before it ends.
Tiles(seg, tail, end) ==
  /\ heap_start \in DOMAIN seg /\ seg[heap_start].last = NULL
  /\ tail \in DOMAIN seg /\ EndOf(tail, seg) = end /\ seg[tail].next = NULL
  /\ \A h \in DOMAIN seg \ {tail} :
       /\ EndOf(h, seg) \in DOMAIN seg
       /\ seg[h].next = EndOf(h, seg) /\ seg[EndOf(h, seg)].last = h
  /\ \A h \in DOMAIN seg \ {heap_start} :
       seg[h].last \in DOMAIN seg /\ EndOf(seg[h].last, seg) = h
  /\ \A g, h \in DOMAIN seg : g < h => EndOf(g, seg) <= h
  /\ \A h \in DOMAIN seg : h \in Nat /\ heap_start <= h /\ h <= tail

\* The used segments are the blocks held.
Used(seg) == {h \in DOMAIN seg : ~seg[h].free}

Holds(seg, blocks) ==
  /\ Used(seg) = {b.addr - Header : b \in blocks}
  /\ \A b \in blocks : b.addr \in Nat /\ seg[b.addr - Header].length >= b.size
  /\ \A b, c \in blocks : b.addr = c.addr => b = c

\* malloc's cursor has come past segments that do not fit.
CursorInv ==
  /\ request \in Nat
  /\ \/ cur_segment = NULL /\ request = 0
     \/ cur_segment \in DOMAIN hdr /\ request > 0
  /\ \A h \in DOMAIN hdr : cur_segment \in DOMAIN hdr /\ h < cur_segment => ~FreeFits(h)

HeapInv ==
  intact =>
    /\ hdr \in [DOMAIN hdr -> HeapSegHeader]
    /\ Tiles(hdr, last_header, heap_end)
    /\ Holds(hdr, live)
    /\ CursorInv

-------------------------------------------------------------------------------
LEMMA HeapConstants ==
  /\ heap_start \in Nat \ {0} /\ Header \in Nat \ {0} /\ Grain \in Nat \ {0}
  /\ Page \in Nat \ {0} /\ InitPages \in Nat \ {0} /\ Header < Page
  /\ InitPages * Page \in Nat /\ InitPages * Page >= Page
<1>1. \A p \in Nat, n \in Nat \ {0} : n * p \in Nat /\ n * p >= p
  OBVIOUS
<1> QED
  BY <1>1, HeapConstantsAssumption

\* A size rounded up is not smaller, and not smaller than the unit.
LEMMA RoundUpIsMore ==
  ASSUME NEW n \in Nat \ {0}, NEW unit \in Nat \ {0}
  PROVE  RoundUp(n, unit) \in Nat /\ RoundUp(n, unit) >= n /\ RoundUp(n, unit) >= unit
<1>1. n % unit \in 0 .. unit - 1 /\ n % unit <= n /\ (n < unit => n % unit = n)
  OBVIOUS
<1> QED
  BY <1>1 DEF RoundUp

\* One field of one header.
LEMMA HeaderExcept ==
  ASSUME NEW D, NEW seg \in [D -> HeapSegHeader], NEW h \in D
  PROVE  /\ \A v \in BOOLEAN :
              LET s == [seg EXCEPT ![h].free = v]
              IN  /\ s \in [D -> HeapSegHeader] /\ (s[h].free <=> v)
                  /\ s[h].length = seg[h].length /\ s[h].next = seg[h].next
                  /\ s[h].last = seg[h].last
                  /\ \A a \in D \ {h} : s[a] = seg[a]
         /\ \A v \in Nat :
              LET s == [seg EXCEPT ![h].next = v]
              IN  /\ s \in [D -> HeapSegHeader] /\ s[h].next = v
                  /\ s[h].length = seg[h].length /\ (s[h].free <=> seg[h].free)
                  /\ s[h].last = seg[h].last
                  /\ \A a \in D \ {h} : s[a] = seg[a]
         /\ \A v \in Nat :
              LET s == [seg EXCEPT ![h].last = v]
              IN  /\ s \in [D -> HeapSegHeader] /\ s[h].last = v
                  /\ s[h].length = seg[h].length /\ (s[h].free <=> seg[h].free)
                  /\ s[h].next = seg[h].next
                  /\ \A a \in D \ {h} : s[a] = seg[a]
         /\ \A v \in Nat :
              LET s == [seg EXCEPT ![h].length = v]
              IN  /\ s \in [D -> HeapSegHeader] /\ s[h].length = v
                  /\ s[h].next = seg[h].next /\ (s[h].free <=> seg[h].free)
                  /\ s[h].last = seg[h].last
                  /\ \A a \in D \ {h} : s[a] = seg[a]
BY DEF HeapSegHeader

\* The fields of what a call works on.
LEMMA ImageFields ==
  ASSUME NEW seg, NEW tail, NEW end
  PROVE  /\ Image(seg, tail, end).seg = seg /\ Image(seg, tail, end).tail = tail
         /\ Image(seg, tail, end).end = end
BY DEF Image

\* What split returns when it cuts, and malloc then takes.
LEMMA ImageWith ==
  ASSUME NEW seg, NEW tail, NEW end, NEW x, NEW y, NEW h
  PROVE  LET m == [Image(seg, tail, end) EXCEPT !.seg = x, !.tail = y]
             t == [m EXCEPT !.seg[h].free = FALSE]
         IN  /\ m.seg = x /\ m.tail = y /\ m.end = end
             /\ t.seg = [x EXCEPT ![h].free = FALSE] /\ t.tail = y
<1> DEFINE m == [Image(seg, tail, end) EXCEPT !.seg = x, !.tail = y]
<1>1. m.seg = x
  BY DEF Image
<1>2. m.tail = y
  BY DEF Image
<1>3. m.end = end
  BY DEF Image
<1>4. [m EXCEPT !.seg[h].free = FALSE].seg = [x EXCEPT ![h].free = FALSE]
  BY DEF Image
<1>5. [m EXCEPT !.seg[h].free = FALSE].tail = y
  BY DEF Image
<1> QED
  BY <1>1, <1>2, <1>3, <1>4, <1>5

LEMMA ImageEnds ==
  ASSUME NEW seg, NEW tail, NEW end
  PROVE  /\ [Image(seg, tail, end) EXCEPT !.end = "lost"].end = "lost"
         /\ [Image(seg, tail, end) EXCEPT !.end = "fault"].end = "fault"
<1>1. [Image(seg, tail, end) EXCEPT !.end = "lost"].end = "lost"
  BY DEF Image
<1>2. [Image(seg, tail, end) EXCEPT !.end = "fault"].end = "fault"
  BY DEF Image
<1> QED
  BY <1>1, <1>2

-------------------------------------------------------------------------------
(***************************************************************************)
(* What split does to a tiling.                                            *)
(***************************************************************************)
\* s is seg with one more header, at new.
Adds(D, seg, new, record, s) ==
  /\ s \in [D \union {new} -> HeapSegHeader]
  /\ s[new] = record /\ \A a \in D : s[a] = seg[a]

\* A new header that overlaps none of the others is stored beside them.
LEMMA StoreFits ==
  ASSUME NEW D, NEW seg \in [D -> HeapSegHeader], NEW new \in Nat \ D,
         NEW record \in HeapSegHeader,
         \A a \in D : a \in Nat /\ (a + Header <= new \/ new + Header <= a)
  PROVE  Adds(D, seg, new, record, Store(new, record, seg))
<1>1. {a \in DOMAIN seg : a + Header <= new \/ new + Header <= a} = D
  OBVIOUS
<1> QED
  BY <1>1 DEF Store, Adds

\* s is seg, whose header at h is cut after n bytes, with rest bytes behind the new one.
Cuts(D, seg, h, n, rest, s) ==
  LET new == h + n + Header
  IN  /\ s \in [D \union {new} -> HeapSegHeader]
      /\ s[h].length = n /\ s[h].next = new /\ s[h].last = seg[h].last
      /\ s[new].length = rest /\ s[new].next = seg[h].next /\ s[new].last = h
      /\ \A a \in D \ {h} :
           /\ s[a].length = seg[a].length /\ s[a].next = seg[a].next
           /\ s[a].last = IF a = seg[h].next THEN new ELSE seg[a].last

\* A cut keeps the tiling.
LEMMA SplitTiles ==
  ASSUME NEW D, NEW seg \in [D -> HeapSegHeader], NEW tail, NEW end,
         Tiles(seg, tail, end),
         NEW h \in D, NEW n \in Nat, NEW rest \in Nat, seg[h].length = n + Header + rest,
         NEW s, Cuts(D, seg, h, n, rest, s)
  PROVE  LET new == h + n + Header
         IN  new \notin D /\ Tiles(s, IF tail = h THEN new ELSE tail, end)
<1> DEFINE new == h + n + Header
<1>0. /\ s \in [D \union {new} -> HeapSegHeader]
      /\ s[h].length = n /\ s[h].next = new /\ s[h].last = seg[h].last
      /\ s[new].length = rest /\ s[new].next = seg[h].next /\ s[new].last = h
      /\ \A a \in D \ {h} :
           /\ s[a].length = seg[a].length /\ s[a].next = seg[a].next
           /\ s[a].last = IF a = seg[h].next THEN new ELSE seg[a].last
  BY DEF Cuts
<1>1. /\ Header \in Nat \ {0} /\ heap_start \in Nat \ {0} /\ DOMAIN seg = D
      /\ \A a \in D : a \in Nat /\ seg[a].length \in Nat /\ a <= tail /\ heap_start <= a
      /\ NULL \notin D
  BY HeapConstants DEF HeapSegHeader, Tiles, NULL
<1>2. new \in Nat /\ h < new /\ new < EndOf(h, seg) /\ EndOf(h, seg) = new + Header + rest
  BY <1>1 DEF EndOf
<1> HIDE DEF new
<1>3. \A a \in D : a # h => (a < h /\ EndOf(a, seg) <= h) \/ (h < a /\ EndOf(h, seg) <= a)
  BY <1>1 DEF Tiles
<1>4. new \notin D
  BY <1>1, <1>2, <1>3 DEF EndOf
<1>5. /\ EndOf(h, s) = new /\ EndOf(new, s) = EndOf(h, seg)
      /\ \A a \in D \ {h} : EndOf(a, s) = EndOf(a, seg)
      /\ \A a \in D : EndOf(a, seg) \in Nat
  <2>1. EndOf(h, s) = new
    BY <1>0, <1>1 DEF EndOf, new
  <2>2. EndOf(new, s) = EndOf(h, seg)
    BY <1>0, <1>1, <1>2 DEF EndOf
  <2> QED
    BY <2>1, <2>2, <1>0, <1>1 DEF EndOf
<1> DEFINE t == IF tail = h THEN new ELSE tail
<1>6. heap_start \in D /\ s[heap_start].last = NULL
  <2>1. heap_start \in D /\ seg[heap_start].last = NULL
    BY DEF Tiles
  <2>2. heap_start # h => heap_start # seg[h].next
    <3>1. ASSUME h # tail, heap_start = seg[h].next PROVE FALSE
      <4>1. heap_start = EndOf(h, seg)
        BY <3>1 DEF Tiles
      <4> QED
        BY <1>1, <1>2, <4>1
    <3>2. ASSUME h = tail, heap_start = seg[h].next PROVE FALSE
      BY <1>1, <3>2 DEF Tiles, NULL
    <3> QED
      BY <3>1, <3>2
  <2> QED
    BY <1>0, <2>1, <2>2
<1>7. t \in D \union {new} /\ EndOf(t, s) = end /\ s[t].next = NULL
  BY <1>0, <1>5 DEF Tiles
<1>8. ASSUME NEW a \in D \union {new}, a # t
      PROVE  /\ EndOf(a, s) \in D \union {new}
             /\ s[a].next = EndOf(a, s) /\ s[EndOf(a, s)].last = a
  <2>1. CASE a = h
    BY <1>0, <1>5, <2>1
  <2>2. CASE a = new
    <3>1. h # tail
      BY <1>8, <2>2
    <3>2. EndOf(h, seg) \in D /\ seg[h].next = EndOf(h, seg)
      BY <3>1 DEF Tiles
    <3>3. EndOf(h, seg) # h
      BY <1>1, <1>2
    <3> QED
      BY <1>0, <1>5, <2>2, <3>2, <3>3
  <2>3. CASE a \in D \ {h}
    <3>1. a # tail
      BY <1>8, <2>3
    <3>2. EndOf(a, seg) \in D /\ seg[a].next = EndOf(a, seg) /\ seg[EndOf(a, seg)].last = a
      BY <2>3, <3>1 DEF Tiles
    <3>3. EndOf(a, seg) # seg[h].next
      <4>1. h = tail => seg[h].next \notin D
        BY <1>1 DEF Tiles
      <4>2. h # tail => seg[h].next = EndOf(h, seg) /\ seg[EndOf(h, seg)].last = h
        BY DEF Tiles
      <4> QED
        BY <2>3, <3>2, <4>1, <4>2
    <3> QED
      BY <1>0, <1>5, <2>3, <3>2, <3>3
  <2> QED
    BY <2>1, <2>2, <2>3
<1>11. ASSUME NEW a \in D \union {new}, a # heap_start
       PROVE  s[a].last \in D \union {new} /\ EndOf(s[a].last, s) = a
  <2>1. CASE a = new
    BY <1>0, <1>5, <2>1
  <2>2. CASE a \in D /\ a = seg[h].next
    <3>1. h # tail
      BY <1>1, <2>2 DEF Tiles
    <3>2. a = EndOf(h, seg) /\ a # h
      BY <1>1, <1>2, <2>2, <3>1 DEF Tiles
    <3> QED
      BY <1>0, <1>5, <2>2, <3>2
  <2>3. CASE a \in D /\ a # seg[h].next
    <3>1. seg[a].last \in D /\ EndOf(seg[a].last, seg) = a
      BY <1>1, <1>11, <2>3 DEF Tiles
    <3>2. s[a].last = seg[a].last
      BY <1>0, <2>3
    <3>3. seg[a].last # h
      <4>1. ASSUME seg[a].last = h, h # tail PROVE FALSE
        BY <1>1, <2>3, <3>1, <4>1 DEF Tiles
      <4>2. ASSUME seg[a].last = h, h = tail PROVE FALSE
        BY <1>1, <1>2, <2>3, <3>1, <4>2
      <4> QED
        BY <4>1, <4>2
    <3> QED
      BY <1>5, <3>1, <3>2, <3>3
  <2> QED
    BY <1>4, <1>11, <2>1, <2>2, <2>3
<1>9. ASSUME NEW g \in D \union {new}, NEW a \in D \union {new}, g < a
      PROVE  EndOf(g, s) <= a
  <2>1. CASE g = new
    <3>1. a \in D /\ h < a
      BY <1>1, <1>2, <1>9, <2>1
    <3> QED
      BY <1>3, <1>5, <2>1, <3>1, <1>1
  <2>2. CASE g = h
    BY <1>1, <1>2, <1>3, <1>5, <1>9, <2>2
  <2>3. CASE g \in D \ {h}
    <3>1. CASE a \in D
      BY <1>5, <1>9, <2>3, <3>1 DEF Tiles
    <3>2. CASE a = new
      BY <1>1, <1>2, <1>3, <1>5, <1>9, <2>3, <3>2
    <3> QED
      BY <3>1, <3>2
  <2> QED
    BY <2>1, <2>2, <2>3
<1>10. ASSUME NEW a \in D \union {new}
       PROVE  a \in Nat /\ heap_start <= a /\ a <= t
  <2>1. h # tail => h < tail /\ EndOf(h, seg) <= tail
    BY <1>1, <1>3 DEF Tiles
  <2>2. tail \in Nat /\ h \in Nat /\ h <= tail
    BY <1>1 DEF Tiles
  <2> QED
    BY <1>1, <1>2, <2>1, <2>2
<1> QED
  BY <1>0, <1>4, <1>6, <1>7, <1>8, <1>9, <1>10, <1>11 DEF Tiles, new

\* m is what split makes of seg and tail: the tiling is kept, h is shorter, the
\* other headers keep their lengths, the new one is free if h is.
Splits(D, seg, tail, h, n, m) ==
  LET new == h + n + Header
      x   == m.seg
      y   == IF tail = h THEN new ELSE tail
  IN  /\ new \in Nat \ D /\ x \in [D \union {new} -> HeapSegHeader]
      /\ m = [Image(seg, tail, "running") EXCEPT !.seg = x, !.tail = y]
      /\ x[h].length = n /\ (x[new].free <=> seg[h].free)
      /\ \A a \in D \ {h} : x[a].length = seg[a].length /\ (x[a].free <=> seg[a].free)
      /\ Tiles(x, y, heap_end)

LEMMA SplitFacts ==
  ASSUME NEW D, NEW seg \in [D -> HeapSegHeader], NEW tail, Tiles(seg, tail, heap_end),
         NEW h \in D, NEW n \in Nat, seg[h].length >= n,
         splittable(h, n, Image(seg, tail, "running"))
  PROVE  Splits(D, seg, tail, h, n, split(h, n, Image(seg, tail, "running")))
<1> DEFINE m    == Image(seg, tail, "running")
           new  == h + n + Header
           next == seg[h].next
           rest == seg[h].length - n - Header
           linked == IF next = NULL THEN seg ELSE [seg EXCEPT ![next].last = new]
           record == [length |-> rest, next |-> next, last |-> h, free |-> seg[h].free]
           stored == Store(new, record, linked)
           x    == [stored EXCEPT ![h].next = new, ![h].length = n]
           y    == IF tail = h THEN new ELSE tail
<1>1. m.seg = seg /\ m.tail = tail /\ m.end = "running"
  BY ImageFields
<1>2. /\ Header \in Nat \ {0} /\ Grain \in Nat \ {0} /\ DOMAIN seg = D
      /\ \A a \in D : /\ a \in Nat /\ seg[a] \in HeapSegHeader /\ seg[a].length \in Nat
                     /\ seg[a].next \in Nat /\ seg[a].last \in Nat /\ seg[a].free \in BOOLEAN
      /\ NULL \notin D
  BY HeapConstants DEF HeapSegHeader, Tiles, NULL
<1>3. rest \in Nat /\ seg[h].length = n + Header + rest
  BY <1>1, <1>2 DEF splittable
<1>4. new \in Nat /\ h < new /\ new + Header <= EndOf(h, seg) /\ EndOf(h, seg) = new + Header + rest
  BY <1>2, <1>3 DEF EndOf
<1>5. \A a \in D : a # h => (a < h /\ EndOf(a, seg) <= h) \/ (h < a /\ EndOf(h, seg) <= a)
  <2>1. \A g, a \in D : g < a => EndOf(g, seg) <= a
    BY <1>2 DEF Tiles
  <2> QED
    BY <1>2, <2>1
<1>6. \A a \in D : a + Header <= new \/ new + Header <= a
  BY <1>2, <1>4, <1>5 DEF EndOf
<1>7. new \notin D
  BY <1>2, <1>6
<1>8. next = NULL \/ next \in D \ {h}
  <2>1. h = tail => next = NULL
    BY DEF Tiles
  <2>2. h # tail => next = EndOf(h, seg) /\ next \in D
    BY <1>2 DEF Tiles
  <2> QED
    BY <1>2, <1>4, <2>1, <2>2
<1>9. EndOf(h, seg) <= heap_end
  <2>1. h # tail => EndOf(h, seg) <= tail /\ tail \in D
    BY <1>2, <1>5 DEF Tiles
  <2>2. EndOf(tail, seg) = heap_end
    BY DEF Tiles
  <2> QED
    BY <1>2, <1>4, <2>1, <2>2 DEF EndOf, Tiles
<1>10. ~(new + Header > heap_end)
  <2>1. heap_end \in Nat
    BY <1>2 DEF Tiles, EndOf
  <2> QED
    BY <1>2, <1>4, <1>9, <2>1
<1>11. split(h, n, m) = [m EXCEPT !.seg = x, !.tail = y]
  BY <1>1, <1>2, <1>8, <1>10 DEF split, split_next, split_free, split_tail
<1>12. split(h, n, m).seg = x
  <2> HIDE DEF x, y
  <2>1. [m EXCEPT !.seg = x, !.tail = y].seg = x
    BY ImageWith
  <2> QED
    BY <1>11, <2>1
<1>13. /\ linked \in [D -> HeapSegHeader]
       /\ \A a \in D : /\ linked[a].length = seg[a].length /\ linked[a].next = seg[a].next
                      /\ (linked[a].free <=> seg[a].free)
                      /\ linked[a].last = IF a = next THEN new ELSE seg[a].last
  <2>1. CASE next = NULL
    BY <1>2, <2>1
  <2>2. CASE next # NULL
    BY <1>4, <1>8, <2>2, HeaderExcept
  <2> QED
    BY <2>1, <2>2
<1>14. record \in HeapSegHeader
  BY <1>2, <1>3 DEF HeapSegHeader
<1>15. /\ stored \in [D \union {new} -> HeapSegHeader]
       /\ stored[new] = record /\ \A a \in D : stored[a] = linked[a]
  <2>1. \A a \in D : a \in Nat /\ (a + Header <= new \/ new + Header <= a)
    BY <1>2, <1>6
  <2>2. new \in Nat \ D
    BY <1>4, <1>7
  <2>3. linked \in [D -> HeapSegHeader] /\ record \in HeapSegHeader
    BY <1>13, <1>14
  <2> HIDE DEF linked, record, new
  <2>4. Adds(D, linked, new, record, Store(new, record, linked))
    BY <2>1, <2>2, <2>3, StoreFits
  <2> QED
    BY <2>4 DEF Adds
<1>16. /\ x \in [D \union {new} -> HeapSegHeader]
       /\ x[h].length = n /\ x[h].next = new /\ x[h].last = stored[h].last
       /\ \A a \in (D \union {new}) \ {h} : x[a] = stored[a]
  <2> HIDE DEF stored
  <2> QED
    BY <1>4, <1>15 DEF HeapSegHeader
<1>17. /\ x[new].length = rest /\ x[new].next = next /\ x[new].last = h
       /\ (x[new].free <=> seg[h].free)
  <2>1. x[new] = record
    BY <1>7, <1>15, <1>16
  <2>2. /\ record.length = rest /\ record.next = next /\ record.last = h
        /\ (record.free <=> seg[h].free)
    BY <1>2
  <2> HIDE DEF x, record
  <2> QED
    BY <2>1, <2>2
<1>18. x[h].last = seg[h].last
  <2> HIDE DEF x, stored, linked, new
  <2>1. h # next
    BY <1>2, <1>8
  <2> QED
    BY <2>1, <1>13, <1>15, <1>16
<1>19. \A a \in D \ {h} : /\ x[a].length = seg[a].length /\ x[a].next = seg[a].next
                         /\ (x[a].free <=> seg[a].free)
                         /\ x[a].last = IF a = seg[h].next THEN new ELSE seg[a].last
  <2> HIDE DEF x, stored, linked
  <2> QED
    BY <1>13, <1>15, <1>16
<1>20. Tiles(x, y, heap_end)
  <2>1. Cuts(D, seg, h, n, rest, x)
    <3> HIDE DEF x, rest
    <3> QED
      BY <1>16, <1>17, <1>18, <1>19 DEF Cuts
  <2> HIDE DEF x, rest
  <2> QED
    BY <1>3, <2>1, SplitTiles
<1> QED
  <2>1. split(h, n, m) = [Image(seg, tail, "running") EXCEPT !.seg = x, !.tail = y]
    BY <1>11
  <2> HIDE DEF x
  <2> QED
    BY <2>1, <1>4, <1>7, <1>12, <1>16, <1>17, <1>19, <1>20 DEF Splits

-------------------------------------------------------------------------------
(***************************************************************************)
(* What the invariant's parts depend on.                                   *)
(***************************************************************************)
\* No header lies at NULL; every address is a natural number.
LEMMA TilesFacts ==
  ASSUME NEW D, NEW seg \in [D -> HeapSegHeader], NEW tail, NEW end, Tiles(seg, tail, end)
  PROVE  /\ NULL \notin D /\ heap_start \in D /\ tail \in D /\ end \in Nat
         /\ \A h \in D : /\ h \in Nat /\ heap_start <= h /\ h <= tail
                         /\ seg[h].length \in Nat /\ seg[h].next \in Nat
                         /\ seg[h].last \in Nat /\ seg[h].free \in BOOLEAN
                         /\ (seg[h].next = NULL <=> h = tail)
         /\ \A h \in D \ {tail} : seg[h].next \in D /\ seg[h].next > h
<1>1. /\ Header \in Nat \ {0} /\ heap_start \in Nat \ {0} /\ DOMAIN seg = D
  BY HeapConstants
<1>2. /\ NULL \notin D /\ heap_start \in D /\ tail \in D
      /\ \A h \in D : /\ h \in Nat /\ heap_start <= h /\ h <= tail
                      /\ seg[h].length \in Nat /\ seg[h].next \in Nat
                      /\ seg[h].last \in Nat /\ seg[h].free \in BOOLEAN
  BY <1>1 DEF Tiles, HeapSegHeader, NULL
<1>3. \A h \in D : EndOf(h, seg) \in Nat /\ EndOf(h, seg) > h
  BY <1>1, <1>2 DEF EndOf
<1>4. end \in Nat
  BY <1>2, <1>3 DEF Tiles
<1>5. \A h \in D \ {tail} : seg[h].next \in D /\ seg[h].next = EndOf(h, seg)
  BY <1>1 DEF Tiles
<1>6. seg[tail].next = NULL
  BY DEF Tiles
<1> QED
  BY <1>2, <1>3, <1>4, <1>5, <1>6

\* A tiling depends on no header's free.
LEMMA TilesSame ==
  ASSUME NEW D, NEW seg \in [D -> HeapSegHeader], NEW s \in [D -> HeapSegHeader],
         NEW tail, NEW end, Tiles(seg, tail, end),
         \A a \in D : /\ s[a].length = seg[a].length
                      /\ s[a].next = seg[a].next /\ s[a].last = seg[a].last
  PROVE  Tiles(s, tail, end)
<1>1. \A a \in D : EndOf(a, s) = EndOf(a, seg)
  BY DEF EndOf
<1> QED
  BY <1>1 DEF Tiles

\* A block of n bytes is taken at h, and the segments that are new are free.
Takes(seg, h, n, s) ==
  /\ h \in DOMAIN seg /\ seg[h].free
  /\ s[h].length >= n /\ ~s[h].free
  /\ DOMAIN seg \subseteq DOMAIN s
  /\ \A a \in DOMAIN seg \ {h} : s[a].length = seg[a].length /\ (s[a].free <=> seg[a].free)
  /\ \A a \in DOMAIN s \ DOMAIN seg : s[a].free

LEMMA HoldsTaken ==
  ASSUME NEW seg, NEW s, NEW blocks, Holds(seg, blocks),
         NEW h \in Nat, NEW n, Takes(seg, h, n, s)
  PROVE  Holds(s, blocks \union {[addr |-> h + Header, size |-> n]})
<1> DEFINE b0 == [addr |-> h + Header, size |-> n]
<1>1. /\ b0.addr = h + Header /\ b0.size = n /\ Header \in Nat /\ b0.addr \in Nat
      /\ b0.addr - Header = h
  BY HeapConstants
<1> HIDE DEF b0
<1>2. \A b \in blocks : /\ b.addr \in Nat /\ b.addr - Header \in DOMAIN seg \ {h}
                        /\ s[b.addr - Header].length >= b.size
  BY DEF Holds, Used, Takes
<1>3. Used(s) = Used(seg) \union {h}
  BY DEF Used, Takes
<1>4. Used(s) = {b.addr - Header : b \in blocks \union {b0}}
  BY <1>1, <1>3 DEF Holds
<1>5. \A b \in blocks : b.addr # b0.addr
  BY <1>1, <1>2
<1> QED
  BY <1>1, <1>2, <1>4, <1>5 DEF Holds, Takes, b0

\* The blocks stay held when the used segments keep their lengths.
LEMMA HoldsSame ==
  ASSUME NEW seg, NEW s, NEW blocks, Holds(seg, blocks),
         DOMAIN seg \subseteq DOMAIN s,
         \A a \in DOMAIN seg : s[a].length = seg[a].length /\ (s[a].free <=> seg[a].free),
         \A a \in DOMAIN s \ DOMAIN seg : s[a].free
  PROVE  Holds(s, blocks)
<1>1. Used(s) = Used(seg)
  BY DEF Used
<1>2. \A b \in blocks : b.addr - Header \in DOMAIN seg
  BY DEF Holds, Used
<1> QED
  BY <1>1, <1>2 DEF Holds

\* A block is freed.
LEMMA HoldsFreed ==
  ASSUME NEW seg, NEW s, NEW blocks, Holds(seg, blocks), NEW block \in blocks,
         DOMAIN seg = DOMAIN s, s[block.addr - Header].free,
         \A a \in DOMAIN seg \ {block.addr - Header} :
           s[a].length = seg[a].length /\ (s[a].free <=> seg[a].free)
  PROVE  Holds(s, blocks \ {block})
<1>1. \A b \in blocks : b.addr \in Nat /\ b.addr - Header \in Used(seg)
  BY DEF Holds
<1>2. \A b \in blocks \ {block} : b.addr # block.addr
  BY DEF Holds
<1>3. \A b \in blocks \ {block} : b.addr - Header # block.addr - Header
  BY <1>1, <1>2, HeapConstants
<1>4. Used(s) = Used(seg) \ {block.addr - Header}
  BY DEF Used
<1>5. Used(s) = {b.addr - Header : b \in blocks \ {block}}
  BY <1>3, <1>4 DEF Holds
<1>6. \A b \in blocks \ {block} : s[b.addr - Header].length >= b.size
  BY <1>1, <1>3 DEF Holds, Used
<1> QED
  BY <1>1, <1>5, <1>6 DEF Holds

\* s is seg with a last segment of len bytes more.
Appends(D, seg, tail, end, len, s) ==
  /\ s \in [D \union {end} -> HeapSegHeader]
  /\ s[end].length = len /\ s[end].next = NULL /\ s[end].last = tail
  /\ s[tail].next = end /\ s[tail].last = seg[tail].last
  /\ s[tail].length = seg[tail].length
  /\ \A a \in D \ {tail} : s[a] = seg[a]

LEMMA AppendTiles ==
  ASSUME NEW D, NEW seg \in [D -> HeapSegHeader], NEW tail, NEW end, Tiles(seg, tail, end),
         NEW len \in Nat, NEW s, Appends(D, seg, tail, end, len, s)
  PROVE  Tiles(s, end, end + Header + len)
<1>1. /\ Header \in Nat \ {0} /\ heap_start \in Nat \ {0} /\ DOMAIN seg = D
      /\ DOMAIN s = D \union {end} /\ end \in Nat /\ tail \in D /\ heap_start \in D
      /\ \A a \in D : a \in Nat /\ seg[a].length \in Nat /\ a <= tail /\ heap_start <= a
  BY HeapConstants, TilesFacts DEF Appends
<1>2. \A a \in D : EndOf(a, s) = EndOf(a, seg) /\ s[a].last = seg[a].last
  BY DEF EndOf, Appends
<1>3. \A a \in D : EndOf(a, seg) \in Nat /\ a < EndOf(a, seg) /\ EndOf(a, seg) <= end
  <2>1. \A a \in D : EndOf(a, seg) \in Nat /\ a < EndOf(a, seg)
    BY <1>1 DEF EndOf
  <2>2. \A a \in D : a < tail => EndOf(a, seg) <= tail
    BY <1>1 DEF Tiles
  <2>3. EndOf(tail, seg) = end
    BY DEF Tiles
  <2> QED
    BY <1>1, <2>1, <2>2, <2>3
<1>4. \A a \in D : a < end
  BY <1>1, <1>3
<1>5. EndOf(end, s) = end + Header + len /\ s[end].next = NULL
  BY DEF EndOf, Appends
<1>6. s[heap_start].last = NULL
  BY <1>1, <1>2 DEF Tiles
<1>7. ASSUME NEW a \in D
      PROVE  EndOf(a, s) \in D \union {end} /\ s[a].next = EndOf(a, s) /\ s[EndOf(a, s)].last = a
  <2>1. CASE a = tail
    BY <1>2, <2>1 DEF Appends, Tiles
  <2>2. CASE a # tail
    <3>1. EndOf(a, seg) \in D /\ seg[a].next = EndOf(a, seg) /\ seg[EndOf(a, seg)].last = a
      BY <1>1, <2>2 DEF Tiles
    <3>2. s[a] = seg[a]
      BY <2>2 DEF Appends
    <3> QED
      BY <1>2, <3>1, <3>2
  <2> QED
    BY <2>1, <2>2
<1>10. ASSUME NEW a \in D \union {end}, a # heap_start
       PROVE  s[a].last \in D \union {end} /\ EndOf(s[a].last, s) = a
  <2>1. CASE a = end
    <3>1. s[a].last = tail /\ EndOf(tail, seg) = end
      BY <2>1 DEF Appends, Tiles
    <3> QED
      BY <1>1, <1>2, <2>1, <3>1
  <2>2. CASE a \in D
    <3>1. seg[a].last \in D /\ EndOf(seg[a].last, seg) = a
      BY <1>1, <1>10, <2>2 DEF Tiles
    <3> QED
      BY <1>2, <2>2, <3>1
  <2> QED
    BY <2>1, <2>2
<1>8. ASSUME NEW g \in D \union {end}, NEW a \in D \union {end}, g < a
      PROVE  EndOf(g, s) <= a
  <2>1. g \in D
    BY <1>1, <1>4, <1>8
  <2>2. CASE a = end
    BY <1>2, <1>3, <2>1, <2>2
  <2>3. CASE a \in D
    BY <1>1, <1>2, <1>8, <2>1, <2>3 DEF Tiles
  <2> QED
    BY <2>2, <2>3
<1>9. \A a \in D \union {end} : a \in Nat /\ heap_start <= a /\ a <= end
  BY <1>1, <1>4
<1> QED
  BY <1>1, <1>5, <1>6, <1>7, <1>8, <1>9, <1>10 DEF Tiles

-------------------------------------------------------------------------------
(***************************************************************************)
(* The invariant is inductive: one lemma per call.                         *)
(***************************************************************************)
\* The invariant before the first merge, with what it says of each header.
LEMMA WhileIntact ==
  ASSUME HeapInv, intact
  PROVE  /\ hdr \in [DOMAIN hdr -> HeapSegHeader]
         /\ Tiles(hdr, last_header, heap_end) /\ Holds(hdr, live) /\ CursorInv
         /\ NULL \notin DOMAIN hdr /\ heap_start \in DOMAIN hdr
         /\ last_header \in DOMAIN hdr /\ heap_end \in Nat
         /\ \A h \in DOMAIN hdr : /\ h \in Nat /\ heap_start <= h /\ h <= last_header
                                  /\ hdr[h].length \in Nat /\ hdr[h].next \in Nat
                                  /\ hdr[h].last \in Nat /\ hdr[h].free \in BOOLEAN
                                  /\ (hdr[h].next = NULL <=> h = last_header)
         /\ \A h \in DOMAIN hdr \ {last_header} :
              hdr[h].next \in DOMAIN hdr /\ hdr[h].next > h
BY TilesFacts DEF HeapInv

LEMMA HeapInvInit == Init => HeapInv
<1> SUFFICES ASSUME Init PROVE HeapInv
  OBVIOUS
<1>1. /\ Header \in Nat \ {0} /\ heap_start \in Nat \ {0}
      /\ InitPages * Page - Header \in Nat
      /\ heap_start + Header + (InitPages * Page - Header) = heap_start + InitPages * Page
  BY HeapConstants
<1>2. hdr = [h \in {heap_start} |-> [length |-> InitPages * Page - Header,
               next |-> NULL, last |-> NULL, free |-> TRUE]]
  BY DEF Init
<1>3. /\ DOMAIN hdr = {heap_start} /\ hdr[heap_start].length = InitPages * Page - Header
      /\ hdr[heap_start].next = NULL /\ hdr[heap_start].last = NULL
      /\ hdr[heap_start].free
  BY <1>2
<1>4. hdr \in [DOMAIN hdr -> HeapSegHeader]
  BY <1>1, <1>2 DEF HeapSegHeader, NULL
<1>5. Tiles(hdr, last_header, heap_end)
  <2>1. last_header = heap_start /\ heap_end = heap_start + InitPages * Page
    BY DEF Init
  <2>2. EndOf(heap_start, hdr) = heap_end
    BY <1>1, <1>3, <2>1 DEF EndOf
  <2> QED
    BY <1>1, <1>3, <2>1, <2>2 DEF Tiles
<1>6. Holds(hdr, live)
  BY <1>3 DEF Init, Holds, Used
<1>7. CursorInv
  BY <1>1, <1>3 DEF Init, CursorInv, NULL
<1> QED
  BY <1>4, <1>5, <1>6, <1>7 DEF HeapInv

\* Halting changes nothing the invariant is about.
LEMMA HaltKeeps ==
  ASSUME HeapInv,
         UNCHANGED <<hdr, heap_end, last_header, cur_segment, request, live, intact>>
  PROVE  HeapInv'
BY DEF HeapInv, CursorInv, FreeFits

\* A cursor that stands nowhere satisfies its part.
LEMMA NoCursor ==
  ASSUME cur_segment' = NULL, request' = 0, NULL \notin DOMAIN hdr'
  PROVE  CursorInv'
BY DEF CursorInv

LEMMA MallocKeeps ==
  ASSUME HeapInv, NEW size \in Sizes, malloc(size)
  PROVE  HeapInv'
<1> SUFFICES ASSUME intact
             PROVE  HeapInv'
  BY DEF malloc, HeapInv
<1>1. request' \in Nat /\ request' > 0
  <2>1. size \in Nat \ {0} /\ Grain \in Nat \ {0}
    BY HeapConstantsAssumption DEF malloc
  <2>2. RoundUp(size, Grain) \in Nat /\ RoundUp(size, Grain) >= size
    BY <2>1, RoundUpIsMore
  <2> QED
    BY <2>1, <2>2 DEF malloc
<1>2. cur_segment' = heap_start /\ UNCHANGED <<hdr, heap_end, last_header, live, intact>>
  BY DEF malloc, first_segment
<1>3. CursorInv'
  BY <1>1, <1>2, WhileIntact DEF CursorInv
<1> QED
  BY <1>2, <1>3, WhileIntact DEF HeapInv

LEMMA ScanKeeps ==
  ASSUME HeapInv, scan_next
  PROVE  HeapInv'
<1> SUFFICES ASSUME intact
             PROVE  HeapInv'
  BY DEF scan_next, HeapInv
<1>1. UNCHANGED <<hdr, heap_end, last_header, request, live, intact>>
  BY DEF scan_next
<1>2. /\ cur_segment \in DOMAIN hdr /\ cur_segment' = hdr[cur_segment].next
      /\ hdr[cur_segment].next # NULL /\ Unfit
  BY DEF scan_next, Walking
<1>3. cur_segment' = EndOf(cur_segment, hdr) /\ cur_segment' \in DOMAIN hdr
  <2>1. cur_segment # last_header
    BY <1>2, WhileIntact
  <2> QED
    BY <1>2, <2>1, WhileIntact DEF Tiles
<1>4. request \in Nat /\ request > 0
  BY <1>2, WhileIntact DEF CursorInv
<1>5. ASSUME NEW h \in DOMAIN hdr, h < cur_segment' PROVE ~FreeFits(h)
  <2>1. h < cur_segment \/ h = cur_segment
    BY <1>2, <1>3, <1>5, WhileIntact DEF Tiles
  <2>2. ~FreeFits(cur_segment)
    BY <1>2, <1>4, WhileIntact DEF Unfit, FreeFits
  <2> QED
    BY <1>2, <2>1, <2>2, WhileIntact DEF CursorInv
<1>6. CursorInv'
  BY <1>1, <1>3, <1>4, <1>5 DEF CursorInv, FreeFits
<1> QED
  BY <1>1, <1>6, WhileIntact DEF HeapInv

\* The segment at the cursor, or its front, becomes a used one.
LEMMA TakeSplitKeeps ==
  ASSUME HeapInv, take_split
  PROVE  HeapInv'
<1> DEFINE h == cur_segment
           m == split(h, request, Memory)
           t == [m EXCEPT !.seg[h].free = FALSE]
<1>1. CASE Stop(Ending(m))
  BY <1>1, HaltKeeps DEF Stop, Halt
<1>2. CASE ~Stop(Ending(m))
  <2>1. /\ Complete(t) /\ Return(h + Header) /\ UNCHANGED <<heap_end, intact>>
        /\ Walking /\ hdr[h].free /\ hdr[h].length > request
    BY <1>2 DEF take_split
  <2> SUFFICES ASSUME intact
               PROVE  HeapInv'
    BY <2>1 DEF HeapInv
  <2>2. hdr' = t.seg /\ last_header' = t.tail
    BY <2>1 DEF Complete
  <2>3. live' = live \union {[addr |-> h + Header, size |-> request]}
    BY <2>1 DEF Return
  <2>4. /\ h \in DOMAIN hdr /\ h \in Nat /\ request \in Nat /\ hdr[h].length \in Nat
        /\ hdr \in [DOMAIN hdr -> HeapSegHeader]
        /\ Tiles(hdr, last_header, heap_end) /\ Holds(hdr, live)
    BY <2>1, WhileIntact DEF Walking, CursorInv
  <2>5. CASE ~splittable(h, request, Memory)
    <3>1. hdr' = [hdr EXCEPT ![h].free = FALSE] /\ last_header' = last_header
      <4>1. m = Image(hdr, last_header, "running")
        BY <2>5 DEF split, Memory
      <4>2. t = [Image(hdr, last_header, "running") EXCEPT !.seg[h].free = FALSE]
        BY <4>1
      <4> HIDE DEF m, t, h
      <4>3. t.seg = [hdr EXCEPT ![h].free = FALSE]
        BY <4>2 DEF Image
      <4>4. t.tail = last_header
        BY <4>2 DEF Image
      <4> QED
        BY <2>2, <4>3, <4>4
    <3>2. /\ hdr' \in [DOMAIN hdr -> HeapSegHeader] /\ DOMAIN hdr' = DOMAIN hdr
          /\ ~hdr'[h].free /\ hdr'[h].length = hdr[h].length
          /\ hdr'[h].next = hdr[h].next /\ hdr'[h].last = hdr[h].last
          /\ \A a \in DOMAIN hdr \ {h} : hdr'[a] = hdr[a]
      BY <2>4, <3>1 DEF HeapSegHeader
    <3>3. Tiles(hdr', last_header', heap_end')
      BY <2>1, <2>4, <3>1, <3>2, TilesSame
    <3>4. Holds(hdr', live')
      <4>1. Takes(hdr, h, request, hdr')
        BY <2>1, <2>4, <3>2 DEF Takes
      <4> QED
        BY <2>3, <2>4, <4>1, HoldsTaken
    <3>5. CursorInv'
      BY <2>1, <3>2, WhileIntact, NoCursor DEF Return
    <3> QED
      BY <3>2, <3>3, <3>4, <3>5 DEF HeapInv
  <2>6. CASE splittable(h, request, Memory)
    <3> DEFINE new == h + request + Header
               x == m.seg
               y == IF last_header = h THEN new ELSE last_header
    <3>1. /\ new \in Nat \ DOMAIN hdr /\ x \in [DOMAIN hdr \union {new} -> HeapSegHeader]
          /\ m = [Image(hdr, last_header, "running") EXCEPT !.seg = x, !.tail = y]
          /\ x[h].length = request /\ (x[new].free <=> hdr[h].free)
          /\ \A a \in DOMAIN hdr \ {h} : /\ x[a].length = hdr[a].length
                                         /\ (x[a].free <=> hdr[a].free)
          /\ Tiles(x, y, heap_end)
      <4>1. Splits(DOMAIN hdr, hdr, last_header, h, request, m)
        BY <2>1, <2>4, <2>6, SplitFacts DEF Memory
      <4> QED
        BY <4>1 DEF Splits
    <3>2. hdr' = [x EXCEPT ![h].free = FALSE] /\ last_header' = y
      <4> HIDE DEF x, y
      <4> QED
        BY <2>2, <3>1, ImageWith
    <3> HIDE DEF x, y, new
    <3>3. /\ hdr' \in [DOMAIN hdr \union {new} -> HeapSegHeader]
          /\ DOMAIN hdr' = DOMAIN hdr \union {new}
          /\ ~hdr'[h].free /\ hdr'[h].length = request
          /\ hdr'[h].next = x[h].next /\ hdr'[h].last = x[h].last
          /\ \A a \in (DOMAIN hdr \union {new}) \ {h} : hdr'[a] = x[a]
      BY <2>4, <3>1, <3>2 DEF HeapSegHeader
    <3>4. Tiles(hdr', last_header', heap_end')
      <4>1. \A a \in DOMAIN hdr \union {new} :
              /\ hdr'[a].length = x[a].length
              /\ hdr'[a].next = x[a].next /\ hdr'[a].last = x[a].last
        BY <2>4, <3>1, <3>3
      <4>2. Tiles(hdr', y, heap_end)
        BY <3>1, <3>3, <4>1, TilesSame
      <4> QED
        BY <2>1, <3>2, <4>2
    <3>5. Holds(hdr', live')
      <4>1. Takes(hdr, h, request, hdr')
        BY <2>1, <2>4, <3>1, <3>3 DEF Takes
      <4> QED
        BY <2>3, <2>4, <4>1, HoldsTaken
    <3>6. CursorInv'
      BY <2>1, <3>3, <3>4, TilesFacts, NoCursor DEF Return
    <3> QED
      BY <3>3, <3>4, <3>5, <3>6 DEF HeapInv
  <2> QED
    BY <2>5, <2>6
<1> QED
  BY <1>1, <1>2

\* The walk ends at the last segment: no free segment fits.
LEMMA NothingFits ==
  ASSUME HeapInv, intact, Walking, Unfit, hdr[cur_segment].next = NULL
  PROVE  /\ cur_segment = last_header /\ request \in Nat \ {0}
         /\ \A h \in DOMAIN hdr : ~FreeFits(h)
<1>1. cur_segment \in DOMAIN hdr
  BY DEF Walking
<1>2. cur_segment = last_header
  BY <1>1, WhileIntact
<1>3. request \in Nat \ {0}
  BY <1>1, WhileIntact DEF CursorInv
<1>4. ASSUME NEW h \in DOMAIN hdr PROVE ~FreeFits(h)
  <2>1. h < cur_segment \/ h = cur_segment
    BY <1>1, <1>2, WhileIntact
  <2>2. ~FreeFits(cur_segment)
    BY <1>1, <1>3, WhileIntact DEF Unfit, FreeFits
  <2> QED
    BY <1>1, <2>1, <2>2, WhileIntact DEF CursorInv
<1> QED
  BY <1>2, <1>3, <1>4

\* What calls of combine_forward and combine_backward work on.
Memories(D) == [seg : [D -> HeapSegHeader], tail : D, end : {"running"}]

LEMMA ImageInMemories ==
  ASSUME NEW D, NEW seg \in [D -> HeapSegHeader], NEW tail \in D
  PROVE  Image(seg, tail, "running") \in Memories(D)
BY DEF Image, Memories

\* m is what combine_forward makes of m0 when it joins h and the next segment.
Joins(D, m0, h, m) ==
  LET n  == m0.seg[h].next
      nn == m0.seg[n].next
  IN  /\ m \in Memories(D)
      /\ m.tail = IF n = m0.tail THEN h ELSE m0.tail
      /\ m.seg[h].length = m0.seg[h].length + m0.seg[n].length + Header
      /\ \A a \in D : /\ (m.seg[a].free <=> m0.seg[a].free)
                      /\ m.seg[a].next = m0.seg[a].next
                      /\ m.seg[a].last = IF a = nn THEN h ELSE m0.seg[a].last
                      /\ a # h => m.seg[a].length = m0.seg[a].length

\* h has a free neighbour behind it.
CanJoin(D, m0, h) ==
  LET n  == m0.seg[h].next
      nn == m0.seg[n].next
  IN  /\ h \in D /\ h \in Nat /\ NULL \notin D
      /\ n \in D /\ m0.seg[n].free /\ (nn = NULL \/ nn \in D)

LEMMA ForwardJoins ==
  ASSUME NEW D, NEW m0 \in Memories(D), NEW h, CanJoin(D, m0, h)
  PROVE  Joins(D, m0, h, combine_forward(h, m0))
<1> DEFINE seg == m0.seg
           n  == seg[h].next
           nn == seg[n].next
           relinked == IF nn = NULL THEN seg ELSE [seg EXCEPT ![nn].last = h]
           x == [relinked EXCEPT ![h].length = merged_length(@, seg[n].length)]
           y == IF n = m0.tail THEN h ELSE m0.tail
           m == combine_forward(h, m0)
<1>1. /\ h \in D /\ h \in Nat /\ NULL \notin D /\ n \in D /\ seg[n].free
      /\ nn = NULL \/ nn \in D
  BY DEF CanJoin
<1>2. /\ seg \in [D -> HeapSegHeader] /\ DOMAIN seg = D /\ m0.tail \in D /\ Header \in Nat
      /\ \A a \in D : /\ seg[a].length \in Nat /\ seg[a].next \in Nat
                      /\ seg[a].last \in Nat /\ seg[a].free \in BOOLEAN
  BY HeapConstants DEF Memories, HeapSegHeader
<1>3. m = [m0 EXCEPT !.seg = x, !.tail = y]
  BY <1>1, <1>2 DEF combine_forward
<1>4. /\ relinked \in [D -> HeapSegHeader]
      /\ \A a \in D : /\ (relinked[a].free <=> seg[a].free)
                      /\ relinked[a].next = seg[a].next
                      /\ relinked[a].length = seg[a].length
                      /\ relinked[a].last = IF a = nn THEN h ELSE seg[a].last
  <2> HIDE DEF seg, n, nn
  <2>1. CASE nn = NULL
    BY <1>1, <1>2, <2>1
  <2>2. CASE nn # NULL
    BY <1>1, <1>2, <2>2, HeaderExcept
  <2> QED
    BY <2>1, <2>2
<1>5. merged_length(relinked[h].length, seg[n].length) \in Nat
  <2>1. relinked[h].length \in Nat
    BY <1>1, <1>2, <1>4
  <2> HIDE DEF relinked
  <2> QED
    BY <1>1, <1>2, <2>1 DEF merged_length
<1>6. /\ x \in [D -> HeapSegHeader]
      /\ x[h].length = seg[h].length + seg[n].length + Header
      /\ \A a \in D : /\ (x[a].free <=> relinked[a].free)
                      /\ x[a].next = relinked[a].next /\ x[a].last = relinked[a].last
                      /\ a # h => x[a].length = relinked[a].length
  <2> DEFINE v == merged_length(relinked[h].length, seg[n].length)
  <2>1. v = seg[h].length + seg[n].length + Header
    BY <1>1, <1>2, <1>4 DEF merged_length
  <2>2. x = [relinked EXCEPT ![h].length = v]
    OBVIOUS
  <2> HIDE DEF relinked, v, x
  <2> QED
    BY <1>1, <1>4, <1>5, <2>1, <2>2, HeaderExcept DEF v
<1>7. y \in D
  BY <1>1, <1>2
<1>8. m \in Memories(D) /\ m.seg = x /\ m.tail = y
  <2>1. x \in [D -> HeapSegHeader]
    BY <1>6
  <2> HIDE DEF x, y, m
  <2> QED
    BY <1>3, <1>7, <2>1 DEF Memories
<1>9. /\ m.seg[h].length = seg[h].length + seg[n].length + Header
      /\ \A a \in D : /\ (m.seg[a].free <=> seg[a].free)
                      /\ m.seg[a].next = seg[a].next
                      /\ m.seg[a].last = IF a = nn THEN h ELSE seg[a].last
                      /\ a # h => m.seg[a].length = seg[a].length
  <2>1. m.seg = x
    BY <1>8
  <2> HIDE DEF x, m, relinked
  <2> QED
    BY <1>4, <1>6, <2>1
<1> QED
  <2>1. Joins(D, m0, h, m)
    <3> HIDE DEF m
    <3> QED
      BY <1>8, <1>9 DEF Joins
  <2> QED
    BY <2>1

\* extend_heap: a new last segment; one that is joined with the segment before
\* it ends the history the invariant is about.
LEMMA ExtendKeeps ==
  ASSUME HeapInv, extend_heap
  PROVE  HeapInv'
<1> DEFINE length == RoundUp(request, Page)
           new    == heap_end
           record == [length |-> length - Header, next |-> NULL,
                      last |-> last_header, free |-> TRUE]
           linked == [hdr EXCEPT ![last_header].next = new]
           added  == Store(new, record, linked)
           m0     == Image(added, new, "running")
           m      == combine_backward(new, m0)
           D      == DOMAIN hdr
<1>1. CASE ~intact'
  BY <1>1 DEF HeapInv
<1>2. CASE intact' /\ UNCHANGED <<hdr, heap_end, last_header, cur_segment, request, live, intact>>
  BY <1>2, HaltKeeps
<1>3. CASE intact' /\ ~UNCHANGED <<hdr, heap_end, last_header, cur_segment, request, live, intact>>
  <2>1. /\ Complete(m) /\ heap_end' = heap_end + length
        /\ cur_segment' = first_segment /\ intact' = (intact /\ m.seg = added)
        /\ UNCHANGED <<request, live>> /\ Walking /\ Unfit /\ hdr[cur_segment].next = NULL
    BY <1>3 DEF extend_heap, Stop, Halt
  <2>2. intact /\ m.seg = added /\ hdr' = m.seg /\ last_header' = m.tail
    BY <1>3, <2>1 DEF Complete
  <2>3. request \in Nat \ {0} /\ cur_segment = last_header
    BY <2>1, <2>2, NothingFits
  <2>4. length \in Nat /\ length - Header \in Nat /\ Header \in Nat \ {0}
    <3>1. length \in Nat /\ length >= Page
      BY <2>3, HeapConstants, RoundUpIsMore
    <3> HIDE DEF length
    <3> QED
      BY <3>1, HeapConstants
  <2>5. /\ hdr \in [D -> HeapSegHeader] /\ Tiles(hdr, last_header, heap_end)
        /\ Holds(hdr, live) /\ heap_start \in D /\ last_header \in D /\ new \in Nat
        /\ NULL \notin D /\ \A a \in D : a \in Nat /\ heap_start <= a
    BY <2>2, WhileIntact
  <2> HIDE DEF length, D
  <2>6. \A a \in D : a + Header <= new
    <3>1. \A a \in D : EndOf(a, hdr) \in Nat /\ a + Header <= EndOf(a, hdr)
      BY <2>2, <2>4, WhileIntact DEF EndOf, D
    <3>2. \A a \in D : a < last_header => EndOf(a, hdr) <= last_header
      BY <2>2, WhileIntact DEF Tiles, D
    <3>3. EndOf(last_header, hdr) = new /\ \A a \in D : a <= last_header
      BY <2>2, WhileIntact DEF Tiles, D
    <3> QED
      BY <2>4, <2>5, <3>1, <3>2, <3>3
  <2>7. new \notin D
    BY <2>4, <2>5, <2>6
  <2>8. /\ linked \in [D -> HeapSegHeader]
        /\ linked[last_header].next = new /\ linked[last_header].last = hdr[last_header].last
        /\ linked[last_header].length = hdr[last_header].length
        /\ (linked[last_header].free <=> hdr[last_header].free)
        /\ \A a \in D \ {last_header} : linked[a] = hdr[a]
    BY <2>5, HeaderExcept
  <2>9. Adds(D, linked, new, record, added)
    <3>1. record \in HeapSegHeader
      BY <2>4, <2>5 DEF HeapSegHeader, NULL
    <3>2. \A a \in D : a \in Nat /\ (a + Header <= new \/ new + Header <= a)
      BY <2>5, <2>6
    <3>3. new \in Nat \ D
      BY <2>5, <2>7
    <3> HIDE DEF linked, record
    <3> QED
      BY <2>8, <3>1, <3>2, <3>3, StoreFits
  <2>10. /\ added \in [D \union {new} -> HeapSegHeader]
         /\ added[new].length = length - Header /\ added[new].next = NULL
         /\ added[new].last = last_header /\ added[new].free
         /\ \A a \in D : added[a] = linked[a]
    <3>1. /\ record.length = length - Header /\ record.next = NULL
          /\ record.last = last_header /\ record.free
      OBVIOUS
    <3> HIDE DEF record, added, linked
    <3> QED
      BY <2>9, <3>1 DEF Adds
  <2> HIDE DEF added
  <2>11. /\ m0 \in Memories(D \union {new}) /\ m0.seg = added /\ m0.tail = new
         /\ m0.end = "running"
    BY <2>10, ImageInMemories, ImageFields
  <2> HIDE DEF m0, linked, record
  <2>12. m = m0
    <3>1. m = IF added[last_header].free THEN combine_forward(last_header, m0) ELSE m0
      BY <2>5, <2>10, <2>11 DEF combine_backward
    <3>2. ASSUME added[last_header].free PROVE FALSE
      <4>1. CanJoin(D \union {new}, m0, last_header)
        BY <2>4, <2>5, <2>6, <2>8, <2>10, <2>11, <3>2 DEF CanJoin, NULL
      <4>2. Joins(D \union {new}, m0, last_header, m)
        BY <2>11, <3>1, <3>2, <4>1, ForwardJoins
      <4>3. m.seg[last_header].length = added[last_header].length + (length - Header) + Header
        BY <2>5, <2>8, <2>10, <2>11, <4>2 DEF Joins
      <4>4. added[last_header].length \in Nat
        BY <2>5, <2>10 DEF HeapSegHeader
      <4> QED
        BY <2>2, <2>4, <4>3, <4>4
    <3> QED
      BY <3>1, <3>2
  <2>13. hdr' = added /\ last_header' = new
    BY <2>2, <2>11, <2>12
  <2>14. Tiles(hdr', last_header', heap_end')
    <3>1. Appends(D, hdr, last_header, new, length - Header, added)
      BY <2>5, <2>8, <2>10 DEF Appends
    <3>2. Tiles(added, new, new + Header + (length - Header))
      BY <2>4, <2>5, <3>1, AppendTiles
    <3>3. new + Header + (length - Header) = heap_end + length
      BY <2>4, <2>5
    <3> QED
      BY <2>1, <2>13, <3>2, <3>3
  <2>15. Holds(hdr', live')
    <3>1. \A a \in D : added[a].length = hdr[a].length /\ (added[a].free <=> hdr[a].free)
      BY <2>5, <2>8, <2>10
    <3>2. Holds(added, live)
      BY <2>5, <2>10, <3>1, HoldsSame DEF D
    <3> QED
      BY <2>1, <2>13, <3>2
  <2>16. CursorInv'
    <3>1. cur_segment' = heap_start /\ request' = request
      BY <2>1 DEF first_segment
    <3>2. DOMAIN hdr' = D \union {new} /\ \A a \in D \union {new} : a \in Nat /\ heap_start <= a
      BY <2>4, <2>5, <2>6, <2>10, <2>13
    <3> QED
      BY <2>3, <2>5, <3>1, <3>2 DEF CursorInv
  <2> QED
    BY <2>10, <2>13, <2>14, <2>15, <2>16 DEF HeapInv
<1> QED
  BY <1>1, <1>2, <1>3

\* A client holds blocks that lie behind the header of a used segment.
LEMMA BlockFacts ==
  ASSUME HeapInv, intact, NEW block \in live
  PROVE  /\ block.addr - Header \in DOMAIN hdr
         /\ [hdr EXCEPT ![block.addr - Header].free = TRUE] \in [DOMAIN hdr -> HeapSegHeader]
         /\ LET s == [hdr EXCEPT ![block.addr - Header].free = TRUE]
            IN  /\ s[block.addr - Header].free
                /\ \A a \in DOMAIN hdr :
                     /\ s[a].length = hdr[a].length
                     /\ s[a].next = hdr[a].next /\ s[a].last = hdr[a].last
                     /\ a # block.addr - Header => s[a] = hdr[a]
<1> DEFINE h == block.addr - Header
           s == [hdr EXCEPT ![h].free = TRUE]
<1>1. h \in DOMAIN hdr /\ hdr \in [DOMAIN hdr -> HeapSegHeader]
  BY WhileIntact DEF Holds, Used
<1> HIDE DEF h
<1>2. /\ s \in [DOMAIN hdr -> HeapSegHeader] /\ s[h].free
      /\ s[h].length = hdr[h].length /\ s[h].next = hdr[h].next /\ s[h].last = hdr[h].last
      /\ \A a \in DOMAIN hdr \ {h} : s[a] = hdr[a]
  BY <1>1 DEF HeapSegHeader
<1>3. \A a \in DOMAIN hdr :
        /\ s[a].length = hdr[a].length
        /\ s[a].next = hdr[a].next /\ s[a].last = hdr[a].last
        /\ a # h => s[a] = hdr[a]
  <2> HIDE DEF s
  <2> QED
    BY <1>2
<1> QED
  BY <1>1, <1>2, <1>3 DEF h

\* free, until it first joins two segments.
LEMMA FreeKeeps ==
  ASSUME HeapInv, NEW block \in live, free(block)
  PROVE  HeapInv'
<1> DEFINE h     == block.addr - Header
           s     == [hdr EXCEPT ![h].free = TRUE]
           freed == Image(s, last_header, "running")
           m     == combine_backward(h, combine_forward(h, freed))
<1>1. CASE ~intact'
  BY <1>1 DEF HeapInv
<1>2. CASE UNCHANGED <<hdr, heap_end, last_header, cur_segment, request, live, intact>>
  BY <1>2, HaltKeeps
<1>3. CASE intact' /\ ~UNCHANGED <<hdr, heap_end, last_header, cur_segment, request, live, intact>>
  <2>1. /\ Complete(m) /\ live' = live \ {block} /\ intact' = (intact /\ m = freed)
        /\ UNCHANGED <<heap_end, cur_segment, request>> /\ request = 0
    BY <1>3 DEF free, Halt, Call
  <2>2. intact /\ m = freed /\ hdr' = m.seg /\ last_header' = m.tail
    BY <1>3, <2>1 DEF Complete
  <2>3. hdr' = s /\ last_header' = last_header
    <3> HIDE DEF s, m
    <3>1. freed.seg = s /\ freed.tail = last_header
      BY ImageFields
    <3> HIDE DEF freed
    <3> QED
      BY <2>2, <3>1
  <2>4. /\ h \in DOMAIN hdr /\ s \in [DOMAIN hdr -> HeapSegHeader] /\ s[h].free
        /\ \A a \in DOMAIN hdr :
             /\ s[a].length = hdr[a].length
             /\ s[a].next = hdr[a].next /\ s[a].last = hdr[a].last
             /\ a # h => s[a] = hdr[a]
    BY <2>2, BlockFacts
  <2> HIDE DEF s
  <2>5. Tiles(s, last_header, heap_end)
    BY <2>2, <2>4, WhileIntact, TilesSame
  <2>6. Holds(s, live \ {block})
    <3>1. Holds(hdr, live) /\ DOMAIN s = DOMAIN hdr
      BY <2>2, <2>4, WhileIntact
    <3>2. \A a \in DOMAIN hdr \ {block.addr - Header} :
            s[a].length = hdr[a].length /\ (s[a].free <=> hdr[a].free)
      BY <2>4
    <3> QED
      BY <2>4, <3>1, <3>2, HoldsFreed
  <2>7. CursorInv'
    <3>1. cur_segment = NULL
      BY <2>1, <2>2, WhileIntact DEF CursorInv
    <3> QED
      BY <2>1, <2>2, <2>3, <2>4, <3>1, WhileIntact, NoCursor
  <2> QED
    BY <2>1, <2>3, <2>4, <2>5, <2>6, <2>7 DEF HeapInv
<1> QED
  BY <1>1, <1>2, <1>3

LEMMA HeapInvStep == HeapInv /\ [Next]_vars => HeapInv'
<1> SUFFICES ASSUME HeapInv, [Next]_vars PROVE HeapInv'
  OBVIOUS
<1>1. ASSUME NEW size \in Sizes, malloc(size) PROVE HeapInv'
  BY <1>1, MallocKeeps
<1>2. CASE take_split
  BY <1>2, TakeSplitKeeps
<1>3. CASE take_exact
  BY <1>3 DEF take_exact, HeapInv
<1>4. CASE scan_next
  BY <1>4, ScanKeeps
<1>5. CASE scan_lost
  BY <1>5, HaltKeeps DEF scan_lost, Stop, Halt
<1>6. CASE extend_heap
  BY <1>6, ExtendKeeps
<1>7. ASSUME NEW block \in live, free(block) PROVE HeapInv'
  BY <1>7, FreeKeeps
<1>8. CASE UNCHANGED vars
  BY <1>8, HaltKeeps DEF vars
<1> QED
  BY <1>1, <1>2, <1>3, <1>4, <1>5, <1>6, <1>7, <1>8 DEF Next, malloc_step

LEMMA HeapInvariance == Spec => []HeapInv
<1> QED
  BY HeapInvInit, HeapInvStep, PTL DEF Spec

-------------------------------------------------------------------------------
\* Until the first merge the headers tile the heap, linked both ways in the order of
\* their addresses, the last of them in last_header: malloc, split and extend_heap,
\* and a free that joins nothing (heap.cpp:40-123).
THEOREM SegmentsTile == Spec => []TilesUntilMerge
<1>1. HeapInv => TilesUntilMerge
  BY DEF HeapInv, Tiles, TilesUntilMerge
<1> QED
  BY <1>1, HeapInvariance, PTL

\* Until the first merge the used segments are the blocks that clients hold, each in a
\* segment of its own that is large enough (heap.cpp:19-64).
THEOREM UsedAreHeld == Spec => []LiveUntilMerge
<1>1. HeapInv => LiveUntilMerge
  BY DEF HeapInv, Holds, Used, LiveUntilMerge
<1> QED
  BY <1>1, HeapInvariance, PTL

\* malloc takes the lowest free segment that is large enough, and extends the heap only
\* when none is (heap.cpp:25-49).
THEOREM LowestFits == Spec => FirstFitElseGrow
<1>1. ASSUME HeapInv, [Next]_vars, intact
      PROVE  /\ take_split \/ take_exact =>
                  \A h \in DOMAIN hdr : FreeFits(h) => cur_segment <= h
             /\ extend_heap => \A h \in DOMAIN hdr : ~FreeFits(h)
  <2>1. ASSUME take_split \/ take_exact, NEW h \in DOMAIN hdr, FreeFits(h)
        PROVE  cur_segment <= h
    <3>1. cur_segment \in DOMAIN hdr
      BY <2>1 DEF take_split, take_exact, Walking
    <3> QED
      BY <1>1, <2>1, <3>1, WhileIntact DEF CursorInv
  <2>2. ASSUME extend_heap, NEW h \in DOMAIN hdr PROVE ~FreeFits(h)
    BY <1>1, <2>2, NothingFits DEF extend_heap
  <2> QED
    BY <2>1, <2>2
<1>2. HeapInv /\ [Next]_vars =>
        [ intact =>
            /\ take_split \/ take_exact =>
                 \A h \in DOMAIN hdr : FreeFits(h) => cur_segment <= h
            /\ extend_heap => \A h \in DOMAIN hdr : ~FreeFits(h) ]_vars
  BY <1>1
<1> QED
  BY <1>2, HeapInvariance, PTL DEF Spec, FirstFitElseGrow

-------------------------------------------------------------------------------
(***************************************************************************)
(* The first merge.                                                        *)
(***************************************************************************)
\* Where the free segments start and end that a freed one at h is joined with.
Lowest(h)  == IF hdr[h].last # NULL /\ hdr[hdr[h].last].free THEN hdr[h].last ELSE h
Highest(h) == IF hdr[h].next # NULL /\ hdr[hdr[h].next].free THEN hdr[h].next ELSE h

\* free's segment at h after combine_forward.
Forwarded(h, m) ==
  /\ m \in Memories(DOMAIN hdr) /\ m.tail >= h
  /\ m.seg[h].free /\ m.seg[h].last = hdr[h].last
  /\ EndOf(h, m.seg) = EndOf(Highest(h), hdr) /\ EndOf(m.tail, m.seg) = heap_end
  /\ \A a \in DOMAIN hdr :
       /\ m.seg[a].next = hdr[a].next
       /\ a # h => m.seg[a].length = hdr[a].length /\ (m.seg[a].free <=> hdr[a].free)

LEMMA FreeForward ==
  ASSUME HeapInv, intact, NEW h \in DOMAIN hdr, NEW s \in [DOMAIN hdr -> HeapSegHeader],
         s[h].free,
         \A a \in DOMAIN hdr :
            /\ s[a].length = hdr[a].length
            /\ s[a].next = hdr[a].next /\ s[a].last = hdr[a].last
            /\ a # h => s[a] = hdr[a]
  PROVE  Forwarded(h, combine_forward(h, Image(s, last_header, "running")))
<1> DEFINE m0 == Image(s, last_header, "running")
           m  == combine_forward(h, m0)
           n  == hdr[h].next
           D  == DOMAIN hdr
<1>1. /\ m0 \in Memories(D) /\ m0.seg = s /\ m0.tail = last_header
  BY WhileIntact, ImageInMemories, ImageFields
<1>2. /\ NULL \notin D /\ last_header \in D /\ h \in D /\ Header \in Nat \ {0}
      /\ \A a \in D : /\ a \in Nat /\ a <= last_header /\ hdr[a].length \in Nat
                      /\ (hdr[a].next = NULL <=> a = last_header)
      /\ \A a \in D \ {last_header} : hdr[a].next \in D /\ hdr[a].next > a
      /\ EndOf(last_header, hdr) = heap_end
      /\ \A a \in D \ {last_header} : hdr[a].next = EndOf(a, hdr)
  BY WhileIntact, HeapConstants DEF Tiles
<1> HIDE DEF m0, D
<1>3. CASE n = NULL \/ ~hdr[n].free
  <2>1. n # NULL => n \in D /\ n # h
    BY <1>2
  <2>2. m = m0
    BY <1>1, <1>2, <1>3, <2>1 DEF combine_forward, D
  <2>3. Highest(h) = h
    BY <1>3 DEF Highest
  <2>4. EndOf(h, s) = EndOf(h, hdr) /\ EndOf(last_header, s) = EndOf(last_header, hdr)
    BY <1>2 DEF EndOf, D
  <2>5. m0.tail >= h /\ EndOf(m0.tail, m0.seg) = heap_end
    BY <1>1, <1>2, <2>4
  <2>6. Forwarded(h, m0)
    BY <1>1, <2>3, <2>4, <2>5 DEF Forwarded, D
  <2> QED
    BY <2>2, <2>6 DEF m0
<1>4. CASE n # NULL /\ hdr[n].free
  <2>1. n \in D /\ n > h /\ n = EndOf(h, hdr) /\ h # last_header /\ s[n] = hdr[n]
    BY <1>2, <1>4 DEF D
  <2> DEFINE nn == hdr[n].next
  <2>2. nn = NULL \/ (nn \in D /\ nn > n)
    BY <1>2, <2>1
  <2>3. CanJoin(D, m0, h)
    BY <1>1, <1>2, <1>4, <2>1, <2>2 DEF CanJoin
  <2>4. Joins(D, m0, h, m)
    BY <1>1, <2>3, ForwardJoins
  <2>5. /\ m \in Memories(D) /\ m.tail = IF n = last_header THEN h ELSE last_header
        /\ m.seg[h].length = hdr[h].length + hdr[n].length + Header
        /\ \A a \in D : /\ (m.seg[a].free <=> s[a].free) /\ m.seg[a].next = hdr[a].next
                        /\ m.seg[a].last = IF a = nn THEN h ELSE hdr[a].last
                        /\ a # h => m.seg[a].length = hdr[a].length
    BY <1>1, <1>2, <2>1, <2>4 DEF Joins, D
  <2> HIDE DEF m
  <2>6. h # nn
    BY <1>2, <2>1, <2>2
  <2>7. EndOf(h, m.seg) = EndOf(n, hdr)
    <3>1. n = h + Header + hdr[h].length /\ hdr[h].length \in Nat /\ hdr[n].length \in Nat
      BY <1>2, <2>1 DEF EndOf
    <3> HIDE DEF n
    <3> QED
      BY <1>2, <2>5, <3>1 DEF EndOf
  <2>8. EndOf(m.tail, m.seg) = heap_end
    <3>1. CASE n = last_header
      BY <1>2, <2>5, <2>7, <3>1
    <3>2. CASE n # last_header
      BY <1>2, <2>1, <2>5, <3>2 DEF EndOf
    <3> QED
      BY <3>1, <3>2
  <2>9. Highest(h) = n
    BY <1>4 DEF Highest
  <2>10. m.tail >= h
    BY <1>2, <2>5
  <2>11. \A a \in D : a # h => (m.seg[a].free <=> hdr[a].free)
    BY <2>5 DEF D
  <2>12. m.seg[h].free /\ m.seg[h].last = hdr[h].last
    BY <1>2, <2>5, <2>6
  <2>13. Forwarded(h, m)
    BY <2>5, <2>7, <2>8, <2>9, <2>10, <2>11, <2>12 DEF Forwarded, D
  <2> QED
    BY <2>13 DEF m, m0
<1> QED
  BY <1>3, <1>4

\* Then combine_backward.
LEMMA FreeBackward ==
  ASSUME HeapInv, intact, NEW h \in DOMAIN hdr, NEW m, Forwarded(h, m)
  PROVE  LET r == combine_backward(h, m)
         IN  /\ r.seg[Lowest(h)].free
             /\ EndOf(Lowest(h), r.seg) = EndOf(Highest(h), hdr)
             /\ EndOf(r.tail, r.seg) = heap_end
<1> DEFINE l == hdr[h].last
           r == combine_backward(h, m)
           D == DOMAIN hdr
<1>1. /\ m \in Memories(D) /\ m.end = "running" /\ DOMAIN m.seg = D
      /\ m.tail \in D /\ m.tail >= h /\ m.seg[h].free /\ m.seg[h].last = l
      /\ EndOf(h, m.seg) = EndOf(Highest(h), hdr) /\ EndOf(m.tail, m.seg) = heap_end
      /\ \A a \in D : /\ m.seg[a].next = hdr[a].next /\ m.seg[a].length \in Nat
                      /\ a # h => /\ m.seg[a].length = hdr[a].length
                                  /\ (m.seg[a].free <=> hdr[a].free)
  BY DEF Forwarded, Memories, HeapSegHeader
<1>2. /\ NULL \notin D /\ Header \in Nat \ {0}
      /\ \A a \in D : /\ a \in Nat /\ a <= last_header /\ hdr[a].length \in Nat
                      /\ (hdr[a].next = NULL <=> a = last_header)
      /\ \A a \in D \ {last_header} : hdr[a].next \in D /\ hdr[a].next = EndOf(a, hdr)
      /\ hdr[heap_start].last = NULL
      /\ \A a \in D \ {heap_start} : hdr[a].last \in D /\ EndOf(hdr[a].last, hdr) = a
  BY WhileIntact, HeapConstants DEF Tiles
<1> HIDE DEF D
<1>3. CASE l = NULL \/ ~hdr[l].free
  <2>1. l = NULL \/ (l \in D /\ l # h)
    <3>1. CASE h = heap_start
      BY <1>2, <3>1
    <3>2. CASE h # heap_start
      <4>1. l \in D /\ h = l + Header + hdr[l].length
        BY <1>2, <3>2 DEF EndOf, D
      <4> QED
        BY <1>2, <4>1
    <3> QED
      BY <3>1, <3>2
  <2>2. r = m
    BY <1>1, <1>3, <2>1 DEF combine_backward
  <2>3. Lowest(h) = h
    BY <1>3 DEF Lowest
  <2> QED
    BY <1>1, <2>2, <2>3
<1>4. CASE l # NULL /\ hdr[l].free
  <2>1. l \in D /\ EndOf(l, hdr) = h
    BY <1>2, <1>4 DEF D
  <2>2. h = l + Header + hdr[l].length /\ l < h /\ l # h /\ h \in D /\ h \in Nat /\ l \in Nat
    BY <1>2, <2>1 DEF EndOf, D
  <2>3. l # last_header /\ hdr[l].next = h
    BY <1>2, <2>1, <2>2
  <2>4. CanJoin(D, m, l)
    <3>1. m.seg[l].next = h /\ m.seg[h].next = hdr[h].next
      BY <1>1, <2>1, <2>2, <2>3
    <3>2. hdr[h].next = NULL \/ hdr[h].next \in D
      BY <1>2, <2>2
    <3> QED
      BY <1>1, <1>2, <2>1, <2>2, <3>1, <3>2 DEF CanJoin
  <2>5. r = combine_forward(l, m)
    BY <1>1, <1>4, <2>1, <2>2 DEF combine_backward
  <2> HIDE DEF r, l
  <2>6. Joins(D, m, l, r)
    BY <1>1, <2>4, <2>5, ForwardJoins
  <2>7. /\ r.tail = IF h = m.tail THEN l ELSE m.tail
        /\ r.seg[l].length = m.seg[l].length + m.seg[h].length + Header
        /\ (r.seg[l].free <=> m.seg[l].free)
        /\ \A a \in D : a # l => r.seg[a].length = m.seg[a].length
    BY <1>1, <2>1, <2>3, <2>6 DEF Joins
  <2>8. EndOf(l, r.seg) = EndOf(h, m.seg)
    <3>1. /\ r.seg[l].length = hdr[l].length + m.seg[h].length + Header
          /\ hdr[l].length \in Nat /\ m.seg[h].length \in Nat
      BY <1>1, <1>2, <2>1, <2>2, <2>7
    <3> QED
      BY <1>2, <2>2, <3>1 DEF EndOf
  <2>9. EndOf(r.tail, r.seg) = heap_end
    <3>1. CASE h = m.tail
      BY <1>1, <2>7, <2>8, <3>1
    <3>2. CASE h # m.tail
      <4>1. m.tail # l
        BY <1>1, <1>2, <2>2
      <4> QED
        BY <1>1, <2>7, <3>2, <4>1 DEF EndOf
    <3> QED
      BY <3>1, <3>2
  <2>10. Lowest(h) = l
    BY <1>4 DEF Lowest, l
  <2> QED
    BY <1>1, <1>4, <2>1, <2>2, <2>7, <2>8, <2>9, <2>10 DEF r
<1> QED
  BY <1>3, <1>4

\* The first merge joins exactly the free neighbours of the freed block: the segment
\* starts where the lowest of them starts and ends where the highest ends, and
\* last_header is still the segment at the end of the heap (heap.cpp:54-140).
THEOREM MergeIsExact == Spec => FreeCoalesces
<1> DEFINE Exact(b) ==
             LET h == b.addr - Header
             IN  /\ hdr'[Lowest(h)].free
                 /\ EndOf(Lowest(h), hdr') = EndOf(Highest(h), hdr)
                 /\ EndOf(last_header', hdr') = heap_end'
<1>1. ASSUME HeapInv, intact, status' = "running", NEW b \in live, b \notin live',
             [Next]_vars
      PROVE  Exact(b)
  <2>1. PICK block \in live : free(block)
    BY <1>1 DEF Next, vars, malloc, malloc_step, take_split, take_exact, scan_next, scan_lost,
                extend_heap, Stop, Halt, Return
  <2> DEFINE h     == block.addr - Header
             s     == [hdr EXCEPT ![h].free = TRUE]
             m     == combine_backward(h, combine_forward(h, Image(s, last_header, "running")))
  <2>2. ~Halt("lost") /\ b = block /\ hdr' = m.seg /\ last_header' = m.tail /\ heap_end' = heap_end
    BY <1>1, <2>1 DEF free, Halt, Complete
  <2>3. /\ h \in DOMAIN hdr /\ s \in [DOMAIN hdr -> HeapSegHeader] /\ s[h].free
        /\ \A a \in DOMAIN hdr :
             /\ s[a].length = hdr[a].length
             /\ s[a].next = hdr[a].next /\ s[a].last = hdr[a].last
             /\ a # h => s[a] = hdr[a]
    BY <1>1, BlockFacts
  <2>4. /\ m.seg[Lowest(h)].free
        /\ EndOf(Lowest(h), m.seg) = EndOf(Highest(h), hdr)
        /\ EndOf(m.tail, m.seg) = heap_end
    <3> HIDE DEF s, h
    <3>1. Forwarded(h, combine_forward(h, Image(s, last_header, "running")))
      BY <1>1, <2>3, FreeForward
    <3> QED
      BY <1>1, <2>3, <3>1, FreeBackward
  <2> HIDE DEF m
  <2> QED
    BY <2>2, <2>4
<1>2. ASSUME HeapInv, [Next]_vars
      PROVE  [ intact /\ status' = "running" => \A b \in live \ live' : Exact(b) ]_vars
  BY <1>1, <1>2
<1>3. HeapInv /\ [Next]_vars =>
        [ intact /\ status' = "running" =>
            \A b \in live \ live' :
              LET seg  == b.addr - Header
                  low  == IF hdr[seg].last # NULL /\ hdr[hdr[seg].last].free
                          THEN hdr[seg].last ELSE seg
                  high == IF hdr[seg].next # NULL /\ hdr[hdr[seg].next].free
                          THEN hdr[seg].next ELSE seg
              IN  /\ hdr'[low].free
                  /\ EndOf(low, hdr') = EndOf(high, hdr)
                  /\ EndOf(last_header', hdr') = heap_end' ]_vars
  BY <1>2 DEF Lowest, Highest
<1> QED
  BY <1>3, HeapInvariance, PTL DEF Spec, FreeCoalesces
===============================================================================
