---------------------------- MODULE EfiLibraryProofs ----------------------------
(***************************************************************************)
(* Proofs about parts of the library that run alone: its lists (EfiLists), *)
(* the two ways in which it fetches what only the firmware has, into       *)
(* buffers that grow (EfiBuffers) and as files (EfiSimpleRead), the        *)
(* printing of text (EfiPrint), the relocation of an image (Relocation),   *)
(* what is done over a console (EfiSession) and a resident driver          *)
(* (EfiDriver); for every entry, object, path, format, table and image,    *)
(* and whatever calls are refused.                                         *)
(***************************************************************************)
EXTENDS EfiLists, EfiBuffers, EfiSimpleRead, EfiPrint, Relocation, EfiSession, EfiDriver,
        SequenceTheorems, FiniteSetTheorems, WellFoundedInduction, TLAPS

-------------------------------------------------------------------------------
(***************************************************************************)
(* What a sequence without, and with, one element has at each place.       *)
(***************************************************************************)
LEMMA RemoveAtElements ==
  ASSUME NEW S, NEW r \in Seq(S), NEW k \in 1 .. Len(r)
  PROVE  /\ RemoveAt(r, k) \in Seq(S)
         /\ Len(RemoveAt(r, k)) = Len(r) - 1
         /\ \A j \in 1 .. Len(r) - 1 : RemoveAt(r, k)[j] = IF j < k THEN r[j] ELSE r[j + 1]
<1> DEFINE a == SubSeq(r, 1, k - 1)
           b == SubSeq(r, k + 1, Len(r))
<1>1. a \in Seq(S) /\ Len(a) = k - 1 /\ \A j \in 1 .. k - 1 : a[j] = r[j]
  OBVIOUS
<1>2. b \in Seq(S) /\ Len(b) = Len(r) - k /\ \A j \in 1 .. Len(r) - k : b[j] = r[j + k]
  OBVIOUS
<1> HIDE DEF a, b
<1>3. /\ a \o b \in Seq(S)
      /\ Len(a \o b) = Len(a) + Len(b)
      /\ \A i \in 1 .. Len(a) + Len(b) : (a \o b)[i] = IF i <= Len(a) THEN a[i] ELSE b[i - Len(a)]
  <2>1. a \in Seq(S) /\ b \in Seq(S)
    BY <1>1, <1>2
  <2> QED
    BY <2>1, ConcatProperties
<1>4. Len(r) \in Nat /\ Len(a) + Len(b) = Len(r) - 1
  BY <1>1, <1>2
<1> DEFINE c == a \o b
<1>5. c \in Seq(S) /\ Len(c) = Len(r) - 1
  BY <1>3, <1>4
<1>6. \A i \in 1 .. Len(r) - 1 : c[i] = IF i <= Len(a) THEN a[i] ELSE b[i - Len(a)]
  BY <1>3, <1>4
<1> HIDE DEF c
<1>7. ASSUME NEW j \in 1 .. Len(r) - 1
      PROVE  c[j] = IF j < k THEN r[j] ELSE r[j + 1]
  <2>1. CASE j < k
    BY <1>1, <1>4, <1>6, <2>1
  <2>2. CASE j >= k
    <3>1. c[j] = b[j - (k - 1)] /\ j - (k - 1) \in 1 .. Len(r) - k
      BY <1>1, <1>2, <1>4, <1>6, <2>2
    <3> QED
      BY <3>1, <1>2, <1>4, <2>2
  <2> QED
    BY <2>1, <2>2, <1>4
<1> QED
  BY <1>5, <1>7 DEF RemoveAt, a, b, c

LEMMA InsertAtElements ==
  ASSUME NEW S, NEW r \in Seq(S), NEW k \in 1 .. Len(r) + 1, NEW e \in S
  PROVE  /\ InsertAt(r, k, e) \in Seq(S)
         /\ Len(InsertAt(r, k, e)) = Len(r) + 1
         /\ \A j \in 1 .. Len(r) + 1 :
              InsertAt(r, k, e)[j] = IF j < k THEN r[j] ELSE IF j = k THEN e ELSE r[j - 1]
<1> DEFINE a == SubSeq(r, 1, k - 1)
           b == SubSeq(r, k, Len(r))
           c == a \o <<e>>
<1>1. a \in Seq(S) /\ Len(a) = k - 1 /\ \A j \in 1 .. k - 1 : a[j] = r[j]
  OBVIOUS
<1>2. b \in Seq(S) /\ Len(b) = Len(r) - k + 1 /\ \A j \in 1 .. Len(r) - k + 1 : b[j] = r[j + k - 1]
  OBVIOUS
<1> HIDE DEF a, b
<1>3. c \in Seq(S) /\ Len(c) = k /\ c[k] = e /\ \A j \in 1 .. k - 1 : c[j] = r[j]
  BY <1>1
<1> HIDE DEF c
<1>4. /\ c \o b \in Seq(S)
      /\ Len(c \o b) = Len(c) + Len(b)
      /\ \A i \in 1 .. Len(c) + Len(b) : (c \o b)[i] = IF i <= Len(c) THEN c[i] ELSE b[i - Len(c)]
  <2>1. c \in Seq(S) /\ b \in Seq(S)
    BY <1>2, <1>3
  <2> QED
    BY <2>1, ConcatProperties
<1>5. Len(r) \in Nat /\ Len(c) + Len(b) = Len(r) + 1
  BY <1>2, <1>3
<1> DEFINE d == c \o b
<1>6. d \in Seq(S) /\ Len(d) = Len(r) + 1
  BY <1>4, <1>5
<1>7. \A i \in 1 .. Len(r) + 1 : d[i] = IF i <= k THEN c[i] ELSE b[i - k]
  BY <1>3, <1>4, <1>5
<1> HIDE DEF d
<1>8. ASSUME NEW j \in 1 .. Len(r) + 1
      PROVE  d[j] = IF j < k THEN r[j] ELSE IF j = k THEN e ELSE r[j - 1]
  <2>1. CASE j <= k
    BY <1>3, <1>5, <1>7, <2>1
  <2>2. CASE j > k
    <3>1. d[j] = b[j - k] /\ j - k \in 1 .. Len(r) - k + 1
      BY <1>5, <1>7, <2>2
    <3> QED
      BY <3>1, <1>2, <1>5, <2>2
  <2> QED
    BY <2>1, <2>2, <1>5
<1> QED
  BY <1>6, <1>8 DEF InsertAt, a, b, c, d

\* Appending is inserting behind the last.
LEMMA AppendIsInsert ==
  ASSUME NEW S, NEW r \in Seq(S), NEW e \in S
  PROVE  Append(r, e) = InsertAt(r, Len(r) + 1, e)
<1> DEFINE k == Len(r) + 1
           t == InsertAt(r, k, e)
<1>1. Len(r) \in Nat /\ k \in 1 .. Len(r) + 1 /\ k = Len(r) + 1
  OBVIOUS
<1> HIDE DEF k
<1>2. /\ t \in Seq(S) /\ Len(t) = Len(r) + 1
      /\ \A j \in 1 .. Len(r) + 1 : t[j] = IF j < k THEN r[j] ELSE IF j = k THEN e ELSE r[j - 1]
  <2>1. /\ InsertAt(r, k, e) \in Seq(S) /\ Len(InsertAt(r, k, e)) = Len(r) + 1
        /\ \A j \in 1 .. Len(r) + 1 :
             InsertAt(r, k, e)[j] = IF j < k THEN r[j] ELSE IF j = k THEN e ELSE r[j - 1]
    <3>1. k \in 1 .. Len(r) + 1
      BY <1>1
    <3> QED
      BY <3>1, InsertAtElements
  <2> QED
    BY <2>1, Zenon
<1> HIDE DEF t
<1>3. \A j \in 1 .. Len(r) + 1 : t[j] = Append(r, e)[j]
  BY <1>1, <1>2
<1>4. Append(r, e) \in Seq(S) /\ Len(Append(r, e)) = Len(r) + 1
  OBVIOUS
<1> QED
  BY <1>2, <1>3, <1>4, SeqEqual DEF t, k

-------------------------------------------------------------------------------
(***************************************************************************)
(* The inductive invariant, of a ring and the links: no node twice, the    *)
(* head first, and every node's links lead to its neighbours on the ring.  *)
(***************************************************************************)
Successor(r, n) == IF n = Len(r) THEN 1 ELSE n + 1
IsRing(r) ==
  /\ r \in Seq(ListNodes)
  /\ \A n, m \in DOMAIN r : r[n] = r[m] => n = m
  /\ r # << >> => r[1] = ListHead
LinkedAs(r, F, B) ==
  \A n \in DOMAIN r : F[r[n]] = r[Successor(r, n)] /\ B[r[Successor(r, n)]] = r[n]
\* The node at a place, and behind the last place the first again.
NodeAt(r, k) == IF k = Len(r) + 1 THEN r[1] ELSE r[k]
LinksType(F) == F \in [ListNodes -> ListNodes \union {BAD_POINTER}]

Ringed(r, F, B) == IsRing(r) /\ LinksType(F) /\ LinksType(B) /\ LinkedAs(r, F, B)

ListsInv == Ringed(ring, Flink, Blink)

\* A node's predecessor by its place, which the backward link is.
LEMMA Neighbours ==
  ASSUME NEW r, IsRing(r), NEW F, NEW B, LinkedAs(r, F, B), NEW n \in DOMAIN r
  PROVE  /\ F[r[n]] = IF n = Len(r) THEN r[1] ELSE r[n + 1]
         /\ B[r[n]] = IF n = 1 THEN r[Len(r)] ELSE r[n - 1]
<1>1. Len(r) \in Nat /\ DOMAIN r = 1 .. Len(r)
  BY DEF IsRing
<1>2. F[r[n]] = r[Successor(r, n)]
  BY DEF LinkedAs
<1>3. CASE n = 1
  <2>1. Len(r) \in DOMAIN r /\ Successor(r, Len(r)) = 1
    BY <1>1, <1>3 DEF Successor
  <2> QED
    BY <1>1, <1>2, <1>3, <2>1 DEF LinkedAs, Successor
<1>4. CASE n # 1
  <2>1. n - 1 \in DOMAIN r /\ Successor(r, n - 1) = n
    BY <1>1, <1>4 DEF Successor
  <2> QED
    BY <1>1, <1>2, <1>4, <2>1 DEF LinkedAs, Successor
<1> QED
  BY <1>3, <1>4

\* A node put between two neighbours, and the two links that led past it bent to it.
LEMMA InsertKeepsRing ==
  ASSUME NEW r, NEW F, NEW B, Ringed(r, F, B), r # << >>,
         NEW e \in ListNodes, \A n \in DOMAIN r : r[n] # e,
         NEW k \in 2 .. Len(r) + 1,
         NEW F2, F2 = [F EXCEPT ![e] = NodeAt(r, k), ![r[k - 1]] = e],
         NEW B2, B2 = [B EXCEPT ![e] = r[k - 1], ![NodeAt(r, k)] = e]
  PROVE  Ringed(InsertAt(r, k, e), F2, B2)
<1> DEFINE s == InsertAt(r, k, e)
           prev == r[k - 1]
           next == NodeAt(r, k)
<1>1. /\ Len(r) \in Nat \ {0} /\ DOMAIN r = 1 .. Len(r) /\ r \in Seq(ListNodes)
      /\ \A n \in 1 .. Len(r) : r[n] \in ListNodes /\ r[n] # e
      /\ \A n, m \in 1 .. Len(r) : r[n] = r[m] => n = m
      /\ r[1] = ListHead
  BY DEF Ringed, IsRing
<1>2. k - 1 \in 1 .. Len(r) /\ k \in 1 .. Len(r) + 1
  BY <1>1
<1>3. s \in Seq(ListNodes) /\ Len(s) = Len(r) + 1
      /\ \A j \in 1 .. Len(r) + 1 : s[j] = IF j < k THEN r[j] ELSE IF j = k THEN e ELSE r[j - 1]
  <2>1. r \in Seq(ListNodes) /\ k \in 1 .. Len(r) + 1 /\ e \in ListNodes
    BY <1>1, <1>2
  <2> QED
    BY <2>1, InsertAtElements, SMTT(60)
<1>4. DOMAIN s = 1 .. Len(r) + 1
  BY <1>1, <1>3
<1> HIDE DEF s
<1>5. prev \in ListNodes /\ next \in ListNodes /\ prev # e /\ next # e
  BY <1>1, <1>2 DEF NodeAt
<1> HIDE DEF prev, next
<1>6. LinksType(F2) /\ LinksType(B2)
  BY <1>5 DEF Ringed, LinksType, prev, next
<1>7. /\ F2[e] = next /\ F2[prev] = e /\ B2[e] = prev /\ B2[next] = e
      /\ \A x \in ListNodes \ {e, prev} : F2[x] = F[x]
      /\ \A x \in ListNodes \ {e, next} : B2[x] = B[x]
  BY <1>5 DEF Ringed, LinksType, prev, next
<1>8. IsRing(s)
  <2>1. ASSUME NEW n \in 1 .. Len(r) + 1, NEW m \in 1 .. Len(r) + 1, s[n] = s[m]
        PROVE  n = m
    <3>1. CASE n = k
      BY <1>1, <1>3, <2>1, <3>1
    <3>2. CASE m = k
      BY <1>1, <1>3, <2>1, <3>2
    <3>3. CASE n # k /\ m # k
      <4> DEFINE p == IF n < k THEN n ELSE n - 1
                 q == IF m < k THEN m ELSE m - 1
      <4>1. p \in 1 .. Len(r) /\ q \in 1 .. Len(r) /\ s[n] = r[p] /\ s[m] = r[q]
        BY <1>1, <1>2, <1>3, <3>3
      <4>2. p = q
        BY <1>1, <2>1, <4>1
      <4> QED
        BY <1>1, <1>2, <3>3, <4>2
    <3> QED
      BY <3>1, <3>2, <3>3
  <2>2. s[1] = ListHead
    BY <1>1, <1>3
  <2> QED
    BY <1>3, <1>4, <2>1, <2>2 DEF IsRing
<1>9. ASSUME NEW n \in 1 .. Len(r) + 1
      PROVE  F2[s[n]] = s[Successor(s, n)] /\ B2[s[Successor(s, n)]] = s[n]
  <2>1. CASE n = k
    <3>1. s[n] = e /\ s[Successor(s, n)] = next
      BY <1>1, <1>3, <2>1 DEF Successor, next, NodeAt
    <3> QED
      BY <1>7, <3>1
  <2>2. CASE n = k - 1
    <3>1. s[n] = prev /\ s[Successor(s, n)] = e
      BY <1>1, <1>2, <1>3, <2>2 DEF Successor, prev
    <3> QED
      BY <1>7, <3>1
  <2>3. CASE n < k - 1
    <3>1. n \in 1 .. Len(r) /\ n + 1 \in 1 .. Len(r) /\ s[n] = r[n] /\ s[Successor(s, n)] = r[n + 1]
      BY <1>1, <1>3, <2>3 DEF Successor
    <3>2. F[r[n]] = r[n + 1] /\ B[r[n + 1]] = r[n]
      BY <1>1, <3>1 DEF Ringed, LinkedAs, Successor
    <3>3. r[n] # prev
      BY <1>1, <1>2, <2>3, <3>1 DEF prev
    <3>a. n + 1 # 1 /\ n + 1 # k /\ n + 1 \in 1 .. Len(r) /\ (k = Len(r) + 1 \/ k \in 1 .. Len(r))
      <4>1. Len(r) \in Nat /\ k \in 1 .. Len(r) + 1 /\ n \in 1 .. Len(r) /\ n + 1 \in 1 .. Len(r)
        BY <1>1, <3>1
      <4> QED
        BY <2>3, <4>1
    <3>b. r[n + 1] # next
      BY <1>1, <3>a DEF next, NodeAt
    <3>4. r[n] \in ListNodes \ {e, prev} /\ r[n + 1] \in ListNodes \ {e, next}
      BY <1>1, <3>1, <3>3, <3>b
    <3>5. F2[r[n]] = F[r[n]] /\ B2[r[n + 1]] = B[r[n + 1]]
      BY <1>7, <3>4
    <3> QED
      BY <3>1, <3>2, <3>5
  <2>4. CASE n > k
    <3> DEFINE p == n - 1
               q == Successor(r, p)
    <3>1. p \in 1 .. Len(r) /\ q \in 1 .. Len(r) /\ s[n] = r[p] /\ s[Successor(s, n)] = r[q]
      <4> DEFINE l == Len(r)
      <4>0. l \in Nat \ {0} /\ k \in 2 .. l + 1 /\ n \in 1 .. l + 1 /\ n > k /\ Len(s) = l + 1
        BY <1>1, <1>3, <2>4
      <4>a. s[n] = r[p]
        BY <1>3, <4>0
      <4>b. q = IF p = l THEN 1 ELSE p + 1
        BY DEF Successor
      <4>c. Successor(s, n) = IF n = l + 1 THEN 1 ELSE n + 1
        BY <4>0 DEF Successor
      <4> HIDE DEF l
      <4>1. p \in 1 .. l /\ q \in 1 .. l
        BY <4>0, <4>b
      <4>2. CASE n = Len(r) + 1
        BY <1>1, <1>3, <4>0, <4>a, <4>b, <4>c, <4>1, <4>2 DEF l
      <4>3. CASE n # Len(r) + 1
        <5>a. n # l + 1 /\ n \in Nat /\ k \in Nat /\ n < l + 1
          BY <4>0, <4>3 DEF l
        <5>b. Successor(s, n) = n + 1
          BY <4>c, <5>a
        <5>c. n + 1 \in 1 .. l + 1 /\ n + 1 > k
          BY <4>0, <5>a
        <5>d. p # l /\ p + 1 = n
          BY <4>0, <5>a
        <5>e. q = n
          BY <4>b, <5>d
        <5>1. /\ Successor(s, n) = n + 1 /\ n + 1 \in 1 .. Len(r) + 1
              /\ n + 1 > k /\ q = n
          BY <5>b, <5>c, <5>e DEF l
        <5>2. s[n + 1] = r[(n + 1) - 1]
          BY <1>3, <4>0, <5>1 DEF l
        <5> QED
          BY <4>0, <4>a, <4>1, <5>1, <5>2 DEF l
      <4> QED
        BY <4>2, <4>3
    <3>2. F[r[p]] = r[q] /\ B[r[q]] = r[p]
      BY <1>1, <3>1 DEF Ringed, LinkedAs
    <3>3. r[p] # prev
      BY <1>1, <1>2, <2>4, <3>1 DEF prev
    <3>4. r[q] # next
      BY <1>1, <2>4, <3>1 DEF Successor, next, NodeAt
    <3>5. r[p] \in ListNodes \ {e, prev} /\ r[q] \in ListNodes \ {e, next}
      BY <1>1, <3>1, <3>3, <3>4
    <3>6. F2[r[p]] = F[r[p]] /\ B2[r[q]] = B[r[q]]
      BY <1>7, <3>5
    <3> QED
      BY <3>1, <3>2, <3>6
  <2> QED
    BY <2>1, <2>2, <2>3, <2>4, <1>2
<1> QED
  BY <1>4, <1>6, <1>8, <1>9 DEF Ringed, LinkedAs, s

\* A node taken out of the ring by linking its neighbours, whatever becomes of its own
\* links.
LEMMA RemoveKeepsRing ==
  ASSUME NEW r, NEW F, NEW B, Ringed(r, F, B),
         NEW k \in 2 .. Len(r),
         NEW e, e = r[k],
         NEW F2, LinksType(F2), \A x \in ListNodes \ {e} : F2[x] = [F EXCEPT ![B[e]] = F[e]][x],
         NEW B2, LinksType(B2), \A x \in ListNodes \ {e} : B2[x] = [B EXCEPT ![F[e]] = B[e]][x]
  PROVE  Ringed(RemoveAt(r, k), F2, B2)
<1> DEFINE s == RemoveAt(r, k)
           l == Len(r)
           prev == r[k - 1]
           next == IF k = l THEN r[1] ELSE r[k + 1]
<1>1. /\ l \in Nat /\ l >= 2 /\ DOMAIN r = 1 .. l /\ r \in Seq(ListNodes)
      /\ \A n \in 1 .. l : r[n] \in ListNodes
      /\ \A n, m \in 1 .. l : r[n] = r[m] => n = m
      /\ r[1] = ListHead
  BY DEF Ringed, IsRing
<1>2. k \in 1 .. l /\ k - 1 \in 1 .. l
  BY <1>1
<1>3. s \in Seq(ListNodes) /\ Len(s) = l - 1
      /\ \A j \in 1 .. l - 1 : s[j] = IF j < k THEN r[j] ELSE r[j + 1]
  <2>1. r \in Seq(ListNodes) /\ k \in 1 .. Len(r)
    BY <1>1, <1>2
  <2> QED
    BY <2>1, RemoveAtElements, Zenon
<1>4. DOMAIN s = 1 .. l - 1
  BY <1>1, <1>3
<1>5. F[e] = next /\ B[e] = prev
  <2>1. k \in DOMAIN r
    BY <1>1, <1>2
  <2> QED
    BY <2>1, <1>2, Neighbours DEF Ringed
<1>6. prev \in ListNodes \ {e} /\ next \in ListNodes \ {e}
  BY <1>1, <1>2
<1> HIDE DEF s, l
<1>7. /\ F2[prev] = next /\ B2[next] = prev
      /\ \A x \in ListNodes \ {e, prev} : F2[x] = F[x]
      /\ \A x \in ListNodes \ {e, next} : B2[x] = B[x]
  BY <1>5, <1>6 DEF Ringed, LinksType
<1>8. IsRing(s)
  <2>1. ASSUME NEW n \in 1 .. l - 1, NEW m \in 1 .. l - 1, s[n] = s[m]
        PROVE  n = m
    <3> DEFINE p == IF n < k THEN n ELSE n + 1
               q == IF m < k THEN m ELSE m + 1
    <3>1. p \in 1 .. l /\ q \in 1 .. l /\ s[n] = r[p] /\ s[m] = r[q]
      BY <1>1, <1>2, <1>3
    <3>2. p = q
      BY <1>1, <2>1, <3>1
    <3> QED
      BY <1>1, <1>2, <3>2
  <2>2. s[1] = ListHead
    BY <1>1, <1>2, <1>3
  <2> QED
    BY <1>3, <1>4, <2>1, <2>2 DEF IsRing
<1> HIDE DEF prev, next
<1>9. ASSUME NEW n \in 1 .. l - 1
      PROVE  F2[s[n]] = s[Successor(s, n)] /\ B2[s[Successor(s, n)]] = s[n]
  <2>0. Successor(s, n) = IF n = l - 1 THEN 1 ELSE n + 1
    BY <1>3 DEF Successor
  <2>1. CASE n = k - 1
    <3>1. s[n] = prev
      BY <1>1, <1>3, <2>1 DEF prev
    <3>2. s[Successor(s, n)] = next
      <4>1. CASE k = l
        BY <1>1, <1>3, <2>0, <2>1, <4>1 DEF next
      <4>2. CASE k # l
        <5>1. k \in 1 .. l - 1 /\ Successor(s, n) = k
          BY <1>1, <1>2, <2>0, <2>1, <4>2
        <5> QED
          BY <1>1, <1>3, <4>2, <5>1 DEF next
      <4> QED
        BY <4>1, <4>2
    <3> QED
      BY <1>7, <3>1, <3>2
  <2>2. CASE n # k - 1
    <3> DEFINE p == IF n < k THEN n ELSE n + 1
               q == IF p = l THEN 1 ELSE p + 1
    <3>1. p \in 1 .. l /\ q \in 1 .. l /\ p # k /\ q # k /\ p # k - 1
      BY <1>1, <1>2, <2>2
    <3>2. s[n] = r[p]
      BY <1>3
    <3>3. s[Successor(s, n)] = r[q]
      <4>1. CASE n = l - 1
        <5>1. q = 1 /\ Successor(s, n) = 1 /\ 1 \in 1 .. l - 1 /\ 1 < k
          BY <1>1, <1>2, <2>0, <2>2, <4>1
        <5> QED
          BY <1>3, <5>1
      <4>2. CASE n # l - 1
        <5>1. n + 1 \in 1 .. l - 1 /\ Successor(s, n) = n + 1
          BY <1>1, <2>0, <4>2
        <5>2. s[n + 1] = IF n + 1 < k THEN r[n + 1] ELSE r[(n + 1) + 1]
          BY <1>3, <5>1
        <5>3. q = IF n + 1 < k THEN n + 1 ELSE (n + 1) + 1
          BY <1>1, <1>2, <2>2, <5>1
        <5> HIDE DEF q
        <5> QED
          BY <5>1, <5>2, <5>3
      <4> QED
        BY <4>1, <4>2
    <3>4. F[r[p]] = r[q] /\ B[r[q]] = r[p]
      BY <1>1, <3>1 DEF Ringed, LinkedAs, Successor, l
    <3>5. r[p] \in ListNodes \ {e, prev}
      BY <1>1, <1>2, <3>1 DEF prev
    <3>6. r[q] \in ListNodes \ {e, next}
      <4>1. r[q] # e
        BY <1>1, <1>2, <3>1
      <4>2. q # (IF k = l THEN 1 ELSE k + 1)
        BY <1>1, <1>2, <3>1
      <4>3. r[q] # next
        BY <1>1, <1>2, <3>1, <4>2 DEF next
      <4> QED
        BY <1>1, <3>1, <4>1, <4>3
    <3>7. F2[r[p]] = F[r[p]] /\ B2[r[q]] = B[r[q]]
      BY <1>7, <3>5, <3>6
    <3> HIDE DEF p, q
    <3> QED
      BY <3>2, <3>3, <3>4, <3>7
  <2> QED
    BY <2>1, <2>2
<1> QED
  BY <1>4, <1>8, <1>9 DEF Ringed, LinkedAs, s

\* What was removed is nowhere in the ring.
LEMMA RemovedIsLoose ==
  ASSUME NEW r, IsRing(r), NEW k \in 2 .. Len(r), NEW j \in DOMAIN RemoveAt(r, k)
  PROVE  RemoveAt(r, k)[j] # r[k]
<1>1. /\ Len(r) \in Nat /\ DOMAIN r = 1 .. Len(r) /\ r \in Seq(ListNodes) /\ k \in 1 .. Len(r)
      /\ \A n, m \in 1 .. Len(r) : r[n] = r[m] => n = m
  BY DEF IsRing
<1>2. /\ RemoveAt(r, k) \in Seq(ListNodes) /\ Len(RemoveAt(r, k)) = Len(r) - 1
      /\ \A i \in 1 .. Len(r) - 1 : RemoveAt(r, k)[i] = IF i < k THEN r[i] ELSE r[i + 1]
  <2>1. r \in Seq(ListNodes) /\ k \in 1 .. Len(r)
    BY <1>1
  <2> QED
    BY <2>1, RemoveAtElements, Zenon
<1>3. j \in 1 .. Len(r) - 1
  BY <1>1, <1>2
<1> QED
  BY <1>1, <1>2, <1>3

-------------------------------------------------------------------------------
LEMMA ListsInvInit ==
  ListsInit => ListsInv
BY DEF ListsInit, ListsInv, Ringed, LinksType, IsRing, LinkedAs

LEMMA InitializeKeepsInv ==
  ASSUME ListsInv, InitializeListHead
  PROVE  ListsInv'
<1>1. LinksType(Flink') /\ LinksType(Blink')
  BY DEF ListsInv, Ringed, InitializeListHead, LinksType, ListNodes
<1>2. ring' = <<ListHead>> /\ Flink'[ListHead] = ListHead /\ Blink'[ListHead] = ListHead
  BY DEF ListsInv, Ringed, InitializeListHead, LinksType, ListNodes
<1>3. ring' \in Seq(ListNodes) /\ DOMAIN ring' = {1} /\ Len(ring') = 1 /\ ring'[1] = ListHead
  BY <1>2 DEF ListNodes
<1>4. IsRing(ring')
  BY <1>3 DEF IsRing
<1>5. LinkedAs(ring', Flink', Blink')
  BY <1>2, <1>3 DEF LinkedAs, Successor
<1> QED
  BY <1>1, <1>4, <1>5 DEF ListsInv, Ringed

LEMMA RemoveKeepsInv ==
  ASSUME ListsInv, NEW entry \in ListEntries, RemoveEntryList(entry)
  PROVE  ListsInv'
<1>1. PICK k \in DOMAIN ring : Place(entry, k) /\ ring' = RemoveAt(ring, k)
  BY DEF RemoveEntryList
<1>2. k \in 2 .. Len(ring) /\ ring[k] = entry /\ entry \in ListNodes
  BY <1>1 DEF Place, ListNodes
<1> DEFINE flink == [Flink EXCEPT ![Blink[entry]] = Flink[entry]]
           blink == [Blink EXCEPT ![Flink[entry]] = Blink[entry]]
<1>3. LinksType(flink) /\ LinksType(blink)
  BY <1>2 DEF ListsInv, Ringed, LinksType
<1>4. /\ Flink' = IF EFI_DEBUG THEN [flink EXCEPT ![entry] = BAD_POINTER] ELSE flink
      /\ Blink' = IF EFI_DEBUG THEN [blink EXCEPT ![entry] = BAD_POINTER] ELSE blink
  BY DEF RemoveEntryList
<1> HIDE DEF flink, blink
<1>5. LinksType(Flink') /\ LinksType(Blink')
  BY <1>3, <1>4 DEF LinksType
<1>6. \A x \in ListNodes \ {entry} : Flink'[x] = flink[x] /\ Blink'[x] = blink[x]
  BY <1>3, <1>4 DEF LinksType
<1>7. Ringed(RemoveAt(ring, k), Flink', Blink')
  BY <1>2, <1>5, <1>6, RemoveKeepsRing DEF flink, blink, ListsInv
<1> QED
  BY <1>1, <1>7 DEF ListsInv

LEMMA InsertTailKeepsInv ==
  ASSUME ListsInv, NEW entry \in ListEntries, InsertTailList(entry)
  PROVE  ListsInv'
<1>1. /\ ring # << >> /\ \A n \in DOMAIN ring : ring[n] # entry
      /\ ring' = Append(ring, entry)
      /\ Flink' = [Flink EXCEPT ![entry] = ListHead, ![Blink[ListHead]] = entry]
      /\ Blink' = [Blink EXCEPT ![entry] = Blink[ListHead], ![ListHead] = entry]
  BY DEF InsertTailList, Loose
<1>2. /\ ring \in Seq(ListNodes) /\ Len(ring) \in Nat \ {0} /\ DOMAIN ring = 1 .. Len(ring)
      /\ ring[1] = ListHead /\ entry \in ListNodes
  BY <1>1 DEF ListsInv, Ringed, IsRing, ListNodes
<1>3. Blink[ListHead] = ring[Len(ring)]
  <2>1. 1 \in DOMAIN ring
    BY <1>2
  <2> QED
    BY <1>2, <2>1, Neighbours DEF ListsInv, Ringed
<1> DEFINE k == Len(ring) + 1
<1>4. k \in 2 .. Len(ring) + 1 /\ ring[k - 1] = Blink[ListHead]
      /\ ListHead = NodeAt(ring, k)
  BY <1>2, <1>3 DEF NodeAt
<1>5. ring' = InsertAt(ring, k, entry)
  BY <1>1, <1>2, AppendIsInsert
<1> HIDE DEF k
<1>6. /\ Ringed(ring, Flink, Blink) /\ ring # << >> /\ entry \in ListNodes
      /\ \A n \in DOMAIN ring : ring[n] # entry
      /\ k \in 2 .. Len(ring) + 1
      /\ Flink' = [Flink EXCEPT ![entry] = NodeAt(ring, k), ![ring[k - 1]] = entry]
      /\ Blink' = [Blink EXCEPT ![entry] = ring[k - 1], ![NodeAt(ring, k)] = entry]
  BY <1>1, <1>2, <1>4 DEF ListsInv
<1>7. Ringed(InsertAt(ring, k, entry), Flink', Blink')
  BY <1>6, InsertKeepsRing, Zenon
<1> QED
  BY <1>5, <1>7 DEF ListsInv

LEMMA InsertHeadKeepsInv ==
  ASSUME ListsInv, NEW entry \in ListEntries, InsertHeadList(entry)
  PROVE  ListsInv'
<1>1. /\ ring # << >> /\ \A n \in DOMAIN ring : ring[n] # entry
      /\ ring' = InsertAt(ring, 2, entry)
      /\ Flink' = [Flink EXCEPT ![entry] = Flink[ListHead], ![ListHead] = entry]
      /\ Blink' = [Blink EXCEPT ![entry] = ListHead, ![Flink[ListHead]] = entry]
  BY DEF InsertHeadList, Loose
<1>2. /\ ring \in Seq(ListNodes) /\ Len(ring) \in Nat \ {0} /\ DOMAIN ring = 1 .. Len(ring)
      /\ ring[1] = ListHead /\ entry \in ListNodes
  BY <1>1 DEF ListsInv, Ringed, IsRing, ListNodes
<1>3. Flink[ListHead] = IF 1 = Len(ring) THEN ring[1] ELSE ring[1 + 1]
  <2>1. 1 \in DOMAIN ring
    BY <1>2
  <2> QED
    BY <1>2, <2>1, Neighbours DEF ListsInv, Ringed
<1>4. 2 \in 2 .. Len(ring) + 1 /\ ListHead = ring[2 - 1]
      /\ Flink[ListHead] = NodeAt(ring, 2)
  BY <1>2, <1>3 DEF NodeAt
<1>5. /\ Ringed(ring, Flink, Blink) /\ ring # << >> /\ entry \in ListNodes
      /\ \A n \in DOMAIN ring : ring[n] # entry
      /\ 2 \in 2 .. Len(ring) + 1
      /\ Flink' = [Flink EXCEPT ![entry] = NodeAt(ring, 2), ![ring[2 - 1]] = entry]
      /\ Blink' = [Blink EXCEPT ![entry] = ring[2 - 1], ![NodeAt(ring, 2)] = entry]
  BY <1>1, <1>2, <1>4 DEF ListsInv
<1>6. Ringed(InsertAt(ring, 2, entry), Flink', Blink')
  BY <1>5, InsertKeepsRing, Zenon
<1> QED
  BY <1>1, <1>6 DEF ListsInv

\* The second entry is taken out and put before the first: none of the links that are
\* read before the first is written has changed when it is used.
LEMMA SwapKeepsInv ==
  ASSUME ListsInv, NEW entry1 \in ListEntries, NEW entry2 \in ListEntries,
         SwapListEntries(entry1, entry2)
  PROVE  ListsInv'
<1>1. PICK n \in DOMAIN ring, m \in DOMAIN ring :
        /\ Place(entry1, n) /\ Place(entry2, m) /\ m \notin {n - 1, n}
        /\ ring' = InsertAt(RemoveAt(ring, m), IF m < n THEN n - 1 ELSE n, entry2)
  BY DEF SwapListEntries
<1> DEFINE k == IF m < n THEN n - 1 ELSE n
           r == RemoveAt(ring, m)
           F == [Flink EXCEPT ![Blink[entry2]] = Flink[entry2]]
           B == [Blink EXCEPT ![Flink[entry2]] = Blink[entry2]]
<1>2. /\ n \in 2 .. Len(ring) /\ m \in 2 .. Len(ring) /\ m # n /\ m # n - 1
      /\ ring[n] = entry1 /\ ring[m] = entry2 /\ entry1 \in ListNodes /\ entry2 \in ListNodes
      /\ ring \in Seq(ListNodes) /\ Len(ring) \in Nat
  BY <1>1 DEF Place, ListNodes, ListsInv, Ringed, IsRing
<1>3. Blink[entry1] = ring[n - 1]
  <2>1. n \in DOMAIN ring /\ n # 1
    BY <1>2
  <2> QED
    BY <1>2, <2>1, Neighbours DEF ListsInv, Ringed
<1>4. LinksType(F) /\ LinksType(B)
  BY <1>2 DEF ListsInv, Ringed, LinksType
<1>5. Ringed(r, F, B)
  <2>1. \A x \in ListNodes \ {entry2} :
          /\ F[x] = [Flink EXCEPT ![Blink[entry2]] = Flink[entry2]][x]
          /\ B[x] = [Blink EXCEPT ![Flink[entry2]] = Blink[entry2]][x]
    OBVIOUS
  <2> HIDE DEF F, B
  <2> QED
    BY <1>2, <1>4, <2>1, RemoveKeepsRing DEF ListsInv, Ringed
<1>6. \A j \in DOMAIN r : r[j] # entry2
  BY <1>2, RemovedIsLoose DEF ListsInv, Ringed
<1>7. /\ r \in Seq(ListNodes) /\ Len(r) = Len(ring) - 1
      /\ \A j \in 1 .. Len(ring) - 1 : r[j] = IF j < m THEN ring[j] ELSE ring[j + 1]
  <2>1. ring \in Seq(ListNodes) /\ m \in 1 .. Len(ring)
    BY <1>2
  <2> QED
    BY <2>1, RemoveAtElements, Zenon
<1>8. /\ Flink' = [F EXCEPT ![entry2] = entry1, ![Blink[entry1]] = entry2]
      /\ Blink' = [B EXCEPT ![entry2] = Blink[entry1], ![entry1] = entry2]
  BY DEF SwapListEntries
<1> HIDE DEF r, F, B
<1>9. k \in 2 .. Len(r) + 1 /\ r # << >> /\ r[k - 1] = ring[n - 1] /\ k # Len(r) + 1 /\ r[k] = entry1
  BY <1>2, <1>7
<1>10. Blink[entry1] = r[k - 1] /\ entry1 = NodeAt(r, k)
  BY <1>3, <1>9 DEF NodeAt
<1> HIDE DEF k
<1>11. /\ Ringed(r, F, B) /\ r # << >> /\ entry2 \in ListNodes
       /\ \A j \in DOMAIN r : r[j] # entry2
       /\ k \in 2 .. Len(r) + 1
       /\ Flink' = [F EXCEPT ![entry2] = NodeAt(r, k), ![r[k - 1]] = entry2]
       /\ Blink' = [B EXCEPT ![entry2] = r[k - 1], ![NodeAt(r, k)] = entry2]
  BY <1>2, <1>5, <1>6, <1>8, <1>9, <1>10
<1>12. Ringed(InsertAt(r, k, entry2), Flink', Blink')
  BY <1>11, InsertKeepsRing, Zenon
<1> QED
  BY <1>1, <1>12 DEF ListsInv, r, k

-------------------------------------------------------------------------------
\* The links lead along the ring, for any number of entries and any calls.
THEOREM ListsStayLinked == ListsSpec => []ListIsLinked
<1>1. ListsInit => ListsInv
  BY ListsInvInit
<1>2. ListsInv /\ [ListsNext]_list_vars => ListsInv'
  <2> SUFFICES ASSUME ListsInv, [ListsNext]_list_vars PROVE ListsInv'
    OBVIOUS
  <2>1. CASE InitializeListHead
    BY <2>1, InitializeKeepsInv
  <2>2. CASE \E entry \in ListEntries :
               RemoveEntryList(entry) \/ InsertTailList(entry) \/ InsertHeadList(entry)
    BY <2>2, RemoveKeepsInv, InsertTailKeepsInv, InsertHeadKeepsInv
  <2>3. CASE \E entry1, entry2 \in ListEntries : SwapListEntries(entry1, entry2)
    BY <2>3, SwapKeepsInv
  <2>4. CASE UNCHANGED list_vars
    BY <2>4 DEF ListsInv, Ringed, list_vars
  <2> QED
    BY <2>1, <2>2, <2>3, <2>4 DEF ListsNext
<1>3. ListsInv => ListIsLinked
  <2> SUFFICES ASSUME ListsInv PROVE ListIsLinked
    OBVIOUS
  <2>1. \A n \in DOMAIN ring :
          Flink[ring[n]] = ring[Following(n)] /\ Blink[ring[Following(n)]] = ring[n]
    BY DEF ListsInv, Ringed, LinkedAs, Successor, Following
  <2>2. ASSUME ring # << >> PROVE IsListEmpty <=> Len(ring) = 1
    <3>1. /\ ring \in Seq(ListNodes) /\ Len(ring) \in Nat \ {0} /\ DOMAIN ring = 1 .. Len(ring)
          /\ ring[1] = ListHead /\ \A n, m \in DOMAIN ring : ring[n] = ring[m] => n = m
      BY <2>2 DEF ListsInv, Ringed, IsRing
    <3>2. Flink[ListHead] = ring[Following(1)] /\ Following(1) \in DOMAIN ring
      BY <2>1, <3>1 DEF Following
    <3> QED
      BY <3>1, <3>2 DEF IsListEmpty, Following
  <2> QED
    BY <2>1, <2>2 DEF ListIsLinked
<1> QED
  BY <1>1, <1>2, <1>3, PTL DEF ListsSpec

-------------------------------------------------------------------------------
(***************************************************************************)
(* Buffers that grow: the inductive invariant.                             *)
(***************************************************************************)
Contents == Seq(Elements) \union {NoObject}

Count(b) == IF b = NoObject THEN 0 ELSE 1

BuffersType ==
  /\ request \in Requests
  /\ bpc \in {"grow", "fetch", "fetched", "insert", "returned"}
  /\ object \in Contents \ {<< >>} /\ own \in Contents \ {<< >>}
  /\ Buffer \in Contents /\ NewBuffer \in Contents \ {<< >>}
  /\ live = Count(Buffer) + Count(NewBuffer)
  /\ NewBuffer # NoObject <=> bpc = "insert"
  /\ pool_refusals \in Nat /\ changes \in Nat

\* A buffer that the firmware has filled holds what the object was.
Whole(b) == b # NoObject => b \in values /\ Len(b) = BufferSize

FetchInv ==
  /\ object \in values
  /\ bpc = "grow" =>
       /\ Status \in {"success", "too_small", "not_found"}
       /\ Status = "success" => Whole(Buffer) /\ (Buffer = NoObject => BufferSize > 0)
  /\ bpc = "fetch" => Buffer = << >>
  /\ bpc = "fetched" \/ (bpc = "returned" /\ request \in Fetches) =>
       /\ Buffer = NoObject <=> Error(Status)
       /\ Whole(Buffer)
  /\ bpc = "insert" => Inserts
  /\ bpc = "returned" /\ Buffer # NoObject =>
       \/ request \in Fetches \union {"LibLocateHandleByDiskSignature"}
       \/ request = "LibInsertToTailOfBootOrder" /\ Status = "out_of_resources"

\* What has been read of the boot order while nobody else writes it.
Extended(o) == (IF o = NoObject THEN << >> ELSE o) \o <<BootOption>>

BootOrderInv ==
  changes = 0 =>
    /\ bpc # "returned" => values = {object}
    /\ bpc \in {"grow", "fetched"} /\ Status = "not_found" => object = NoObject
    /\ bpc = "fetched" /\ Buffer = NoObject => Status = "not_found" \/ pool_refusals > 0
    /\ bpc = "insert" => \/ NewBuffer = Extended(object)
                         \/ pool_refusals > 0 /\ NewBuffer = <<BootOption>>
    /\ bpc = "returned" /\ Inserts /\ Status = "success" =>
         \/ object = Extended(own)
         \/ pool_refusals > 0 /\ object = <<BootOption>>

BuffersInv == BuffersType /\ FetchInv /\ BootOrderInv

-------------------------------------------------------------------------------
LEMMA SequencesAreContents ==
  /\ << >> \in Seq(Elements) /\ <<BootOption>> \in Seq(Elements) \ {<< >>}
  /\ NoObject \notin Seq(Elements)
  /\ Objects \subseteq Seq(Elements) \ {<< >>}
  /\ \A o \in Contents : Extended(o) \in Seq(Elements) \ {<< >>}
  /\ Extended(NoObject) = <<BootOption>>
<1>1. /\ NoObject \notin Seq(Elements) /\ Objects \subseteq Seq(Elements) \ {<< >>}
      /\ BootOption \in Elements
  BY BuffersAssumption
<1>2. /\ << >> \in Seq(Elements) /\ <<BootOption>> \in Seq(Elements) /\ <<BootOption>> # << >>
      /\ \A s \in Seq(Elements) : /\ s \o <<BootOption>> \in Seq(Elements)
                                  /\ s \o <<BootOption>> # << >>
      /\ << >> \o <<BootOption>> = <<BootOption>>
  BY <1>1
<1> QED
  BY <1>1, <1>2 DEF Contents, Extended

LEMMA BuffersStart == BuffersInit => BuffersInv
<1> SUFFICES ASSUME BuffersInit PROVE BuffersInv
  OBVIOUS
<1>1. object \in Contents \ {<< >>} /\ NoObject \in Contents \ {<< >>}
  BY SequencesAreContents DEF BuffersInit, Contents
<1> QED
  BY <1>1, BuffersAssumption
     DEF BuffersInit, BuffersInv, BuffersType, FetchInv, BootOrderInv, Whole, Count, Error

\* The object is changed by another task, or by the function itself.
LEMMA BuffersChange ==
  ASSUME BuffersInv, object_changes
  PROVE  BuffersInv'
<1>1. object' \in Contents \ {<< >>}
  BY SequencesAreContents DEF object_changes, Contents
<1>2. changes' > 0
  BY DEF object_changes, BuffersInv, BuffersType
<1> QED
  BY <1>1, <1>2
     DEF object_changes, BuffersInv, BuffersType, FetchInv, BootOrderInv, Whole, Count, Inserts

LEMMA BuffersStep ==
  ASSUME BuffersInv, Library
  PROVE  BuffersInv'
<1>1. /\ BuffersType /\ FetchInv /\ BootOrderInv
      /\ << >> \in Contents /\ << >> # NoObject /\ NoObject \in Contents
  BY SequencesAreContents DEF BuffersInv, Contents
<1>2. CASE GrowBuffer_again
  BY <1>1, <1>2 DEF GrowBuffer_again, given_back, TooSmall, BuffersInv, Next_step, Others, BuffersType, FetchInv, BootOrderInv, Whole, Count, Error, Freed, Requests, Fetches, Inserts
<1>3. CASE GrowBuffer_done
  BY <1>1, <1>3 DEF GrowBuffer_done, TooSmall, Refused, BuffersInv, Next_step, Others, BuffersType, FetchInv, BootOrderInv, Whole, Count, Error, Freed, Requests, Fetches, Inserts
<1>4. CASE fetch
  BY <1>1, <1>4 DEF fetch, BuffersInv, Next_step, Others, BuffersType, FetchInv, BootOrderInv, Whole, Count, Error, Freed, Requests, Fetches, Inserts
<1>5. CASE fetch_return
  BY <1>1, <1>5 DEF fetch_return, BuffersInv, Next_step, Others, BuffersType, FetchInv, BootOrderInv, Whole, Count, Error, Freed, Requests, Fetches, Inserts
<1>6. CASE LibDeleteVariable
  BY <1>1, <1>6 DEF LibDeleteVariable, SetVariable, Refused, BuffersInv, Next_step, Others, BuffersType, FetchInv, BootOrderInv, Whole, Count, Error, Freed, Requests, Fetches, Inserts
<1>7. CASE not_empty
  BY <1>1, <1>7 DEF not_empty, BuffersInv, Next_step, Others, BuffersType, FetchInv, BootOrderInv, Whole, Count, Error, Freed, Requests, Fetches, Inserts
<1>8. CASE insert_allocate
  <2>1. CASE bpc' = "insert"
    <3>1. /\ NewBuffer' = Extended(Buffer) /\ NewBuffer' \in Contents \ {<< >>} /\ NewBuffer' # NoObject
      BY <1>1, <1>8, <2>1, SequencesAreContents
         DEF insert_allocate, appended, Next_step, Extended, Contents, BuffersType
    <3>2. /\ bpc = "fetched" /\ Inserts /\ live' = live + 1
          /\ UNCHANGED <<request, Status, Buffer, BufferSize, pool_refusals, object, values, own, changes>>
      BY <1>8, <2>1 DEF insert_allocate, Next_step, Allocated, Others
    <3>3. BuffersType'
      BY <1>1, <2>1, <3>1, <3>2 DEF BuffersType, Count
    <3>4. FetchInv'
      BY <1>1, <2>1, <3>2 DEF FetchInv, Inserts
    <3>5. BootOrderInv'
      BY <1>1, <2>1, <3>1, <3>2, SequencesAreContents DEF BootOrderInv, FetchInv, Whole
    <3> QED
      BY <3>3, <3>4, <3>5 DEF BuffersInv
  <2>2. CASE bpc' = "returned"
    BY <1>1, <1>8, <2>2
       DEF insert_allocate, Refused, BuffersInv, BuffersType, FetchInv, BootOrderInv, Next_step, Others, Whole, Count, Error, Freed, Requests, Fetches, Inserts
  <2> QED
    BY <1>8, <2>1, <2>2 DEF insert_allocate, Next_step
<1>9. CASE insert_set
  <2>1. /\ bpc = "insert" /\ bpc' = "returned" /\ own' = object /\ live' = Freed - 1
        /\ Buffer' = NoObject /\ NewBuffer' = NoObject /\ UNCHANGED <<request, changes>>
        /\ \/ Status' = "success" /\ object' = NewBuffer /\ values' = values \union {NewBuffer}
              /\ UNCHANGED pool_refusals
           \/ Status' = "failed" /\ pool_refusals' = pool_refusals + 1 /\ UNCHANGED <<object, values>>
    BY <1>9 DEF insert_set, Next_step, SetVariable, Refused
  <2>2. /\ NewBuffer \in Contents \ {<< >>} /\ Inserts /\ NewBuffer # NoObject
    BY <1>1, <2>1 DEF BuffersType, FetchInv
  <2>3. BuffersType'
    BY <1>1, <2>1, <2>2 DEF BuffersType, Count, Freed
  <2>4. FetchInv'
    BY <1>1, <2>1, <2>2 DEF FetchInv, Whole, Inserts, Fetches, Error
  <2>5. BootOrderInv'
    BY <1>1, <2>1, <2>2 DEF BootOrderInv
  <2> QED
    BY <2>3, <2>4, <2>5 DEF BuffersInv
<1>10. CASE match_none
  BY <1>1, <1>10 DEF match_none, BuffersInv, Next_step, Others, BuffersType, FetchInv, BootOrderInv, Whole, Count, Error, Freed, Requests, Fetches, Inserts
<1>11. CASE match_some
  <2>1. CASE Status' = "success"
    <3>1. Buffer' \in Seq(Elements)
      <4>1. PICK n \in 1 .. Len(Buffer) : \E match \in [1 .. n -> 1 .. Len(Buffer)] :
              Buffer' = [k \in 1 .. n |-> Buffer[match[k]]]
        BY <1>11, <2>1 DEF match_some
      <4>2. PICK match \in [1 .. n -> 1 .. Len(Buffer)] :
              Buffer' = [k \in 1 .. n |-> Buffer[match[k]]]
        BY <4>1
      <4>3. Buffer \in Seq(Elements)
        BY <1>1, <1>11 DEF match_some, BuffersType, Contents
      <4>4. n \in Nat /\ \A k \in 1 .. n : Buffer[match[k]] \in Elements
        BY <4>3
      <4> QED
        BY <4>2, <4>4
    <3>2. Buffer' \in Contents /\ Buffer' # NoObject
      BY <3>1, SequencesAreContents DEF Contents
    <3> QED
      BY <1>1, <1>11, <2>1, <3>2
         DEF match_some, BuffersInv, BuffersType, FetchInv, BootOrderInv, Next_step, Others, Whole, Count, Error, Freed, Requests, Fetches, Inserts
  <2>2. CASE Status' # "success"
    BY <1>1, <1>11, <2>2
       DEF match_some, Refused, BuffersInv, BuffersType, FetchInv, BootOrderInv, Next_step, Others, Whole, Count, Error, Freed, Requests, Fetches, Inserts
  <2> QED
    BY <2>1, <2>2
<1> QED
  BY <1>2, <1>3, <1>4, <1>5, <1>6, <1>7, <1>8, <1>9, <1>10, <1>11 DEF Library

LEMMA BuffersInvariant == BuffersSpec => []BuffersInv
<1>1. BuffersInv /\ [BuffersNext]_buffer_vars => BuffersInv'
  <2>1. ASSUME BuffersInv, UNCHANGED buffer_vars PROVE BuffersInv'
    BY <2>1 DEF buffer_vars, BuffersInv, BuffersType, FetchInv, BootOrderInv, Whole, Inserts
  <2> QED
    BY <2>1, BuffersStep, BuffersChange DEF BuffersNext
<1> QED
  BY <1>1, BuffersStart, PTL DEF BuffersSpec

\* No buffer is lost or freed twice, and a fetched one holds all of what the object
\* was at some moment of the call, whatever the sizes and whoever changes the object
\* (lib/misc.c, GrowBuffer; lib/hand.c).
THEOREM BuffersComeBack == BuffersSpec => []BuffersAreReturned
<1>1. BuffersInv => BuffersAreReturned
  BY DEF BuffersInv, BuffersType, FetchInv, BuffersAreReturned, Whole, Count
<1> QED
  BY <1>1, BuffersInvariant, PTL

\* An option is appended to the boot order that was read, when nobody else writes it
\* (lib/misc.c, LibInsertToTailOfBootOrder).
THEOREM BootOrderKept == BuffersSpec => []BootOrderIsKept
<1>1. BuffersInv => BootOrderIsKept
  BY DEF BuffersInv, BootOrderInv, BootOrderIsKept, Extended
<1> QED
  BY <1>1, BuffersInvariant, PTL

-------------------------------------------------------------------------------
(***************************************************************************)
(* Simple read files: the inductive invariant.  While the path is walked   *)
(* at most two files are open, the last that was reached and the one       *)
(* opened in it; the memory allocated is what the handle says.             *)
(***************************************************************************)
SIMPLE_READ_HANDLE ==
  [Source : SourceSizes \union {Nothing}, FreeBuffer : BOOLEAN, FileHandle : Nat \union {Nothing}]

HandleIs(Source, loaded, handle) ==
  /\ FHand \in SIMPLE_READ_HANDLE
  /\ FHand.Source = Source /\ (FHand.FreeBuffer <=> loaded) /\ FHand.FileHandle = handle

Unopened == HandleIs(Nothing, FALSE, Nothing) /\ blocks = {"handle"}
Copied == (\E n \in SourceSizes : HandleIs(n, FALSE, Nothing)) /\ blocks = {"handle"}
Loaded == (\E n \in SourceSizes : HandleIs(n, TRUE, Nothing)) /\ blocks = {"handle", "source"}
Opened == HandleIs(Nothing, FALSE, FileHandle) /\ blocks = {"handle"} /\ FileHandle # Nothing

HandleInv ==
  /\ source \in SourceSizes \union {Nothing}
  /\ fs \in Nat \union {Nothing} /\ at \in Nat
  /\ rpc = "allocate" => blocks = {}
  /\ rpc \in {"locate", "walk", "close_last", "load"} => Unopened
  /\ rpc = "load_file" => Loaded
  /\ rpc = "clean_up" => Unopened \/ Loaded
  /\ rpc = "open" => \/ (Copied \/ Loaded) /\ files = {}
                     \/ Opened /\ files = {FileHandle}
  /\ rpc \in {"failed", "closed"} => blocks = {}

FilesInv ==
  /\ ~wrong /\ FileHandle \in Nat \union {Nothing}
  /\ rpc \in {"allocate", "locate", "load", "load_file", "clean_up", "failed", "closed"} =>
       files = {}
  /\ rpc \in {"allocate", "locate"} => FileHandle = Nothing
  /\ rpc = "walk" =>
       /\ IF FileHandle = Nothing THEN files = {} ELSE files = {at} /\ FileHandle = at
       /\ ReadStatus = "success" => FileHandle # Nothing
  /\ rpc = "close_last" =>
       \/ files = {at} /\ FileHandle = Nothing /\ ReadStatus # "success"
       \/ files = {at, at + 1} /\ FileHandle = at + 1

LastInv ==
  /\ last.Offset \in Nat /\ last.asked \in Nat
  /\ rpc \notin {"open", "closed"} => last.Offset = 0 /\ last.asked = 0 /\ last.size = 0
  /\ ReadsStayInside

SimpleReadInv == HandleInv /\ FilesInv /\ LastInv

LEMMA SimpleReadStart == SimpleReadInit => SimpleReadInv
<1> SUFFICES ASSUME SimpleReadInit PROVE SimpleReadInv
  OBVIOUS
<1>1. fs \in Nat \union {Nothing}
  <2>1. PICK p \in FilePaths : p = asked_path
    BY DEF SimpleReadInit
  <2>2. Len(asked_path) \in Nat
    BY <2>1, SimpleReadAssumption
  <2> QED
    BY <2>2 DEF SimpleReadInit
<1>2. 0 .. 0 - 1 = {} /\ Cardinality({}) = 0
  BY FS_EmptySet
<1> QED
  BY <1>1, <1>2 DEF SimpleReadInit, SimpleReadInv, HandleInv, FilesInv, LastInv, ReadsStayInside

\* What is copied, of a file of n bytes.
LEMMA CopiedIsInside ==
  ASSUME NEW n \in SourceSizes, NEW Offset \in Nat, NEW asked \in Nat,
         Offset + asked <= MaxUintn
  PROVE  LET copied == IF (Offset + asked) % (MaxUintn + 1) > n
                       THEN IF Offset >= n THEN 0 ELSE n - Offset
                       ELSE asked
         IN  copied % (MaxUintn + 1) = Cardinality({k \in 0 .. asked - 1 : Offset + k < n})
<1> DEFINE copied == IF Offset + asked > n THEN IF Offset >= n THEN 0 ELSE n - Offset ELSE asked
<1>1. n \in Nat /\ n <= MaxUintn /\ MaxUintn \in Nat
  BY SimpleReadAssumption
<1>2. copied \in 0 .. MaxUintn /\ copied <= asked
  BY <1>1
<1>3. {k \in 0 .. asked - 1 : Offset + k < n} = 0 .. copied - 1
  BY <1>1
<1>4. Cardinality(0 .. copied - 1) = copied
  <2> HIDE DEF copied
  <2>1. 0 \in Int /\ copied - 1 \in Int /\ (0 > copied - 1 => copied = 0) /\ copied - 1 - 0 + 1 = copied
    BY <1>2
  <2> QED
    BY <1>2, <2>1, FS_Interval
<1>5. \A m \in 0 .. MaxUintn : m % (MaxUintn + 1) = m
  BY <1>1
<1>6. (Offset + asked) % (MaxUintn + 1) = Offset + asked /\ copied % (MaxUintn + 1) = copied
  BY <1>1, <1>2, <1>5
<1> QED
  BY <1>3, <1>4, <1>6

LEMMA SimpleReadRead ==
  ASSUME SimpleReadInv, ReadSimpleReadFile
  PROVE  SimpleReadInv'
<1>1. /\ rpc = "open" /\ UNCHANGED <<source, rpc, fs, at, FileHandle, ReadStatus, FHand, files, blocks, wrong>>
  BY DEF ReadSimpleReadFile
<1>2. HandleInv' /\ FilesInv'
  BY <1>1 DEF SimpleReadInv, HandleInv, FilesInv, Unopened, Copied, Loaded, Opened, HandleIs
<1>3. CASE FHand.Source = Nothing
  BY <1>1, <1>2, <1>3 DEF ReadSimpleReadFile, SimpleReadInv, LastInv, ReadsStayInside
<1>4. CASE FHand.Source # Nothing
  <2> DEFINE copied(o, k) == IF (o + k) % (MaxUintn + 1) > FHand.Source
                             THEN IF o >= FHand.Source THEN 0 ELSE FHand.Source - o
                             ELSE k
  <2>1. PICK Offset, ReadSize \in 0 .. MaxUintn :
          last' = [Offset |-> Offset, asked |-> ReadSize,
                   size |-> copied(Offset, ReadSize) % (MaxUintn + 1)]
    BY <1>4 DEF ReadSimpleReadFile, clipped
  <2>2. FHand.Source \in SourceSizes /\ Offset \in Nat /\ ReadSize \in Nat
    BY <1>1, <1>4, SimpleReadAssumption DEF SimpleReadInv, HandleInv, Copied, Loaded, Opened, HandleIs
  <2>3. Offset + ReadSize <= MaxUintn =>
          copied(Offset, ReadSize) % (MaxUintn + 1)
            = Cardinality({n \in 0 .. ReadSize - 1 : Offset + n < FHand.Source})
    BY <2>2, CopiedIsInside
  <2> HIDE DEF copied
  <2>4. LastInv'
    BY <1>1, <2>1, <2>2, <2>3 DEF LastInv, ReadsStayInside
  <2> QED
    BY <1>2, <2>4 DEF SimpleReadInv
<1> QED
  BY <1>3, <1>4

LEMMA SimpleReadStep ==
  ASSUME SimpleReadInv, OpenSimpleReadFile \/ CloseSimpleReadFile
  PROVE  SimpleReadInv'
<1>1. /\ Nothing \notin Nat
      /\ \A n \in SourceSizes : n \in Nat /\ n # Nothing
      /\ HandleInv /\ FilesInv /\ LastInv
  BY SimpleReadAssumption DEF SimpleReadInv
<1>2. LastInv'
  <2>1. last' = last /\ rpc # "closed" /\ (rpc = "open" => rpc' = "closed")
    BY DEF OpenSimpleReadFile, Goes, allocate_handle, locate_file_system, open_node, close_last, walked, walk_failed, load_file_size, load_file, clean_up, CloseSimpleReadFile
  <2>2. (last.Offset = 0 /\ last.asked = 0 /\ last.size = 0) \/ rpc' = "closed"
    BY <1>1, <2>1 DEF LastInv
  <2>3. 0 .. 0 - 1 = {} /\ Cardinality({}) = 0
    BY FS_EmptySet
  <2> QED
    BY <1>1, <2>1, <2>2, <2>3 DEF LastInv, ReadsStayInside
<1>3. CASE allocate_handle
  <2>1. /\ rpc = "allocate" /\ files = {} /\ UNCHANGED <<source, fs, at, FileHandle, files, wrong>>
        /\ rpc' \in {"locate", "open", "failed"}
        /\ blocks' = IF rpc' = "failed" THEN {} ELSE {"handle"}
        /\ rpc' = "locate" => source = Nothing
        /\ rpc' = "open" => source \in SourceSizes
    BY <1>1, <1>3 DEF allocate_handle, Goes, HandleInv, FilesInv
  <2>2. rpc' # "failed" => HandleIs(source, FALSE, Nothing)'
    <3> SUFFICES ASSUME rpc' # "failed" PROVE HandleIs(source, FALSE, Nothing)'
      OBVIOUS
    <3>1. FHand' = [Source |-> source, FreeBuffer |-> FALSE, FileHandle |-> Nothing]
      BY <1>3 DEF allocate_handle, Goes
    <3>2. source \in SourceSizes \union {Nothing}
      BY <1>1 DEF HandleInv
    <3>3. FHand' \in SIMPLE_READ_HANDLE
      BY <3>1, <3>2 DEF SIMPLE_READ_HANDLE
    <3>4. FHand'.Source = source /\ ~FHand'.FreeBuffer /\ FHand'.FileHandle = Nothing
      BY <3>1
    <3> QED
      BY <2>1, <3>3, <3>4 DEF HandleIs, SIMPLE_READ_HANDLE
  <2>3. HandleInv'
    BY <1>1, <2>1, <2>2 DEF HandleInv, HandleIs, Unopened, Copied
  <2>4. FilesInv'
    BY <1>1, <1>3, <2>1 DEF FilesInv
  <2> QED
    BY <1>2, <2>3, <2>4 DEF SimpleReadInv
<1>4. CASE locate_file_system
  <2>1. HandleInv'
    BY <1>1, <1>4 DEF locate_file_system, Goes, HandleInv, FilesInv, Close, Free, Unopened, Copied, Loaded, Opened, HandleIs, SIMPLE_READ_HANDLE
  <2>2. FilesInv'
    BY <1>1, <1>4 DEF locate_file_system, Goes, HandleInv, FilesInv, Close, Free, Unopened, Copied, Loaded, Opened, HandleIs, SIMPLE_READ_HANDLE
  <2> QED
    BY <1>2, <2>1, <2>2 DEF SimpleReadInv
<1>5. CASE open_node
  <2>1. HandleInv'
    BY <1>1, <1>5 DEF open_node, InFileSystem, Goes, HandleInv, FilesInv, Close, Free, Unopened, Copied, Loaded, Opened, HandleIs, SIMPLE_READ_HANDLE
  <2>2. FilesInv'
    BY <1>1, <1>5 DEF open_node, InFileSystem, Goes, HandleInv, FilesInv, Close, Free, Unopened, Copied, Loaded, Opened, HandleIs, SIMPLE_READ_HANDLE
  <2> QED
    BY <1>2, <2>1, <2>2 DEF SimpleReadInv
<1>6. CASE close_last
  <2>1. HandleInv'
    BY <1>1, <1>6 DEF close_last, Goes, HandleInv, Unopened, HandleIs
  <2>2. FilesInv'
    <3>1. /\ rpc = "close_last" /\ rpc' = "walk" /\ at' = at + 1 /\ at \in Nat
          /\ UNCHANGED <<FileHandle, ReadStatus>>
          /\ files' = files \ {at} /\ at \in files /\ (wrong' <=> wrong)
      BY <1>1, <1>6 DEF close_last, leave, Close, Goes, HandleInv, FilesInv
    <3>2. CASE FileHandle = Nothing
      <4>1. files' = {} /\ ReadStatus # "success"
        BY <1>1, <3>1, <3>2 DEF FilesInv
      <4> QED
        BY <1>1, <3>1, <3>2, <4>1 DEF FilesInv
    <3>3. CASE FileHandle # Nothing
      <4>1. files' = {at + 1} /\ FileHandle = at + 1
        BY <1>1, <3>1, <3>3 DEF FilesInv
      <4> QED
        BY <1>1, <3>1, <3>3, <4>1 DEF FilesInv
    <3> QED
      BY <3>2, <3>3
  <2> QED
    BY <1>2, <2>1, <2>2 DEF SimpleReadInv
<1>7. CASE walked
  <2>1. ReadStatus = "success" /\ rpc = "walk" /\ rpc' = "open"
    BY <1>7 DEF walked, NodeStatus, Goes
  <2>2. /\ files = {FileHandle} /\ FileHandle # Nothing /\ blocks = {"handle"}
        /\ HandleIs(Nothing, FALSE, FileHandle)'
    BY <1>1, <1>7, <2>1
       DEF walked, HandleInv, FilesInv, Unopened, HandleIs, SIMPLE_READ_HANDLE
  <2>3. UNCHANGED <<source, fs, at, FileHandle, ReadStatus, files, blocks, wrong>>
    BY <1>7 DEF walked, Goes
  <2>4. HandleInv' /\ FilesInv'
    BY <1>1, <2>1, <2>2, <2>3 DEF HandleInv, FilesInv, Opened
  <2> QED
    BY <1>2, <2>4 DEF SimpleReadInv
<1>8. CASE walk_failed
  <2>1. HandleInv'
    BY <1>1, <1>8 DEF walk_failed, Goes, HandleInv, FilesInv, Close, Free, Unopened, Copied, Loaded, Opened, HandleIs, SIMPLE_READ_HANDLE
  <2>2. FilesInv'
    BY <1>1, <1>8 DEF walk_failed, Goes, HandleInv, FilesInv, Close, Free, Unopened, Copied, Loaded, Opened, HandleIs, SIMPLE_READ_HANDLE
  <2> QED
    BY <1>2, <2>1, <2>2 DEF SimpleReadInv
<1>9. CASE load_file_size
  <2>1. Unopened /\ files = {} /\ rpc = "load" /\ UNCHANGED <<source, fs, at, files>>
    BY <1>1, <1>9 DEF load_file_size, Goes, HandleInv, FilesInv
  <2>2. ASSUME rpc' = "load_file" PROVE HandleInv'
    <3>1. PICK n \in SourceSizes : FHand' = [FHand EXCEPT !.Source = n, !.FreeBuffer = TRUE]
      BY <1>9, <2>2 DEF load_file_size, Goes
    <3>2. HandleIs(n, TRUE, Nothing)'
      BY <2>1, <3>1 DEF Unopened, HandleIs, SIMPLE_READ_HANDLE
    <3>3. blocks' = {"handle", "source"}
      BY <1>9, <2>1, <2>2 DEF load_file_size, Goes, Unopened
    <3> QED
      BY <1>1, <2>1, <2>2, <3>2, <3>3 DEF HandleInv, Copied, Loaded, Opened, HandleIs
  <2>3. ASSUME rpc' = "clean_up" PROVE HandleInv'
    BY <1>1, <1>9, <2>1, <2>3 DEF load_file_size, Goes, HandleInv, Unopened, HandleIs
  <2>4. HandleInv'
    BY <1>9, <2>2, <2>3 DEF load_file_size, Goes
  <2>5. FilesInv'
    BY <1>1, <1>9 DEF load_file_size, Goes, FilesInv
  <2> QED
    BY <1>2, <2>4, <2>5 DEF SimpleReadInv
<1>10. CASE load_file
  <2>1. HandleInv'
    BY <1>1, <1>10 DEF load_file, Goes, HandleInv, FilesInv, Close, Free, Unopened, Copied, Loaded, Opened, HandleIs, SIMPLE_READ_HANDLE
  <2>2. FilesInv'
    BY <1>1, <1>10 DEF load_file, Goes, HandleInv, FilesInv, Close, Free, Unopened, Copied, Loaded, Opened, HandleIs, SIMPLE_READ_HANDLE
  <2> QED
    BY <1>2, <2>1, <2>2 DEF SimpleReadInv
<1>11. CASE clean_up
  <2>1. {"handle"} \union (IF FHand.FreeBuffer THEN {"source"} ELSE {}) = blocks
    BY <1>1, <1>11 DEF clean_up, Goes, HandleInv, Unopened, Loaded, HandleIs
  <2>2. blocks' = {} /\ (wrong' <=> wrong)
    BY <1>1, <1>11, <2>1 DEF clean_up, Free, FilesInv
  <2>3. HandleInv' /\ FilesInv'
    BY <1>1, <1>11, <2>2 DEF clean_up, Goes, HandleInv, FilesInv
  <2> QED
    BY <1>2, <2>3 DEF SimpleReadInv
<1>12. CASE CloseSimpleReadFile
  <2>1. /\ {"handle"} \union (IF FHand.FreeBuffer THEN {"source"} ELSE {}) = blocks
        /\ {FHand.FileHandle} \ {Nothing} = files
    BY <1>1, <1>12 DEF CloseSimpleReadFile, Goes, HandleInv, Copied, Loaded, Opened, HandleIs
  <2>2. files' = {} /\ blocks' = {} /\ (wrong' <=> wrong)
    BY <1>12, <2>1 DEF CloseSimpleReadFile
  <2>3. HandleInv' /\ FilesInv'
    BY <1>1, <1>12, <2>2 DEF CloseSimpleReadFile, Goes, HandleInv, FilesInv
  <2> QED
    BY <1>2, <2>3 DEF SimpleReadInv
<1> QED
  BY <1>3, <1>4, <1>5, <1>6, <1>7, <1>8, <1>9, <1>10, <1>11, <1>12 DEF OpenSimpleReadFile

LEMMA SimpleReadInvariant == SimpleReadSpec => []SimpleReadInv
<1>1. SimpleReadInv /\ [SimpleReadNext]_read_vars => SimpleReadInv'
  <2>1. ASSUME SimpleReadInv, UNCHANGED read_vars PROVE SimpleReadInv'
    BY <2>1 DEF read_vars, SimpleReadInv, HandleInv, FilesInv, LastInv, ReadsStayInside,
                Unopened, Copied, Loaded, Opened, HandleIs
  <2> QED
    BY <2>1, SimpleReadStep, SimpleReadRead DEF SimpleReadNext
<1> QED
  BY <1>1, SimpleReadStart, PTL DEF SimpleReadSpec

\* Whatever call is refused and wherever, opening a file that fails leaves no file
\* and no memory behind, and nothing is closed or freed twice (lib/sread.c:33-276,
\* 328-357).
THEOREM ReadsLeaveNothingOpen == SimpleReadSpec => []NothingLeftOpen
<1>1. SimpleReadInv => NothingLeftOpen
  <2> SUFFICES ASSUME SimpleReadInv PROVE NothingLeftOpen
    OBVIOUS
  <2>1. rpc = "open" =>
          /\ files = {FHand.FileHandle} \ {Nothing}
          /\ (FHand.Source = Nothing) <=> (files # {})
          /\ blocks = {"handle"} \union IF FHand.FreeBuffer THEN {"source"} ELSE {}
    BY SimpleReadAssumption
       DEF SimpleReadInv, HandleInv, Copied, Loaded, Opened, HandleIs
  <2>2. ~wrong /\ (rpc \in {"failed", "closed"} => files = {} /\ blocks = {})
    BY DEF SimpleReadInv, HandleInv, FilesInv
  <2> QED
    BY <2>1, <2>2 DEF NothingLeftOpen
<1> QED
  BY <1>1, SimpleReadInvariant, PTL

\* A read of a copy, of any size and at any offset, copies what there is of the file
\* there, if the sum of both is a UINTN (lib/sread.c:280-325).
THEOREM ReadsInside == SimpleReadSpec => []ReadsStayInside
<1>1. SimpleReadInv => ReadsStayInside
  BY DEF SimpleReadInv, LastInv
<1> QED
  BY <1>1, SimpleReadInvariant, PTL

-------------------------------------------------------------------------------
(***************************************************************************)
(* Relocation.  A linker names a word in one entry only, and on mips64el   *)
(* none of the table of local addresses.                                   *)
(***************************************************************************)
Moving == {"RELATIVE", "DIR64", "FPTR"}

WordsNamedOnce ==
  /\ \A t \in RelocTables : \A j, k \in DOMAIN t :
       t[j].offset = t[k].offset /\ t[j].type \in Moving /\ t[k].type \in Moving => j = k
  /\ "mips64el" \in Machines =>
       \A t \in RelocTables : \A k \in DOMAIN t, g \in GotSizes :
         t[k].type = "RELATIVE" => t[k].offset >= g

ImageRange == 0 .. ImageWords - 1

RelocType ==
  /\ machine \in Machines /\ ldbase \in Nat /\ table \in RelocTables
  /\ dynamic \in [rel : BOOLEAN, relsz : Nat, relent : {0, 1}, addr : BOOLEAN, gotsz : GotSizes]
  /\ dynamic.relsz = IF dynamic.rel THEN Len(table) ELSE 0
  /\ machine # "mips64el" => dynamic.gotsz = 0 /\ ~dynamic.addr
  /\ machine = "ia64" => dynamic.rel /\ dynamic.relent = 1
  /\ image \in [ImageRange -> Nat] /\ fptr \in Seq(Nat)

\* An entry of some types for a word, among those gone through.
Done(types, n) == \E k \in Entries(types, n) : k < rel

(***************************************************************************)
(* What is in a word while the table is gone through: where an entry has   *)
(* been applied, or the table of local addresses, what it is to be; else   *)
(* what the linker left there.  A word above WordSize is a descriptor's    *)
(* address, and nobody else's.                                             *)
(***************************************************************************)
WordIs(n) ==
  IF machine = "ia64" /\ Done({"FPTR"}, n)
  THEN \E k \in Entries({"FPTR"}, n), j \in DOMAIN fptr :
         image[n] = Descriptor(j) /\ fptr[j] = Added(table[k].addend)
  ELSE image[n] = IF (dynamic.addr /\ n < dynamic.gotsz - gotsz) \/ Done(Adding, n)
                  THEN Added(Meant(n)) ELSE Linked(n)

OwnDescriptors ==
  /\ \A n \in ImageRange : image[n] <= WordSize + Len(fptr)
  /\ \A m, n \in ImageRange : image[m] = image[n] /\ image[m] > WordSize => m = n

RelocInv ==
  /\ RelocType
  /\ relocated = "scan" =>
       /\ rel = 1 /\ fptr = << >> /\ relsz = 0
       /\ image = [n \in ImageRange |-> Linked(n)]
  /\ relocated = "applying" =>
       /\ rel \in Nat /\ relsz \in Nat /\ rel > 0 /\ rel + relsz = dynamic.relsz + 1
       /\ gotsz \in 0 .. dynamic.gotsz /\ (dynamic.gotsz > 0 => dynamic.addr)
       /\ \A n \in ImageRange : WordIs(n)
       /\ OwnDescriptors
  /\ RelocatedOnce

-------------------------------------------------------------------------------
\* What a table's entries are, and what the values of words are.
LEMMA EntryFacts ==
  ASSUME table \in RelocTables, ldbase \in Nat
  PROVE  /\ Len(table) \in Nat /\ DOMAIN table = 1 .. Len(table)
         /\ \A k \in DOMAIN table : table[k].offset \in ImageRange
                                     /\ table[k].addend \in 0 .. WordSize - 1
         /\ \A n \in ImageRange : Linked(n) \in 0 .. WordSize - 1
         /\ \A w \in Nat : Added(w) \in 0 .. WordSize - 1
         /\ \A n \in ImageRange : Meant(n) \in 0 .. WordSize - 1
<1>1. table \in Seq(Elf_Rela) /\ ImageWords \in Nat /\ WordSize \in Nat \ {0} /\ ImageWords <= WordSize
  BY RelocationAssumption
<1>2. Len(table) \in Nat /\ DOMAIN table = 1 .. Len(table) /\ \A k \in DOMAIN table : table[k] \in Elf_Rela
  BY <1>1
<1>3. \A k \in DOMAIN table : table[k].offset \in ImageRange
                               /\ table[k].addend \in 0 .. WordSize - 1
  BY <1>2 DEF ImageRange, Elf_Rela
<1>4. \A n \in ImageRange : Entries(Adding, n) # {} =>
        /\ (CHOOSE k \in Entries(Adding, n) : TRUE) \in DOMAIN table
        /\ table[CHOOSE k \in Entries(Adding, n) : TRUE].addend \in 0 .. WordSize - 1
  <2> TAKE n \in ImageRange
  <2> HAVE Entries(Adding, n) # {}
  <2>1. PICK c : c = CHOOSE k \in Entries(Adding, n) : TRUE
    OBVIOUS
  <2>2. c \in Entries(Adding, n)
    BY <2>1
  <2>3. c \in DOMAIN table
    BY <2>2 DEF Entries
  <2> QED
    BY <1>3, <2>1, <2>3
<1>5. \A n \in ImageRange : n \in 0 .. WordSize - 1 /\ 0 \in 0 .. WordSize - 1
  BY <1>1 DEF ImageRange
<1>6. \A n \in ImageRange : Linked(n) \in 0 .. WordSize - 1
  BY <1>4, <1>5 DEF Linked
<1>7. \A n \in ImageRange : Meant(n) \in 0 .. WordSize - 1
  BY <1>4, <1>5 DEF Meant
<1>8. \A w \in Nat : Added(w) \in 0 .. WordSize - 1
  BY <1>1 DEF Added
<1> QED
  BY <1>2, <1>3, <1>6, <1>7, <1>8

\* The one entry that moves a word.
LEMMA OneEntry ==
  ASSUME WordsNamedOnce, RelocType, NEW k \in DOMAIN table, table[k].type \in Moving,
         NEW n, n = table[k].offset
  PROVE  /\ \A types : types \subseteq Moving =>
              Entries(types, n) = IF table[k].type \in types THEN {k} ELSE {}
         /\ table[k].type \in Adding => Meant(n) = table[k].addend
         /\ table[k].type \in Adding =>
              Linked(n) = IF machine \in FromTable THEN 0 ELSE table[k].addend
<1>1. \A j \in DOMAIN table : table[j].offset = n /\ table[j].type \in Moving => j = k
  BY DEF WordsNamedOnce, RelocType
<1>2. ASSUME NEW types, types \subseteq Moving
      PROVE  Entries(types, n) = IF table[k].type \in types THEN {k} ELSE {}
  BY <1>1, <1>2 DEF Entries
<1>3. Adding \subseteq Moving
  BY DEF Adding, Moving
<1>4. ASSUME table[k].type \in Adding
      PROVE  /\ Entries(Adding, n) = {k} /\ Entries(Adding, n) # {}
             /\ (CHOOSE j \in Entries(Adding, n) : TRUE) = k
  <2>1. Entries(Adding, n) = {k}
    BY <1>2, <1>3, <1>4
  <2> QED
    BY <2>1
<1> QED
  BY <1>2, <1>4 DEF Meant, Linked

LEMMA RelocStart == RelocInit => RelocInv
<1> SUFFICES ASSUME RelocInit PROVE RelocInv
  OBVIOUS
<1>1. machine \in Machines /\ ldbase \in Nat /\ table \in RelocTables
  BY RelocationAssumption DEF RelocInit
<1>2. /\ Len(table) \in Nat
      /\ \A n \in ImageRange : Linked(n) \in 0 .. WordSize - 1
  BY <1>1, EntryFacts
<1>3. dynamic \in [rel : BOOLEAN, relsz : Nat, relent : {0, 1}, addr : BOOLEAN, gotsz : GotSizes]
  BY <1>2 DEF RelocInit
<1>4. image = [n \in ImageRange |-> Linked(n)]
  BY DEF RelocInit, ImageRange
<1>5. RelocType
  <2>1. image \in [ImageRange -> Nat] /\ fptr \in Seq(Nat)
    BY <1>2, <1>4, RelocationAssumption DEF RelocInit
  <2> QED
    BY <1>1, <1>3, <2>1 DEF RelocInit, RelocType
<1> QED
  BY <1>4, <1>5 DEF RelocInit, RelocInv, RelocatedOnce

-------------------------------------------------------------------------------
\* A relocation changes neither what there is to relocate nor where it was loaded.
LEMMA SameTable ==
  Keep => /\ Adding' = Adding
          /\ \A types, n : Entries(types, n)' = Entries(types, n)
          /\ \A n : Linked(n)' = Linked(n) /\ Meant(n)' = Meant(n)
          /\ \A w : Added(w)' = Added(w)
<1> SUFFICES ASSUME Keep
             PROVE  /\ Adding' = Adding
                    /\ \A types, n : Entries(types, n)' = Entries(types, n)
                    /\ \A n : Linked(n)' = Linked(n) /\ Meant(n)' = Meant(n)
                    /\ \A w : Added(w)' = Added(w)
  OBVIOUS
<1>1. machine' = machine /\ table' = table /\ ldbase' = ldbase
  BY DEF Keep
<1>2. Adding' = Adding
  BY <1>1 DEF Adding
<1>3. \A types, n : Entries(types, n)' = Entries(types, n)
  BY <1>1 DEF Entries
<1>4. \A w : Added(w)' = Added(w)
  BY <1>1 DEF Added
<1>5. ASSUME NEW n PROVE Linked(n)' = Linked(n) /\ Meant(n)' = Meant(n)
  <2>1. Entries(Adding, n)' = Entries(Adding, n)
    BY <1>2, <1>3
  <2>2. Linked(n)' = Linked(n)
    BY <1>1 DEF Linked, Entries, Adding
  <2>3. Meant(n)' = Meant(n)
    BY <1>1 DEF Meant, Entries, Adding
  <2> QED
    BY <2>2, <2>3
<1> QED
  BY <1>2, <1>3, <1>4, <1>5

LEMMA ScanKeeps == RelocInv /\ scan_dynamic => RelocInv'
<1> SUFFICES ASSUME RelocInv, scan_dynamic PROVE RelocInv'
  OBVIOUS
<1>1. /\ RelocType /\ Keep
      /\ rel = 1 /\ fptr = << >> /\ image = [n \in ImageRange |-> Linked(n)]
      /\ rel' = rel /\ fptr' = fptr /\ image' = image
      /\ gotsz' = dynamic.gotsz /\ relsz' = dynamic.relsz
      /\ relocated' = IF NothingToDo THEN "success" ELSE IF Wrong THEN "load_error" ELSE "applying"
  BY DEF RelocInv, scan_dynamic
<1>2. /\ Len(table) \in Nat /\ DOMAIN table = 1 .. Len(table)
      /\ \A n \in ImageRange : Linked(n) \in 0 .. WordSize - 1
      /\ ImageRange' = ImageRange
  BY <1>1, EntryFacts DEF RelocType, ImageRange
<1>3. RelocType'
  BY <1>1, <1>2 DEF RelocType, Keep
<1>4. \A n \in ImageRange : image[n] = Linked(n) /\ Linked(n)' = Linked(n)
  BY <1>1, SameTable
<1>5. ASSUME relocated' = "applying"
      PROVE  /\ dynamic'.relsz = relsz' /\ gotsz' \in 0 .. dynamic'.gotsz
             /\ dynamic'.gotsz > 0 => dynamic'.addr
             /\ \A n \in ImageRange' : WordIs(n)'
             /\ OwnDescriptors'
  <2>1. gotsz' \in Nat /\ dynamic'.gotsz = gotsz' /\ (dynamic'.gotsz > 0 => dynamic'.addr)
        /\ dynamic'.relsz = relsz'
    BY <1>1, <1>5, RelocationAssumption DEF RelocType, Keep, Wrong
  <2>2. \A types, n : ~Done(types, n)'
    <3>1. \A types, n : Entries(types, n) \subseteq 1 .. Len(table)
      BY <1>2 DEF Entries
    <3>2. \A types, n : Entries(types, n)' \subseteq 1 .. Len(table)
      BY <1>1, <3>1, SameTable
    <3> QED
      BY <3>2, <1>1, <1>2 DEF Done
  <2>3. \A n \in ImageRange' : WordIs(n)'
    BY <1>1, <1>2, <1>4, <2>1, <2>2 DEF WordIs, ImageRange
  <2>4. OwnDescriptors'
    BY <1>1, <1>2, <1>4, RelocationAssumption DEF OwnDescriptors
  <2> QED
    BY <2>1, <2>3, <2>4
<1>6. ASSUME relocated' = "success"
      PROVE  RelocatedOnce'
  <2>1. ~dynamic'.rel /\ ~dynamic'.addr /\ machine' # "ia64"
    BY <1>1, <1>6 DEF NothingToDo, Keep, RelocType
  <2> QED
    BY <1>1, <1>2, <1>4, <2>1 DEF RelocatedOnce, ImageRange
<1>7. relsz' \in Nat /\ rel' + relsz' = relsz' + 1
  BY <1>1 DEF RelocType
<1> QED
  BY <1>1, <1>3, <1>5, <1>6, <1>7 DEF RelocInv, RelocatedOnce

\* An entry not yet come to has not been done, and once passed it has.
LEMMA NextEntry ==
  ASSUME WordsNamedOnce, RelocInv, relocated = "applying", relsz > 0,
         Keep, rel' = rel + 1, NEW k, k = rel, NEW n, n = table[k].offset,
         table[k].type \in Moving
  PROVE  /\ k \in DOMAIN table /\ n \in ImageRange /\ table[k].addend \in 0 .. WordSize - 1
         /\ \A types : types \subseteq Moving => ~Done(types, n)
         /\ \A types : table[k].type \in types => Done(types, n)'
         /\ \A types : types \subseteq Moving /\ table[k].type \notin types => ~Done(types, n)'
         /\ \A types, m : m # n => (Done(types, m)' <=> Done(types, m))
<1>1. /\ DOMAIN table = 1 .. Len(table) /\ Len(table) \in Nat
      /\ \A j \in DOMAIN table : table[j].offset \in ImageRange
                                  /\ table[j].addend \in 0 .. WordSize - 1
  BY EntryFacts DEF RelocInv, RelocType
<1>2. k \in 1 .. Len(table) /\ k' = k /\ rel' = k + 1 /\ table' = table
  BY <1>1 DEF RelocInv, RelocType, Keep
<1>3. \A types, m : Entries(types, m)' = Entries(types, m)
  BY SameTable
<1>4. \A types : types \subseteq Moving =>
        Entries(types, n) = IF table[k].type \in types THEN {k} ELSE {}
  BY <1>1, <1>2, OneEntry DEF RelocInv
<1>5. \A types : types \subseteq Moving => ~Done(types, n)
  BY <1>2, <1>4 DEF Done
<1>6. \A types : types \subseteq Moving /\ table[k].type \notin types => ~Done(types, n)'
  BY <1>2, <1>3, <1>4 DEF Done
<1>7. \A types : table[k].type \in types => Done(types, n)'
  <2>1. \A types : table[k].type \in types => k \in Entries(types, n)
    BY <1>1, <1>2 DEF Entries
  <2> QED
    BY <1>2, <1>3, <2>1 DEF Done
<1>8. ASSUME NEW types, NEW m, m # n
      PROVE  Done(types, m)' <=> Done(types, m)
  <2>1. \A j \in Entries(types, m) : j \in 1 .. Len(table) /\ j # k
    BY <1>1, <1>8 DEF Entries
  <2> QED
    BY <1>1, <1>2, <1>3, <2>1 DEF Done
<1> QED
  BY <1>1, <1>2, <1>5, <1>6, <1>7, <1>8

\* An entry passed over leaves every word as done, or not, as it was.
LEMMA PassedOver ==
  ASSUME RelocInv, relocated = "applying", relsz > 0, Keep, rel' = rel + 1,
         NEW types, table[rel].type \notin types, NEW m
  PROVE  Done(types, m)' <=> Done(types, m)
<1>1. DOMAIN table = 1 .. Len(table) /\ Len(table) \in Nat /\ rel \in Nat
  BY EntryFacts DEF RelocInv, RelocType
<1>2. Entries(types, m)' = Entries(types, m)
  BY SameTable
<1>3. \A j \in Entries(types, m) : j \in 1 .. Len(table) /\ j # rel
  BY <1>1 DEF Entries
<1> QED
  BY <1>1, <1>2, <1>3 DEF Done

\* A word that is made an address again is nobody's descriptor.
LEMMA OwnKept ==
  ASSUME RelocType, OwnDescriptors, fptr' = fptr,
         \A m \in ImageRange : image'[m] = image[m] \/ image'[m] \in 0 .. WordSize - 1
  PROVE  OwnDescriptors'
<1>1. ImageRange' = ImageRange /\ \A m \in ImageRange : image[m] \in Nat
  BY DEF ImageRange, RelocType
<1>2. Len(fptr) \in Nat /\ WordSize \in Nat
  BY RelocationAssumption DEF RelocType
<1>3. ASSUME NEW m \in ImageRange, NEW n \in ImageRange, image'[m] = image'[n], image'[m] > WordSize
      PROVE  m = n
  <2>1. image'[m] = image[m] /\ image'[n] = image[n]
    BY <1>2, <1>3
  <2> QED
    BY <1>3, <2>1 DEF OwnDescriptors
<1>4. \A n \in ImageRange : image'[n] <= WordSize + Len(fptr)
  BY <1>1, <1>2 DEF OwnDescriptors
<1> QED
  BY <1>1, <1>3, <1>4 DEF OwnDescriptors

LEMMA GotKeeps == WordsNamedOnce /\ RelocInv /\ relocate_got => RelocInv'
<1> SUFFICES ASSUME WordsNamedOnce, RelocInv, relocate_got PROVE RelocInv'
  OBVIOUS
<1>1. PICK n : n = dynamic.gotsz - gotsz
  OBVIOUS
<1>2. /\ RelocType /\ OwnDescriptors /\ Keep /\ relocated = "applying"
      /\ gotsz \in 0 .. dynamic.gotsz /\ gotsz > 0 /\ gotsz' = gotsz - 1
      /\ dynamic.gotsz \in 0 .. ImageWords /\ dynamic.addr
      /\ machine = "mips64el" /\ ldbase \in Nat /\ table \in RelocTables
      /\ image' = [image EXCEPT ![n] = Added(image[n])]
      /\ \A m \in ImageRange : WordIs(m)
      /\ rel' = rel /\ relsz' = relsz /\ fptr' = fptr /\ relocated' = relocated
  <2>1. /\ RelocType /\ OwnDescriptors /\ gotsz \in 0 .. dynamic.gotsz
        /\ dynamic.gotsz > 0 => dynamic.addr
        /\ \A m \in ImageRange : WordIs(m)
    BY DEF RelocInv, relocate_got
  <2>2. /\ Keep /\ relocated = "applying" /\ gotsz > 0 /\ gotsz' = gotsz - 1
        /\ image' = [image EXCEPT ![n] = Added(image[n])]
        /\ rel' = rel /\ relsz' = relsz /\ fptr' = fptr /\ relocated' = relocated
    BY <1>1 DEF relocate_got
  <2>3. dynamic.gotsz \in GotSizes /\ ldbase \in Nat /\ table \in RelocTables
        /\ (machine # "mips64el" => dynamic.gotsz = 0)
    BY <2>1 DEF RelocType
  <2>4. dynamic.gotsz \in 0 .. ImageWords /\ dynamic.gotsz > 0
    <3>1. dynamic.gotsz \in 0 .. ImageWords /\ ImageWords \in Nat
      <4>1. GotSizes \subseteq 0 .. ImageWords /\ WordSize \in Nat /\ ImageWords \in 0 .. WordSize
        BY RelocationAssumption
      <4>2. ImageWords \in Nat
        BY <4>1
      <4>3. dynamic.gotsz \in 0 .. ImageWords
        BY <2>3, <4>1, Zenon
      <4> QED
        BY <4>2, <4>3
    <3> QED
      BY <2>1, <2>2, <3>1
  <2> QED
    BY <2>1, <2>2, <2>3, <2>4
<1>3. n \in ImageRange /\ n \in Nat /\ n < dynamic.gotsz /\ ImageRange' = ImageRange
  BY <1>1, <1>2, RelocationAssumption DEF ImageRange
<1>4. Entries(Adding, n) = {}
  <2>1. \A k \in DOMAIN table : table[k].type = "RELATIVE" => table[k].offset >= dynamic.gotsz
    BY <1>2 DEF WordsNamedOnce, RelocType
  <2>2. \A k \in DOMAIN table : table[k].offset = n => table[k].type # "RELATIVE"
    BY <1>2, <1>3, <2>1
  <2> QED
    BY <1>2, <2>2 DEF Entries, Adding
<1>5. ~Done(Adding, n) /\ Meant(n) = n /\ Linked(n) = n
  BY <1>4 DEF Done, Meant, Linked
<1>6. /\ image'[n] = Added(image[n]) /\ Added(n) \in 0 .. WordSize - 1
      /\ \A m \in ImageRange : m # n => image'[m] = image[m]
      /\ image' \in [ImageRange -> Nat]
  <2>1. image \in [ImageRange -> Nat] /\ \A w \in Nat : Added(w) \in 0 .. WordSize - 1
    BY <1>2, EntryFacts DEF RelocType
  <2> QED
    BY <1>2, <1>3, <2>1
<1>7. image[n] = n
  BY <1>1, <1>2, <1>3, <1>5 DEF WordIs
<1>8. ASSUME NEW m \in ImageRange PROVE WordIs(m)'
  <2>1. WordIs(m) /\ m \in Nat
    BY <1>2 DEF ImageRange
  <2>2. /\ Done(Adding, m)' <=> Done(Adding, m)
        /\ Added(Meant(m))' = Added(Meant(m)) /\ Linked(m)' = Linked(m)
        /\ dynamic'.addr /\ dynamic' = dynamic /\ machine' = machine
    BY <1>2, SameTable DEF Done, Keep, Added
  <2>3. CASE m = n
    BY <1>1, <1>2, <1>3, <1>5, <1>6, <1>7, <2>1, <2>2, <2>3 DEF WordIs
  <2>4. CASE m # n
    <3>1. m < dynamic.gotsz - gotsz' <=> m < dynamic.gotsz - gotsz
      BY <1>1, <1>2, <2>1, <2>4
    <3> QED
      BY <1>2, <1>6, <2>1, <2>2, <2>4, <3>1 DEF WordIs
  <2> QED
    BY <2>3, <2>4
<1>9. OwnDescriptors'
  BY <1>2, <1>6, <1>7, OwnKept
<1>10. RelocType'
  BY <1>2, <1>6 DEF RelocType, Keep
<1>11. gotsz' \in 0 .. dynamic'.gotsz /\ dynamic'.addr /\ dynamic'.relsz = dynamic.relsz
  BY <1>2 DEF Keep
<1> QED
  BY <1>2, <1>3, <1>8, <1>9, <1>10, <1>11 DEF RelocInv, RelocatedOnce

LEMMA EntryKeeps == WordsNamedOnce /\ RelocInv /\ relocate_entry => RelocInv'
<1> SUFFICES ASSUME WordsNamedOnce, RelocInv, relocate_entry PROVE RelocInv'
  OBVIOUS
<1>1. PICK k : k = rel
  OBVIOUS
<1>2. PICK n : n = table[k].offset
  OBVIOUS
<1>3. PICK s : s = table[k].type
  OBVIOUS
<1>4. /\ RelocType /\ OwnDescriptors /\ Keep /\ relocated = "applying"
      /\ gotsz = 0 /\ gotsz' = gotsz /\ fptr' = fptr
      /\ rel \in Nat /\ relsz \in Nat /\ rel > 0 /\ relsz > 0
      /\ rel + relsz = dynamic.relsz + 1 /\ (dynamic.gotsz > 0 => dynamic.addr)
      /\ \A m \in ImageRange : WordIs(m)
  BY DEF RelocInv, relocate_entry
<1>5. /\ rel' = rel + dynamic.relent /\ relsz' = relsz - dynamic.relent
      /\ image' = IF s \in Adding THEN [image EXCEPT ![n] = applied(image[n], table[k])] ELSE image
      /\ ~(machine = "ia64" /\ s = "FPTR")
      /\ relocated' # "scan" /\ relocated' # "success"
      /\ relocated' = "applying" => dynamic.relent # 0
  BY <1>1, <1>2, <1>3, <1>4 DEF relocate_entry
<1>6. /\ machine \in Machines /\ ldbase \in Nat /\ table \in RelocTables
      /\ image \in [ImageRange -> Nat] /\ dynamic.relent \in {0, 1}
      /\ dynamic.relsz = (IF dynamic.rel THEN Len(table) ELSE 0) /\ dynamic.gotsz \in Nat
  <2>1. dynamic.gotsz \in GotSizes
    BY <1>4 DEF RelocType
  <2>2. GotSizes \subseteq Nat
    BY RelocationAssumption
  <2>3. dynamic.gotsz \in Nat
    BY <2>1, <2>2, Zenon
  <2> QED
    BY <1>4, <2>3 DEF RelocType
<1>7. /\ DOMAIN table = 1 .. Len(table) /\ Len(table) \in Nat
      /\ \A j \in DOMAIN table : table[j].offset \in ImageRange
                                  /\ table[j].addend \in 0 .. WordSize - 1
      /\ \A w \in Nat : Added(w) \in 0 .. WordSize - 1
  BY <1>6, EntryFacts
<1>8. /\ k \in DOMAIN table /\ n \in ImageRange /\ table[k].addend \in Nat
      /\ Adding \subseteq Moving /\ ImageRange' = ImageRange
  <2>1. k \in DOMAIN table
    <3>1. dynamic.relsz \in 0 .. Len(table)
      BY <1>6, <1>7
    <3>2. PICK z : z = dynamic.relsz
      OBVIOUS
    <3>3. z \in Int /\ z <= Len(table) /\ rel + relsz = z + 1
      BY <1>4, <1>7, <3>1, <3>2
    <3>4. rel >= 1 /\ rel <= Len(table)
      BY <1>4, <1>7, <3>3
    <3> QED
      BY <1>1, <1>4, <1>7, <3>4
  <2>2. \A a \in 0 .. WordSize - 1 : a \in Nat
    BY RelocationAssumption
  <2> QED
    BY <1>2, <1>7, <2>1, <2>2 DEF Adding, Moving, ImageRange
<1>9. applied(image[n], table[k]) \in 0 .. WordSize - 1
  BY <1>6, <1>7, <1>8 DEF applied
<1>10. /\ image' \in [ImageRange -> Nat]
       /\ \A m \in ImageRange : image'[m] = IF s \in Adding /\ m = n THEN applied(image[n], table[k])
                                            ELSE image[m]
  <2>1. applied(image[n], table[k]) \in Nat
    BY <1>9, RelocationAssumption
  <2> QED
    BY <1>5, <1>6, <1>8, <2>1
<1>11. RelocType'
  BY <1>4, <1>10, <1>8 DEF RelocType, Keep
<1>12. OwnDescriptors'
  BY <1>4, <1>9, <1>10, OwnKept
<1>13. ASSUME relocated' = "applying", NEW m \in ImageRange
       PROVE  WordIs(m)'
  <2>1. WordIs(m) /\ rel' = rel + 1
    BY <1>4, <1>5, <1>6, <1>13
  <2>2. /\ Added(Meant(m))' = Added(Meant(m)) /\ Linked(m)' = Linked(m) /\ Adding' = Adding
        /\ dynamic' = dynamic /\ machine' = machine
        /\ \A types, j : Entries(types, j)' = Entries(types, j)
        /\ \A w : Added(w)' = Added(w) /\ table' = table
    BY <1>4, SameTable DEF Keep, Added
  <2>3. machine = "ia64" => (Done({"FPTR"}, m)' <=> Done({"FPTR"}, m))
    BY <1>1, <1>3, <1>4, <1>5, <2>1, PassedOver
  <2>4. CASE s \in Adding /\ m = n
    <3>1. /\ \A types : types \subseteq Moving => ~Done(types, n)
          /\ \A types : s \in types => Done(types, n)'
      BY <1>1, <1>2, <1>3, <1>4, <1>8, <2>1, <2>4, NextEntry
    <3>2. Meant(n) = table[k].addend
          /\ Linked(n) = IF machine \in FromTable THEN 0 ELSE table[k].addend
      BY <1>2, <1>3, <1>4, <1>8, <2>4, OneEntry
    <3>3. ~Done(Adding, n) /\ ~Done({"FPTR"}, n) /\ Done(Adding, n)'
      <4>1. {"FPTR"} \subseteq Moving
        BY DEF Moving
      <4> QED
        BY <1>8, <2>2, <2>4, <3>1, <4>1
    <3>4. ~(dynamic.addr /\ n < dynamic.gotsz)
      <4>1. CASE machine = "mips64el"
        <5>1. s = "RELATIVE"
          BY <2>4, <4>1 DEF Adding
        <5>2. n >= dynamic.gotsz
          BY <1>2, <1>3, <1>4, <1>6, <1>8, <4>1, <5>1 DEF WordsNamedOnce, RelocType
        <5> QED
          BY <1>6, <1>8, <5>2 DEF ImageRange
      <4> QED
        BY <1>4, <4>1 DEF RelocType
    <3>5. image[n] = Linked(n)
      BY <1>4, <1>6, <2>1, <2>4, <3>3, <3>4 DEF WordIs
    <3>6. image'[n] = Added(Meant(n))
      BY <1>8, <1>10, <2>4, <3>2, <3>5 DEF applied
    <3> QED
      BY <2>2, <2>3, <2>4, <3>3, <3>6 DEF WordIs
  <2>5. CASE ~(s \in Adding /\ m = n)
    <3>1. Done(Adding, m)' <=> Done(Adding, m)
      <4>1. CASE s \notin Adding
        BY <1>1, <1>3, <1>4, <2>1, <2>2, <4>1, PassedOver
      <4>2. CASE s \in Adding
        <5>1. m # n
          BY <2>5, <4>2
        <5>2. \A types, j : j # n => (Done(types, j)' <=> Done(types, j))
          BY <1>1, <1>2, <1>3, <1>4, <1>8, <2>1, <4>2, NextEntry
        <5> QED
          BY <2>2, <5>1, <5>2
      <4> QED
        BY <4>1, <4>2
    <3>2. image'[m] = image[m] /\ fptr' = fptr /\ gotsz' = gotsz
      BY <1>4, <1>10, <2>5
    <3> QED
      BY <2>1, <2>2, <2>3, <3>1, <3>2 DEF WordIs
  <2> QED
    BY <2>4, <2>5
<1>14. ASSUME relocated' = "applying"
       PROVE  /\ rel' \in Nat /\ relsz' \in Nat /\ rel' > 0 /\ rel' + relsz' = dynamic'.relsz + 1
              /\ gotsz' \in 0 .. dynamic'.gotsz /\ (dynamic'.gotsz > 0 => dynamic'.addr)
  <2>1. rel' = rel + 1 /\ relsz' = relsz - 1 /\ dynamic' = dynamic
    BY <1>4, <1>5, <1>6, <1>14 DEF Keep
  <2>2. dynamic.relsz \in Nat /\ dynamic.gotsz \in Nat
    BY <1>6, <1>7
  <2> QED
    BY <1>4, <2>1, <2>2
<1> QED
  BY <1>5, <1>8, <1>11, <1>12, <1>13, <1>14 DEF RelocInv, RelocatedOnce

LEMMA FptrKeeps == WordsNamedOnce /\ RelocInv /\ apply_FPTR64 => RelocInv'
<1> SUFFICES ASSUME WordsNamedOnce, RelocInv, apply_FPTR64 PROVE RelocInv'
  OBVIOUS
<1>1. PICK k : k = rel
  OBVIOUS
<1>2. PICK n : n = table[k].offset
  OBVIOUS
<1>3. /\ RelocType /\ OwnDescriptors /\ Keep /\ relocated = "applying"
      /\ gotsz' = gotsz /\ machine = "ia64"
      /\ rel \in Nat /\ relsz \in Nat /\ rel > 0 /\ relsz > 0
      /\ rel + relsz = dynamic.relsz + 1
      /\ gotsz \in 0 .. dynamic.gotsz /\ (dynamic.gotsz > 0 => dynamic.addr)
      /\ \A m \in ImageRange : WordIs(m)
  BY DEF RelocInv, apply_FPTR64
<1>4. /\ table[k].type = "FPTR"
      /\ rel' = rel + dynamic.relent /\ relsz' = relsz - dynamic.relent
      /\ image' = [image EXCEPT ![n] = Descriptor(Len(fptr) + 1)]
      /\ \/ relocated' = "buffer_too_small" /\ fptr' = fptr
         \/ relocated' = "applying" /\ fptr' = Append(fptr, Added(table[k].addend))
  BY <1>1, <1>2, <1>3 DEF apply_FPTR64
<1>5. /\ ldbase \in Nat /\ table \in RelocTables /\ dynamic.relent = 1 /\ ~dynamic.addr
      /\ image \in [ImageRange -> Nat] /\ fptr \in Seq(Nat) /\ dynamic.relsz = Len(table)
  BY <1>3 DEF RelocType
<1>6. DOMAIN table = 1 .. Len(table) /\ Len(table) \in Nat
      /\ \A w \in Nat : Added(w) \in 0 .. WordSize - 1
  BY <1>5, EntryFacts
<1>7. /\ rel' = rel + 1 /\ relsz' = relsz - 1 /\ k \in DOMAIN table
      /\ rel' + relsz' = dynamic.relsz + 1
  <2>1. rel + relsz = Len(table) + 1
    BY <1>3, <1>5
  <2>2. rel' = rel + 1 /\ relsz' = relsz - 1
    BY <1>4, <1>5
  <2>3. k \in 1 .. Len(table) /\ rel' + relsz' = Len(table) + 1
    <3>1. PICK y \in Nat : y = Len(table)
      BY <1>6
    <3>2. k <= y /\ k >= 1 /\ rel + 1 + (relsz - 1) = y + 1
      BY <1>1, <1>3, <2>1, <3>1
    <3>3. k \in 1 .. y
      BY <1>1, <1>3, <3>1, <3>2
    <3> QED
      BY <2>2, <3>1, <3>2, <3>3
  <2> QED
    BY <1>5, <1>6, <2>2, <2>3
<1>8. table[k].type \in Moving /\ {"FPTR"} \subseteq Moving /\ ImageRange' = ImageRange
  BY <1>4 DEF Moving, ImageRange
<1>9. /\ n \in ImageRange /\ table[k].addend \in 0 .. WordSize - 1
      /\ Done({"FPTR"}, n)'
      /\ \A types, m : m # n => (Done(types, m)' <=> Done(types, m))
  <2>1. /\ \A types : table[k].type \in types => Done(types, n)'
        /\ n \in ImageRange /\ table[k].addend \in 0 .. WordSize - 1
        /\ \A types, m : m # n => (Done(types, m)' <=> Done(types, m))
    BY <1>1, <1>2, <1>3, <1>7, <1>8, NextEntry
  <2> QED
    BY <1>4, <2>1
<1>10. /\ Added(table[k].addend) \in Nat /\ WordSize \in Nat /\ Len(fptr) \in Nat
       /\ Descriptor(Len(fptr) + 1) = WordSize + Len(fptr) + 1
  <2>1. WordSize \in Nat /\ Len(fptr) \in Nat
    BY <1>5, RelocationAssumption
  <2>2. \A a \in 0 .. WordSize - 1 : a \in Nat
    BY <2>1
  <2>3. Added(table[k].addend) \in Nat
    BY <1>6, <1>9, <2>2
  <2> QED
    BY <2>1, <2>3 DEF Descriptor
<1>11. /\ image' \in [ImageRange -> Nat]
       /\ \A m \in ImageRange : image'[m] = IF m = n THEN WordSize + Len(fptr) + 1 ELSE image[m]
  BY <1>4, <1>5, <1>9, <1>10
<1>12. fptr' \in Seq(Nat)
  <2>1. PICK v : v = Added(table[k].addend)
    OBVIOUS
  <2>2. v \in Nat /\ fptr \in Seq(Nat) /\ (fptr' = fptr \/ fptr' = Append(fptr, v))
    BY <1>4, <1>5, <1>10, <2>1
  <2> QED
    BY <2>2
<1>13. RelocType'
  BY <1>3, <1>8, <1>11, <1>12 DEF RelocType, Keep
<1>14. ASSUME relocated' = "applying"
       PROVE  OwnDescriptors' /\ \A m \in ImageRange : WordIs(m)'
  <2>1. /\ Len(fptr') = Len(fptr) + 1 /\ DOMAIN fptr' = 1 .. Len(fptr) + 1
        /\ fptr'[Len(fptr) + 1] = Added(table[k].addend)
        /\ \A j \in DOMAIN fptr : j \in DOMAIN fptr' /\ fptr'[j] = fptr[j]
        /\ Len(fptr) + 1 \in DOMAIN fptr'
    <3>1. PICK v : v = Added(table[k].addend)
      OBVIOUS
    <3>2. v \in Nat /\ fptr' = Append(fptr, v)
      BY <1>4, <1>10, <1>14, <3>1
    <3> QED
      BY <1>5, <3>1, <3>2
  <2>2. OwnDescriptors'
    <3>1. \A m \in ImageRange : image[m] \in Nat /\ image[m] <= WordSize + Len(fptr)
      BY <1>3, <1>5 DEF OwnDescriptors
    <3>2. \A m \in ImageRange : image'[m] <= WordSize + Len(fptr')
      BY <1>10, <1>11, <2>1, <3>1
    <3>3. ASSUME NEW m \in ImageRange, NEW j \in ImageRange,
                 image'[m] = image'[j], image'[m] > WordSize
          PROVE  m = j
      <4>1. CASE m = n \/ j = n
        BY <1>10, <1>11, <3>1, <3>3, <4>1
      <4>2. CASE m # n /\ j # n
        BY <1>3, <1>11, <3>3, <4>2 DEF OwnDescriptors
      <4> QED
        BY <4>1, <4>2
    <3> QED
      BY <1>8, <3>2, <3>3 DEF OwnDescriptors
  <2>3. /\ Adding' = Adding /\ \A types, j : Entries(types, j)' = Entries(types, j)
        /\ \A j : Linked(j)' = Linked(j) /\ Meant(j)' = Meant(j)
        /\ \A w : Added(w)' = Added(w) /\ dynamic' = dynamic /\ machine' = machine /\ table' = table
    BY <1>3, SameTable DEF Keep
  <2>4. WordIs(n)'
    <3>1. k \in Entries({"FPTR"}, n)
      BY <1>2, <1>4, <1>7 DEF Entries
    <3>2. image'[n] = Descriptor(Len(fptr) + 1) /\ machine' = "ia64"
      BY <1>3, <1>9, <1>10, <1>11, <2>3
    <3>3. \E e \in Entries({"FPTR"}, n), j \in DOMAIN fptr' :
             image'[n] = Descriptor(j) /\ fptr'[j] = Added(table[e].addend)
      BY <2>1, <3>1, <3>2
    <3>4. \A j : Descriptor(j)' = Descriptor(j)
      BY DEF Descriptor
    <3>5. \E e \in Entries({"FPTR"}, n)', j \in DOMAIN fptr' :
             image'[n] = Descriptor(j) /\ fptr'[j] = Added(table[e].addend)'
      BY <2>3, <3>3
    <3> QED
      BY <1>9, <3>2, <3>5 DEF WordIs
  <2>5. ASSUME NEW m \in ImageRange, m # n PROVE WordIs(m)'
    <3>1. /\ WordIs(m) /\ image'[m] = image[m] /\ ~dynamic.addr
          /\ Done({"FPTR"}, m)' <=> Done({"FPTR"}, m)
          /\ Done(Adding, m)' <=> Done(Adding, m)
      BY <1>3, <1>5, <1>9, <1>11, <2>3, <2>5
    <3>2. CASE Done({"FPTR"}, m)
      <4>1. \E e \in Entries({"FPTR"}, m), j \in DOMAIN fptr :
               image[m] = Descriptor(j) /\ fptr[j] = Added(table[e].addend)
        BY <1>3, <3>1, <3>2 DEF WordIs
      <4>2. \E e \in Entries({"FPTR"}, m)', j \in DOMAIN fptr' :
               image'[m] = Descriptor(j) /\ fptr'[j] = Added(table[e].addend)'
        BY <2>1, <2>3, <3>1, <4>1
      <4> QED
        BY <1>3, <2>3, <3>1, <3>2, <4>2 DEF WordIs
    <3>3. CASE ~Done({"FPTR"}, m)
      BY <2>3, <3>1, <3>3 DEF WordIs
    <3> QED
      BY <3>2, <3>3
  <2> QED
    BY <2>2, <2>4, <2>5
<1>15. /\ rel' \in Nat /\ relsz' \in Nat /\ rel' > 0 /\ rel' + relsz' = dynamic'.relsz + 1
       /\ gotsz' \in 0 .. dynamic'.gotsz /\ (dynamic'.gotsz > 0 => dynamic'.addr)
  BY <1>3, <1>7 DEF Keep
<1> QED
  BY <1>4, <1>8, <1>13, <1>14, <1>15 DEF RelocInv, RelocatedOnce

LEMMA ReturnKeeps == RelocInv /\ relocate_return => RelocInv'
<1> SUFFICES ASSUME RelocInv, relocate_return PROVE RelocInv'
  OBVIOUS
<1>1. /\ RelocType /\ OwnDescriptors /\ Keep /\ image' = image /\ fptr' = fptr
      /\ gotsz = 0 /\ relocated' = "success" /\ rel \in Nat /\ rel = dynamic.relsz + 1
      /\ \A n \in ImageRange : WordIs(n)
  BY DEF RelocInv, relocate_return
<1>2. RelocType'
  BY <1>1 DEF RelocType, ImageRange, Keep
<1>3. /\ DOMAIN table = 1 .. Len(table) /\ Len(table) \in Nat
      /\ dynamic.relsz = (IF dynamic.rel THEN Len(table) ELSE 0)
      /\ WordSize \in Nat /\ fptr \in Seq(Nat)
      /\ (machine = "ia64" => dynamic.rel)
  BY <1>1, EntryFacts, RelocationAssumption DEF RelocType
<1>4. \A types, n : Done(types, n) <=> dynamic.rel /\ Entries(types, n) # {}
  <2> SUFFICES ASSUME NEW types, NEW n
               PROVE  Done(types, n) <=> dynamic.rel /\ Entries(types, n) # {}
    OBVIOUS
  <2>1. Entries(types, n) \subseteq 1 .. Len(table)
    BY <1>3 DEF Entries
  <2>2. CASE dynamic.rel
    BY <1>1, <1>3, <2>1, <2>2 DEF Done
  <2>3. CASE ~dynamic.rel
    BY <1>1, <1>3, <2>1, <2>3 DEF Done
  <2> QED
    BY <2>2, <2>3
<1>5. ASSUME NEW n \in ImageRange
      PROVE  IF machine = "ia64" /\ Entries({"FPTR"}, n) # {}
             THEN \E k \in DOMAIN fptr :
                    /\ image[n] = Descriptor(k)
                    /\ \E e \in Entries({"FPTR"}, n) : fptr[k] = Added(table[e].addend)
                    /\ \A m \in ImageRange : image[m] = image[n] => m = n
             ELSE image[n] = IF \/ dynamic.addr /\ n < dynamic.gotsz
                                \/ dynamic.rel /\ Entries(Adding, n) # {}
                             THEN Added(Meant(n)) ELSE Linked(n)
  <2>1. WordIs(n) /\ dynamic.gotsz - gotsz = dynamic.gotsz
    <3>1. dynamic.gotsz \in Nat
      <4>1. dynamic.gotsz \in GotSizes /\ GotSizes \subseteq Nat
        BY <1>1, RelocationAssumption DEF RelocType
      <4> QED
        BY <4>1, Zenon
    <3> QED
      BY <1>1, <3>1
  <2>2. CASE machine = "ia64" /\ Entries({"FPTR"}, n) # {}
    <3>1. PICK e \in Entries({"FPTR"}, n), k \in DOMAIN fptr :
            image[n] = Descriptor(k) /\ fptr[k] = Added(table[e].addend)
      BY <1>3, <1>4, <2>1, <2>2 DEF WordIs
    <3>2. image[n] > WordSize
      BY <1>3, <3>1 DEF Descriptor
    <3>3. \A m \in ImageRange : image[m] = image[n] => m = n
      BY <1>1, <3>2 DEF OwnDescriptors
    <3> QED
      BY <2>2, <3>1, <3>3
  <2>3. CASE ~(machine = "ia64" /\ Entries({"FPTR"}, n) # {})
    BY <1>3, <1>4, <2>1, <2>3 DEF WordIs
  <2> QED
    BY <2>2, <2>3
<1>6. RelocatedOnce'
  <2>1. RelocatedOnce' <=> \A n \in ImageRange :
             (IF machine = "ia64" /\ Entries({"FPTR"}, n) # {}
             THEN \E k \in DOMAIN fptr :
                    /\ image[n] = Descriptor(k)
                    /\ \E e \in Entries({"FPTR"}, n) : fptr[k] = Added(table[e].addend)
                    /\ \A m \in ImageRange : image[m] = image[n] => m = n
             ELSE image[n] = IF \/ dynamic.addr /\ n < dynamic.gotsz
                                \/ dynamic.rel /\ Entries(Adding, n) # {}
                             THEN Added(Meant(n)) ELSE Linked(n))
    BY <1>1 DEF RelocatedOnce, ImageRange, Keep, Entries, Adding, Meant, Linked, Added, Descriptor
  <2> QED
    BY <1>5, <2>1
<1> QED
  BY <1>1, <1>2, <1>6 DEF RelocInv

LEMMA RelocStutters == RelocInv /\ UNCHANGED reloc_vars => RelocInv'
<1> SUFFICES ASSUME RelocInv, UNCHANGED reloc_vars PROVE RelocInv'
  OBVIOUS
<1>1. /\ Keep /\ image' = image /\ fptr' = fptr /\ rel' = rel /\ gotsz' = gotsz
      /\ relsz' = relsz /\ relocated' = relocated /\ machine' = machine /\ dynamic' = dynamic
      /\ table' = table /\ ldbase' = ldbase
  BY DEF reloc_vars, Keep
<1>2. RelocType' /\ ImageRange' = ImageRange
  BY <1>1 DEF RelocInv, RelocType, ImageRange
<1>3. OwnDescriptors' <=> OwnDescriptors
  BY <1>1 DEF OwnDescriptors, ImageRange
<1>4. \A n : WordIs(n)' <=> WordIs(n)
  BY <1>1 DEF WordIs, Done, Entries, Adding, Meant, Linked, Added, Descriptor
<1>5. RelocatedOnce' <=> RelocatedOnce
  BY <1>1 DEF RelocatedOnce, Entries, Adding, Meant, Linked, Added, Descriptor
<1>6. image = [n \in ImageRange |-> Linked(n)] => image' = [n \in ImageRange' |-> Linked(n)']
  BY <1>1, <1>2, SameTable
<1> QED
  BY <1>1, <1>2, <1>3, <1>4, <1>5, <1>6 DEF RelocInv

\* An image said to be relocated is: for any image, table and load address, on every
\* architecture, if the linker names a word only once (reloc_*.c, _relocate).
THEOREM RelocatesOnce == ASSUME WordsNamedOnce PROVE RelocSpec => []RelocatedOnce
<1>1. RelocInv /\ [RelocNext]_reloc_vars => RelocInv'
  <2>1. RelocInv /\ UNCHANGED reloc_vars => RelocInv'
    BY RelocStutters
  <2> QED
    BY <2>1, WordsNamedOnce, ScanKeeps, GotKeeps, EntryKeeps, FptrKeeps, ReturnKeeps DEF RelocNext
<1>2. RelocInv => RelocatedOnce
  BY DEF RelocInv
<1> QED
  BY <1>1, <1>2, RelocStart, PTL DEF RelocSpec

-------------------------------------------------------------------------------
(***************************************************************************)
(* A session (EfiSession).  Its parts share no state but which of them a   *)
(* behaviour is about, and what runs.                                      *)
(***************************************************************************)
DoingInv ==
  /\ doing \in [about : {"input", "dump", "wait", "init", "runtime"},
                now : {"none", "input", "dump", "round", "waiting", "language", "collation", "convert"},
                caller : {"none", "dump"}]
  /\ \/ doing.now = "none" /\ doing.caller = "none"
     \/ doing.about = "input" /\ doing.now = "input" /\ doing.caller = "none"
     \/ doing.about = "dump" /\ doing.now = "dump" /\ doing.caller = "none"
     \/ doing.about = "dump" /\ doing.now = "input" /\ doing.caller = "dump"
     \/ doing.about = "wait" /\ doing.now \in {"round", "waiting"} /\ doing.caller = "none"
     \/ doing.about = "init" /\ doing.now \in {"language", "collation"} /\ doing.caller = "none"
     \/ doing.about = "runtime" /\ doing.now = "convert" /\ doing.caller = "none"

InputStep ==
  \/ call_input \/ IInput_backspace \/ IInput_character \/ IInput_ignored
  \/ (doing.caller # "dump" /\ IInput_end)
DumpStep == call_DumpHex \/ DumpHex_line \/ DumpHex_paused \/ DumpHex_end
WaitStep == call_wait \/ WaitForSingleEvent \/ WaitForSingleEvent_wakes
InitStep == InitializeLib \/ get_language \/ InitializeUnicodeSupport
RuntimeStep == RtLibEnableVirtualMappings \/ call_RtConvertList \/ RtConvertList

\* What a step does to the functions that run.
Moves(functions) == doing.now \in functions /\ doing'.now \in functions
Went(function) == doing' = [doing EXCEPT !.now = function, !.caller = doing.now]
Came == doing' = [doing EXCEPT !.now = doing.caller, !.caller = "none"]

LEMMA DoingKept ==
  ASSUME DoingInv, SessionNext
  PROVE  /\ DoingInv'
         /\ \/ InputStep /\ Moves({"none", "input"})
            \/ DumpStep /\ Moves({"none", "dump", "input"})
            \/ WaitStep /\ Moves({"none", "round", "waiting"})
            \/ InitStep /\ Moves({"none", "language", "collation"})
            \/ RuntimeStep /\ Moves({"none", "convert"})
<1>1. CASE InputStep
  <2>1. \/ doing.about = "input" /\ doing.now = "none" /\ Went("input")
        \/ doing.now = "input" /\ UNCHANGED doing
        \/ doing.now = "input" /\ doing.caller # "dump" /\ Came
    <3>1. call_input => doing.about = "input" /\ doing.now = "none" /\ Went("input")
      BY Zenon DEF call_input, Idle, Input, Calls, Went
    <3>2. IInput_backspace \/ IInput_character \/ IInput_ignored => doing.now = "input" /\ UNCHANGED doing
      BY Zenon DEF IInput_backspace, IInput_character, IInput_ignored, struck
    <3>3. IInput_end => doing.now = "input" /\ Came
      BY Zenon DEF IInput_end, Returns, Came
    <3> QED
      BY <1>1, <3>1, <3>2, <3>3 DEF InputStep
  <2> QED
    BY <1>1, <2>1 DEF DoingInv, Moves, Went, Came
<1>2. CASE DumpStep
  <2>1. \/ doing.about = "dump" /\ doing.now = "none" /\ Went("dump")
        \/ doing.now = "dump" /\ (UNCHANGED doing \/ Went("input") \/ Came)
        \/ doing.now = "input" /\ doing.caller = "dump" /\ Came
    <3>1. call_DumpHex => doing.about = "dump" /\ doing.now = "none" /\ Went("dump")
      BY Zenon DEF call_DumpHex, Idle, Calls, Went
    <3>2. DumpHex_line => doing.now = "dump" /\ (UNCHANGED doing \/ Went("input"))
      BY Zenon DEF DumpHex_line, Input, Calls, Went
    <3>3. DumpHex_paused => doing.now = "input" /\ doing.caller = "dump" /\ Came
      BY Zenon DEF DumpHex_paused, Returns, Came
    <3>4. DumpHex_end => doing.now = "dump" /\ Came
      BY Zenon DEF DumpHex_end, Returns, Came
    <3> QED
      BY <1>2, <3>1, <3>2, <3>3, <3>4 DEF DumpStep
  <2> QED
    BY <1>2, <2>1 DEF DoingInv, Moves, Went, Came
<1>3. CASE WaitStep
  <2>1. \/ doing.about = "wait" /\ doing.now = "none" /\ Went("round")
        \/ /\ doing.now \in {"round", "waiting"}
           /\ \/ doing' = [doing EXCEPT !.now = "round"]
              \/ doing' = [doing EXCEPT !.now = "waiting"]
              \/ Came
    <3>1. call_wait => doing.about = "wait" /\ doing.now = "none" /\ Went("round")
      BY Zenon DEF call_wait, Idle, Calls, Went
    <3>2. \A n : RoundEnds(n) => doing' = [doing EXCEPT !.now = "round"] \/ Came
      BY Zenon DEF RoundEnds, Returns, Came
    <3>3. WaitForSingleEvent =>
            /\ doing.now = "round"
            /\ \/ doing' = [doing EXCEPT !.now = "waiting"]
               \/ doing' = [doing EXCEPT !.now = "round"]
               \/ Came
      BY <3>2, Zenon DEF WaitForSingleEvent
    <3>4. WaitForSingleEvent_wakes =>
            doing.now = "waiting" /\ (doing' = [doing EXCEPT !.now = "round"] \/ Came)
      BY <3>2, Zenon DEF WaitForSingleEvent_wakes, Returns, Came
    <3> QED
      BY <1>3, <3>1, <3>3, <3>4 DEF WaitStep
  <2> QED
    BY <1>3, <2>1 DEF DoingInv, Moves, Went, Came
<1>4. CASE InitStep
  <2>1. \/ doing.about = "init" /\ doing.now = "none" /\ (Went("language") \/ UNCHANGED doing)
        \/ doing.now = "language" /\ doing' = [doing EXCEPT !.now = "collation"]
        \/ doing.now = "collation" /\ Came
    <3>1. InitializeLib =>
            doing.about = "init" /\ doing.now = "none" /\ (Went("language") \/ UNCHANGED doing)
      BY Zenon DEF InitializeLib, Idle, Calls, Went
    <3>2. get_language => doing.now = "language" /\ doing' = [doing EXCEPT !.now = "collation"]
      BY Zenon DEF get_language
    <3>3. InitializeUnicodeSupport => doing.now = "collation" /\ Came
      BY Zenon DEF InitializeUnicodeSupport, Returns, Came
    <3> QED
      BY <1>4, <3>1, <3>2, <3>3 DEF InitStep
  <2> QED
    BY <1>4, <2>1 DEF DoingInv, Moves, Went, Came
<1>5. CASE RuntimeStep
  <2>1. \/ doing.about = "runtime" /\ doing.now = "none" /\ (Went("convert") \/ UNCHANGED doing)
        \/ doing.now = "convert" /\ (Came \/ UNCHANGED doing)
    BY <1>5 DEF RuntimeStep, RtLibEnableVirtualMappings, call_RtConvertList, RtConvertList,
       Idle, Calls, Returns, Went, Came
  <2> QED
    BY <1>5, <2>1 DEF DoingInv, Moves, Went, Came
<1> QED
  BY <1>1, <1>2, <1>3, <1>4, <1>5
     DEF SessionNext, InputStep, DumpStep, WaitStep, InitStep, RuntimeStep

-------------------------------------------------------------------------------
\* The line: what the user sees of it is what the buffer holds.
LineInv ==
  /\ line \in [StrLen : Nat, Len : 0 .. MaxKeys, struck : 0 .. MaxKeys,
               InStr : [LineCells -> Keys \union {Terminator, Unwritten}]]
  /\ line.Len <= line.struck
  /\ line.StrLen > 0 => /\ line.Len < line.StrLen
                        /\ \A n \in LineCells : n >= line.StrLen => line.InStr[n] = Unwritten
  /\ \A n \in 0 .. line.Len - 1 : line.InStr[n] \in Keys
  /\ doing.now # "input" /\ line.InStr[0] # Unwritten => line.InStr[line.Len] = Terminator

ScreenInv ==
  doing.now = "input" =>
    /\ screen \in [cells : Seq(Keys \union {Blank}), at : Nat] /\ screen.at = line.Len + 1
    /\ line.Len <= Len(screen.cells)
    /\ \A n \in 0 .. line.Len - 1 : line.InStr[n] = screen.cells[n + 1]

\* A character is written where the cursor is; before it nothing changes.
Shows(S, s, c, t) ==
  /\ t \in [cells : Seq(S), at : Nat] /\ t.at = s.at + 1
  /\ Len(t.cells) >= s.at /\ t.cells[s.at] = c
  /\ \A k \in 1 .. s.at - 1 : t.cells[k] = s.cells[k]

LEMMA DisplayedCells ==
  ASSUME NEW S, NEW s \in [cells : Seq(S), at : Nat], s.at \in 1 .. Len(s.cells) + 1, NEW c \in S
  PROVE  Shows(S, s, c, Displayed(s, c))
<1> DEFINE a == SubSeq(s.cells, 1, s.at - 1)
           b == SubSeq(s.cells, s.at + 1, Len(s.cells))
           m == a \o <<c>>
<1>1. s.cells \in Seq(S) /\ s.at \in Nat /\ Len(s.cells) \in Nat
  OBVIOUS
<1>2. a \in Seq(S) /\ Len(a) = s.at - 1 /\ \A k \in 1 .. s.at - 1 : a[k] = s.cells[k]
  BY <1>1
<1>3. b \in Seq(S) /\ Len(b) \in Nat
  BY <1>1
<1> HIDE DEF a, b
<1>4. m \in Seq(S) /\ Len(m) = s.at /\ m[s.at] = c /\ \A k \in 1 .. s.at - 1 : m[k] = a[k]
  BY <1>1, <1>2
<1> HIDE DEF m
<1>5. m \o b \in Seq(S) /\ Len(m \o b) >= s.at /\ \A k \in 1 .. s.at : (m \o b)[k] = m[k]
  BY <1>1, <1>3, <1>4
<1>6. Displayed(s, c) = [cells |-> m \o b, at |-> s.at + 1]
  BY DEF Displayed, a, b, m
<1> QED
  BY <1>1, <1>2, <1>4, <1>5, <1>6 DEF Shows

LEMMA LineOpens ==
  ASSUME LineInv, NEW StrLen_ \in Nat, Input(StrLen_)
  PROVE  LineInv' /\ ScreenInv'
<1>1. /\ line' = [line EXCEPT !.StrLen = StrLen_, !.Len = 0, !.InStr = [n \in LineCells |-> Unwritten]]
      /\ screen' = [cells |-> << >>, at |-> 1]
  BY DEF Input
<1> DEFINE none == [n \in LineCells |-> Unwritten]
           line_type == [StrLen : Nat, Len : 0 .. MaxKeys, struck : 0 .. MaxKeys,
                         InStr : [LineCells -> Keys \union {Terminator, Unwritten}]]
<1>2. line'.StrLen = StrLen_ /\ line'.Len = 0 /\ line'.struck = line.struck /\ line' \in line_type
  <2>1. none \in [LineCells -> Keys \union {Terminator, Unwritten}] /\ 0 \in 0 .. MaxKeys
    BY SessionAssumption
  <2>2. line' = [line EXCEPT !.StrLen = StrLen_, !.Len = 0, !.InStr = none]
    BY <1>1
  <2> HIDE DEF none
  <2> QED
    BY <2>1, <2>2 DEF LineInv
<1>3. 0 \in LineCells
  BY SessionAssumption DEF LineCells
<1>4. << >> \in Seq(Keys \union {Blank}) /\ Len(<< >>) = 0
  OBVIOUS
<1> QED
  BY <1>1, <1>2, <1>3, <1>4 DEF LineInv, ScreenInv

LEMMA LineEnds ==
  ASSUME LineInv, line' = [line EXCEPT !.InStr[line.Len] = Terminator], doing'.now # "input"
  PROVE  LineInv' /\ ScreenInv'
<1>1. line.Len \in LineCells /\ line.Len \in Nat
  BY SessionAssumption DEF LineInv, LineCells
<1>2. /\ line'.StrLen = line.StrLen /\ line'.Len = line.Len /\ line'.struck = line.struck
      /\ line'.InStr = [line.InStr EXCEPT ![line.Len] = Terminator]
      /\ line' \in [StrLen : Nat, Len : 0 .. MaxKeys, struck : 0 .. MaxKeys,
                    InStr : [LineCells -> Keys \union {Terminator, Unwritten}]]
  BY <1>1 DEF LineInv
<1>3. line'.InStr[line.Len] = Terminator
  BY <1>1, <1>2 DEF LineInv
<1>4. \A n \in LineCells : n # line.Len => line'.InStr[n] = line.InStr[n]
  BY <1>1, <1>2 DEF LineInv
<1>5. \A n \in 0 .. line.Len - 1 : n \in LineCells /\ n # line.Len
  BY SessionAssumption DEF LineInv, LineCells
<1> QED
  BY <1>1, <1>2, <1>3, <1>4, <1>5 DEF LineInv, ScreenInv

LEMMA LineShortens ==
  ASSUME LineInv, ScreenInv, IInput_backspace
  PROVE  LineInv' /\ ScreenInv'
<1>1. doing.now = "input" /\ doing' = doing /\ line.struck < MaxKeys
  BY DEF IInput_backspace, struck
<1>2. CASE line.Len = 0
  <2>1. screen' = screen /\ line' = [line EXCEPT !.struck = @ + 1]
    BY <1>2 DEF IInput_backspace, some_input
  <2> QED
    BY <1>1, <2>1, SessionAssumption DEF LineInv, ScreenInv
<1>3. CASE line.Len # 0
  <2>1. /\ screen' = Back(Displayed(Back(screen), Blank))
        /\ line' = [line EXCEPT !.Len = @ - 1, !.struck = @ + 1]
    BY <1>3 DEF IInput_backspace, some_input
  <2>2. LineInv'
    <3>1. line.Len - 1 \in 0 .. MaxKeys /\ line.struck + 1 \in 0 .. MaxKeys /\ line.Len \in Nat
      BY <1>1, <1>3, SessionAssumption DEF LineInv
    <3>2. /\ line'.Len = line.Len - 1 /\ line'.struck = line.struck + 1
          /\ line'.StrLen = line.StrLen /\ line'.InStr = line.InStr
          /\ line' \in [StrLen : Nat, Len : 0 .. MaxKeys, struck : 0 .. MaxKeys,
                        InStr : [LineCells -> Keys \union {Terminator, Unwritten}]]
      BY <2>1, <3>1 DEF LineInv
    <3> QED
      BY <1>1, <3>1, <3>2, SessionAssumption DEF LineInv
  <2> DEFINE s == Back(screen)
             t == Displayed(s, Blank)
             S == Keys \union {Blank}
  <2>3. s \in [cells : Seq(S), at : Nat] /\ s.at = line.Len /\ s.cells = screen.cells
    BY <1>1, <1>3 DEF ScreenInv, LineInv, Back
  <2>4. s.at \in 1 .. Len(s.cells) + 1 /\ Blank \in S
    BY <1>1, <1>3, <2>3 DEF ScreenInv, LineInv
  <2> HIDE DEF s
  <2>5. /\ t \in [cells : Seq(S), at : Nat] /\ t.at = s.at + 1 /\ Len(t.cells) >= s.at
        /\ \A k \in 1 .. s.at - 1 : t.cells[k] = s.cells[k]
    <3> HIDE DEF S
    <3>1. Shows(S, s, Blank, t)
      BY <2>3, <2>4, DisplayedCells
    <3> QED
      BY <3>1 DEF Shows
  <2> HIDE DEF t
  <2>6. screen' = [t EXCEPT !.at = @ - 1]
    BY <2>1 DEF Back, s, t
  <2>7. screen' \in [cells : Seq(S), at : Nat] /\ screen'.at = line.Len /\ screen'.cells = t.cells
    <3>1. t.at - 1 = line.Len /\ line.Len \in Nat
      BY <1>3, <2>3, <2>5 DEF LineInv
    <3>2. screen' = [t EXCEPT !.at = line.Len]
      BY <2>6, <3>1
    <3> HIDE DEF S
    <3> QED
      BY <2>5, <3>1, <3>2
  <2>8. line'.Len = line.Len - 1 /\ line'.InStr = line.InStr
    BY <2>1 DEF LineInv
  <2> QED
    <3>1. /\ line.Len \in Nat \ {0}
          /\ \A n \in 0 .. line.Len - 1 : line.InStr[n] = screen.cells[n + 1]
      BY <1>1, <1>3 DEF ScreenInv, LineInv
    <3>2. \A n \in 0 .. line.Len - 1 - 1 : line.InStr[n] = t.cells[n + 1]
      BY <2>3, <2>5, <3>1
    <3>3. line'.Len <= Len(screen'.cells)
      BY <2>3, <2>5, <2>7, <2>8, <3>1
    <3> HIDE DEF S
    <3> QED
      BY <2>2, <2>7, <2>8, <3>1, <3>2, <3>3 DEF ScreenInv, S
<1> QED
  BY <1>2, <1>3

LEMMA LineGrows ==
  ASSUME LineInv, ScreenInv, IInput_character
  PROVE  LineInv' /\ ScreenInv'
<1>1. doing.now = "input" /\ doing' = doing /\ line.struck < MaxKeys
  BY Zenon DEF IInput_character, struck
<1>2. CASE ~Room
  <2>1. screen' = screen /\ line' = [line EXCEPT !.struck = @ + 1]
    BY <1>2 DEF IInput_character
  <2> QED
    BY <1>1, <2>1, SessionAssumption DEF LineInv, ScreenInv
<1>3. CASE Room
  <2>1. PICK Key \in Keys :
          /\ screen' = Displayed(screen, Key)
          /\ line' = [line EXCEPT !.InStr = [@ EXCEPT ![line.Len] = Key, ![line.Len + 1] = Terminator],
                                  !.Len = @ + 1, !.struck = @ + 1]
    BY <1>3, Zenon DEF IInput_character
  <2> DEFINE S == Keys \union {Blank}
             cells == [line.InStr EXCEPT ![line.Len] = Key, ![line.Len + 1] = Terminator]
  <2>2. line.Len \in LineCells /\ line.Len + 1 \in LineCells /\ line.Len \in Nat /\ line.Len + 1 <= MaxKeys
    BY <1>1, SessionAssumption DEF LineInv, LineCells
  <2>3. /\ cells \in [LineCells -> Keys \union {Terminator, Unwritten}]
        /\ cells[line.Len] = Key /\ cells[line.Len + 1] = Terminator
        /\ \A n \in LineCells : n \notin {line.Len, line.Len + 1} => cells[n] = line.InStr[n]
    BY <2>2 DEF LineInv
  <2>4. line' = [line EXCEPT !.InStr = cells, !.Len = line.Len + 1, !.struck = line.struck + 1]
    BY <2>1, Zenon
  <2> HIDE DEF cells
  <2>5. /\ line'.InStr = cells /\ line'.Len = line.Len + 1 /\ line'.struck = line.struck + 1
        /\ line'.StrLen = line.StrLen
        /\ line' \in [StrLen : Nat, Len : 0 .. MaxKeys, struck : 0 .. MaxKeys,
                      InStr : [LineCells -> Keys \union {Terminator, Unwritten}]]
    <3>1. line.Len + 1 \in 0 .. MaxKeys /\ line.struck + 1 \in 0 .. MaxKeys
      BY <1>1, <2>2, SessionAssumption DEF LineInv
    <3> QED
      BY <2>3, <2>4, <3>1 DEF LineInv
  <2>6. line.StrLen > 0 => line.Len + 1 < line.StrLen
    BY <1>3 DEF Room, LineInv
  <2>7. \A n \in 0 .. line.Len : cells[n] \in Keys /\ (n < line.Len => cells[n] = line.InStr[n])
    <3>1. \A n \in 0 .. line.Len : n \in LineCells /\ (n # line.Len => n < line.Len /\ n # line.Len + 1)
      BY <2>2, SessionAssumption DEF LineInv, LineCells
    <3>2. \A n \in 0 .. line.Len - 1 : line.InStr[n] \in Keys
      BY DEF LineInv
    <3>3. \A n \in 0 .. line.Len : n = line.Len \/ n \in 0 .. line.Len - 1
      BY <2>2 DEF LineInv
    <3> QED
      BY <2>2, <2>3, <3>1, <3>2, <3>3
  <2>8. LineInv'
    <3>1. line'.StrLen > 0 => \A n \in LineCells : n >= line'.StrLen => line'.InStr[n] = Unwritten
      BY <2>2, <2>3, <2>5, <2>6, SessionAssumption DEF LineInv, LineCells
    <3>2. \A n \in 0 .. line'.Len - 1 : line'.InStr[n] \in Keys
      BY <2>2, <2>5, <2>7
    <3>3. line'.Len <= line'.struck /\ (line'.StrLen > 0 => line'.Len < line'.StrLen)
      BY <2>5, <2>6 DEF LineInv
    <3> QED
      BY <1>1, <2>5, <3>1, <3>2, <3>3 DEF LineInv
  <2>9. screen \in [cells : Seq(S), at : Nat] /\ screen.at \in 1 .. Len(screen.cells) + 1 /\ Key \in S
    BY <1>1, <2>2 DEF ScreenInv
  <2>10. /\ screen' \in [cells : Seq(S), at : Nat] /\ screen'.at = screen.at + 1
         /\ Len(screen'.cells) >= screen.at /\ screen'.cells[screen.at] = Key
         /\ \A k \in 1 .. screen.at - 1 : screen'.cells[k] = screen.cells[k]
    <3> DEFINE t == Displayed(screen, Key)
    <3>1. /\ t \in [cells : Seq(S), at : Nat] /\ t.at = screen.at + 1
          /\ Len(t.cells) >= screen.at /\ t.cells[screen.at] = Key
          /\ \A k \in 1 .. screen.at - 1 : t.cells[k] = screen.cells[k]
      <4> HIDE DEF S
      <4>1. Shows(S, screen, Key, t)
        BY <2>9, DisplayedCells
      <4> QED
        BY <4>1 DEF Shows
    <3> HIDE DEF t
    <3>2. screen' = t
      BY <2>1 DEF t
    <3> QED
      BY <3>1, <3>2
  <2>11. screen.at = line.Len + 1 /\ \A n \in 0 .. line.Len - 1 : line.InStr[n] = screen.cells[n + 1]
    BY <1>1 DEF ScreenInv
  <2>12. \A n \in 0 .. line.Len : cells[n] = screen'.cells[n + 1]
    BY <2>2, <2>3, <2>7, <2>10, <2>11
  <2> QED
    BY <1>1, <2>2, <2>5, <2>8, <2>10, <2>11, <2>12 DEF ScreenInv
<1> QED
  BY <1>2, <1>3

LEMMA LineStays ==
  ASSUME LineInv, UNCHANGED <<line, screen>>, doing.now # "input", doing'.now # "input"
  PROVE  LineInv' /\ ScreenInv'
  BY DEF LineInv, ScreenInv

LEMMA LineStep ==
  ASSUME DoingInv, LineInv, ScreenInv, SessionNext
  PROVE  LineInv' /\ ScreenInv'
<1>1. CASE call_input
  <2>1. PICK StrLen_ \in LineSizes : Input(StrLen_)
    BY <1>1 DEF call_input
  <2> QED
    BY <2>1, SessionAssumption, LineOpens
<1>2. CASE IInput_backspace
  BY <1>2, LineShortens
<1>3. CASE IInput_character
  BY <1>3, LineGrows
<1>4. CASE IInput_ignored
  <2>1. /\ doing.now = "input" /\ doing' = doing /\ screen' = screen /\ line.struck < MaxKeys
        /\ line' = [line EXCEPT !.struck = @ + 1]
    BY <1>4 DEF IInput_ignored, struck
  <2> QED
    BY <2>1, SessionAssumption DEF LineInv, ScreenInv
<1>5. CASE (doing.caller # "dump" /\ IInput_end) \/ DumpHex_paused
  <2>1. doing.now = "input" /\ doing'.now = doing.caller
    <3>1. IInput_end => doing.now = "input" /\ Came
      BY Zenon DEF IInput_end, Returns, Came
    <3>2. DumpHex_paused => doing.now = "input" /\ Came
      BY Zenon DEF DumpHex_paused, Returns, Came
    <3> QED
      BY <1>5, <3>1, <3>2 DEF Came, DoingInv
  <2>2. line' = [line EXCEPT !.InStr[line.Len] = Terminator]
    BY <1>5, Zenon DEF IInput_end, DumpHex_paused
  <2> QED
    BY <2>1, <2>2, LineEnds DEF DoingInv
<1>6. CASE DumpHex_line
  <2>1. CASE Input(1)
    BY <2>1, LineOpens
  <2>2. CASE UNCHANGED <<doing, line, screen>> /\ doing.now = "dump"
    BY <2>2, LineStays
  <2> QED
    BY <1>6, <2>1, <2>2, Zenon DEF DumpHex_line
<1>7. CASE call_DumpHex \/ DumpHex_end
  <2>1. UNCHANGED <<line, screen>>
    BY <1>7, Zenon DEF call_DumpHex, DumpHex_end
  <2>2. doing.now # "input" /\ doing'.now # "input"
    <3>1. call_DumpHex => doing.now = "none" /\ Went("dump")
      BY Zenon DEF call_DumpHex, Idle, Calls, Went
    <3>2. DumpHex_end => doing.now = "dump" /\ Came
      BY Zenon DEF DumpHex_end, Returns, Came
    <3> QED
      BY <1>7, <3>1, <3>2 DEF Went, Came, DoingInv
  <2> QED
    BY <2>1, <2>2, LineStays
<1>8. CASE ~InputStep /\ ~DumpStep
  <2>1. WaitStep \/ InitStep \/ RuntimeStep
    BY <1>8 DEF SessionNext, InputStep, DumpStep, WaitStep, InitStep, RuntimeStep
  <2>2. UNCHANGED <<line, screen>>
    <3>1. WaitStep => UNCHANGED <<line, screen>>
      BY Zenon DEF WaitStep, call_wait, WaitForSingleEvent, WaitForSingleEvent_wakes
    <3>2. InitStep => UNCHANGED <<line, screen>>
      BY Zenon DEF InitStep, InitializeLib, get_language, InitializeUnicodeSupport
    <3>3. RuntimeStep => UNCHANGED <<line, screen>>
      BY Zenon DEF RuntimeStep, RtLibEnableVirtualMappings, call_RtConvertList, RtConvertList
    <3> QED
      BY <2>1, <3>1, <3>2, <3>3
  <2>3. doing.now # "input" /\ doing'.now # "input"
    BY <1>8, DoingKept DEF Moves
  <2> QED
    BY <2>2, <2>3, LineStays
<1> QED
  BY <1>1, <1>2, <1>3, <1>4, <1>5, <1>6, <1>7, <1>8 DEF SessionNext, InputStep, DumpStep

LEMMA LineMeans == LineInv /\ ScreenInv => LineIsTyped
<1> SUFFICES ASSUME LineInv, ScreenInv PROVE LineIsTyped
  OBVIOUS
<1>1. line.Len \in Nat
  BY SessionAssumption DEF LineInv
<1> QED
  BY <1>1 DEF LineIsTyped, LineInv, ScreenInv

-------------------------------------------------------------------------------
\* The dump: what is left starts where the last line ends, and no more lines are on the
\* screen than have been counted, but for those the user is being asked about.
DumpInv ==
  /\ dump \in [DataSize : Nat, all : Nat, Offset : Nat, ScreenCount : Nat, ScreenSize : Int,
               rows : Nat, lines : Seq([Offset : Nat, Size : Nat]), since : Nat]
  /\ dump.Offset = dump.all - dump.DataSize
  /\ \A n \in DOMAIN dump.lines :
       dump.lines[n].Offset + dump.lines[n].Size =
         IF n = Len(dump.lines) THEN dump.Offset ELSE dump.lines[n + 1].Offset
  /\ dump.lines # << >> => dump.lines[1].Offset = 0
  /\ dump.lines = << >> => dump.Offset = 0
  /\ dump.all > 0 => dump.ScreenSize = dump.rows - 2
  /\ dump.all = 0 => dump.since = 0 /\ dump.ScreenCount = 0 /\ dump.lines = << >>
  /\ dump.rows > 2 /\ dump.all > 0 =>
       /\ dump.ScreenCount < dump.ScreenSize
       /\ dump.since <= dump.ScreenSize
       /\ IF doing.now = "input" /\ doing.caller = "dump" THEN dump.ScreenCount = 0
                                                           ELSE dump.since = dump.ScreenCount

LEMMA DumpStays ==
  ASSUME DumpInv, dump' = dump,
         (doing'.now = "input" /\ doing'.caller = "dump") <=>
           (doing.now = "input" /\ doing.caller = "dump")
  PROVE  DumpInv'
  BY DEF DumpInv

LEMMA DumpStarts ==
  ASSUME DumpInv, call_DumpHex, DoingInv
  PROVE  DumpInv'
<1>1. doing.now = "none" /\ Went("dump") /\ dump.all = 0
  BY Zenon DEF call_DumpHex, Idle, Calls, Went
<1>2. PICK size_ \in DumpSizes, rows_ \in ScreenRows :
        dump' = [dump EXCEPT !.DataSize = size_, !.all = size_, !.rows = rows_, !.ScreenSize = rows_ - 2]
  BY Zenon DEF call_DumpHex
<1>3. size_ \in Nat /\ rows_ \in Nat /\ rows_ - 2 \in Int
  BY SessionAssumption
<1>4. /\ dump'.DataSize = size_ /\ dump'.all = size_ /\ dump'.rows = rows_
      /\ dump'.ScreenSize = rows_ - 2 /\ dump'.lines = dump.lines /\ dump'.Offset = dump.Offset
      /\ dump'.ScreenCount = dump.ScreenCount /\ dump'.since = dump.since
      /\ dump' \in [DataSize : Nat, all : Nat, Offset : Nat, ScreenCount : Nat, ScreenSize : Int,
                    rows : Nat, lines : Seq([Offset : Nat, Size : Nat]), since : Nat]
  BY <1>2, <1>3 DEF DumpInv
<1>5. dump.lines = << >> /\ dump.Offset = 0 /\ dump.since = 0 /\ dump.ScreenCount = 0
  BY <1>1 DEF DumpInv
<1>6. DOMAIN dump'.lines = {} /\ dump'.lines = << >>
  BY <1>4, <1>5
<1>7. dump'.Offset = dump'.all - dump'.DataSize
  BY <1>3, <1>4, <1>5
<1>8. dump'.rows > 2 /\ dump'.all > 0 => 0 < dump'.ScreenSize
  BY <1>3, <1>4
<1> QED
  BY <1>4, <1>5, <1>6, <1>7, <1>8 DEF DumpInv

LEMMA DumpGrows ==
  ASSUME DumpInv, DumpHex_line, DoingInv
  PROVE  DumpInv'
<1>1. doing.now = "dump" /\ dump.DataSize > 0
  BY Zenon DEF DumpHex_line
<1>2. PageFull => Went("input")
  BY Zenon DEF DumpHex_line, Input, Calls, Went
<1>3. ~PageFull => UNCHANGED doing
  BY Zenon DEF DumpHex_line
<1> DEFINE size_ == IF dump.DataSize < DumpBytes THEN dump.DataSize ELSE DumpBytes
           row == [Offset |-> dump.Offset, Size |-> size_]
           Rows == [Offset : Nat, Size : Nat]
           lines_ == Append(dump.lines, row)
           count_ == IF PageFull THEN 0 ELSE dump.ScreenCount + 1
<1>4. dump' = [dump EXCEPT !.lines = Append(@, row), !.Offset = @ + size_, !.DataSize = @ - size_,
                           !.ScreenCount = IF PageFull THEN 0 ELSE @ + 1, !.since = @ + 1]
  BY Zenon DEF DumpHex_line
<1>5. /\ size_ \in Nat /\ size_ <= dump.DataSize /\ dump.DataSize \in Nat /\ dump.DataSize - size_ \in Nat
      /\ dump.Offset \in Nat /\ dump.all \in Nat
  <2>1. DumpBytes \in Nat \ {0}
    BY SessionAssumption
  <2>2. dump.DataSize \in Nat /\ dump.Offset \in Nat /\ dump.all \in Nat
    BY DEF DumpInv
  <2> QED
    BY <1>1, <2>1, <2>2
<1>6. /\ dump.since \in Nat /\ dump.ScreenCount \in Nat /\ dump.ScreenSize \in Int /\ dump.rows \in Nat
      /\ count_ \in Nat
  BY DEF DumpInv
<1> HIDE DEF size_
<1>7. row \in Rows /\ dump.lines \in Seq(Rows)
  BY <1>5 DEF DumpInv
<1>8. /\ lines_ \in Seq(Rows) /\ Len(lines_) = Len(dump.lines) + 1 /\ lines_[Len(lines_)] = row
      /\ \A n \in 1 .. Len(dump.lines) : lines_[n] = dump.lines[n]
  <2> HIDE DEF row, Rows
  <2> QED
    BY <1>7
<1>9. dump' = [dump EXCEPT !.lines = lines_, !.Offset = dump.Offset + size_,
                           !.DataSize = dump.DataSize - size_, !.ScreenCount = count_,
                           !.since = dump.since + 1]
  BY <1>4, Zenon
<1>10. row.Offset = dump.Offset /\ row.Size = size_
  OBVIOUS
<1> HIDE DEF lines_, count_, row
<1>11. /\ dump'.lines = lines_ /\ dump'.Offset = dump.Offset + size_ /\ dump'.all = dump.all
       /\ dump'.DataSize = dump.DataSize - size_ /\ dump'.ScreenCount = count_
       /\ dump'.since = dump.since + 1 /\ dump'.rows = dump.rows /\ dump'.ScreenSize = dump.ScreenSize
       /\ dump' \in [DataSize : Nat, all : Nat, Offset : Nat, ScreenCount : Nat, ScreenSize : Int,
                     rows : Nat, lines : Seq(Rows), since : Nat]
  <2>1. dump.Offset + size_ \in Nat /\ dump.since + 1 \in Nat
    BY <1>5, <1>6
  <2> HIDE DEF Rows
  <2> QED
    BY <1>5, <1>6, <1>8, <1>9, <2>1 DEF DumpInv, Rows
<1>12. \A n \in DOMAIN lines_ :
         lines_[n].Offset + lines_[n].Size =
           IF n = Len(lines_) THEN dump.Offset + size_ ELSE lines_[n + 1].Offset
  <2>5. DOMAIN lines_ = 1 .. Len(lines_)
    <3> HIDE DEF Rows
    <3> QED
      BY <1>8
  <2> SUFFICES ASSUME NEW n \in 1 .. Len(lines_)
               PROVE  lines_[n].Offset + lines_[n].Size =
                        IF n = Len(lines_) THEN dump.Offset + size_ ELSE lines_[n + 1].Offset
    BY <2>5, Zenon
  <2> DEFINE k == Len(dump.lines)
  <2>1. k \in Nat /\ DOMAIN dump.lines = 1 .. k /\ Len(lines_) = k + 1
    BY <1>7, <1>8
  <2>0. \A j \in 1 .. k : /\ j = k => dump.lines[j].Offset + dump.lines[j].Size = dump.Offset
                          /\ j # k => dump.lines[j].Offset + dump.lines[j].Size = dump.lines[j + 1].Offset
    BY <2>1 DEF DumpInv
  <2> HIDE DEF k
  <2>9. \A j \in 1 .. k : lines_[j] = dump.lines[j]
    BY <1>8 DEF k
  <2>2. CASE n = Len(lines_)
    BY <1>8, <1>10, <2>2
  <2>3. CASE n < k
    <3>1. n \in 1 .. k /\ n + 1 \in 1 .. k /\ n # k /\ n # Len(lines_)
      BY <2>1, <2>3
    <3>2. dump.lines[n].Offset + dump.lines[n].Size = dump.lines[n + 1].Offset
      BY <2>0, <3>1
    <3>3. lines_[n] = dump.lines[n] /\ lines_[n + 1] = dump.lines[n + 1]
      BY <2>9, <3>1
    <3> QED
      BY <3>1, <3>2, <3>3
  <2>4. CASE n = k
    <3>1. n \in 1 .. k /\ n + 1 = Len(lines_) /\ n # Len(lines_)
      BY <2>1, <2>4
    <3>2. dump.lines[n].Offset + dump.lines[n].Size = dump.Offset /\ lines_[n] = dump.lines[n]
      BY <2>0, <2>4, <2>9, <3>1
    <3>3. lines_[n + 1].Offset = dump.Offset
      BY <1>8, <1>10, <3>1
    <3> QED
      BY <3>1, <3>2, <3>3
  <2> QED
    BY <2>1, <2>2, <2>3, <2>4
<1>13. lines_[1].Offset = 0 /\ lines_ # << >>
  <2>1. CASE dump.lines = << >>
    <3>1. Len(lines_) = 1 /\ dump.Offset = 0
      BY <1>8, <2>1 DEF DumpInv
    <3>2. lines_[1] = row
      BY <1>8, <3>1, Zenon
    <3>3. Len(<< >>) = 0
      OBVIOUS
    <3>4. lines_ # << >>
      <4>1. PICK k : k = Len(lines_)
        OBVIOUS
      <4>2. k # 0
        BY <3>1, <4>1
      <4>3. lines_ = << >> => k = 0
        BY <3>3, <4>1, Zenon
      <4> QED
        BY <4>2, <4>3, Zenon
    <3> QED
      BY <1>10, <3>1, <3>2, <3>4
  <2>2. CASE dump.lines # << >>
    <3>1. Len(dump.lines) \in Nat \ {0}
      <4> HIDE DEF Rows
      <4> QED
        BY <1>7, <2>2
    <3>2. dump.lines[1].Offset = 0
      BY <2>2 DEF DumpInv
    <3>3. lines_[1] = dump.lines[1]
      BY <1>8, <3>1
    <3>4. Len(lines_) # 0
      BY <1>8, <3>1
    <3> QED
      BY <3>2, <3>3, <3>4
  <2> QED
    BY <2>1, <2>2
<1>14. dump.all > 0 /\ dump'.Offset = dump'.all - dump'.DataSize
  <2>1. dump.Offset = dump.all - dump.DataSize
    BY DEF DumpInv
  <2>2. dump'.Offset = dump.Offset + size_ /\ dump'.DataSize = dump.DataSize - size_ /\ dump'.all = dump.all
    BY <1>11
  <2> QED
    BY <1>1, <1>5, <2>1, <2>2
<1>15. dump'.rows > 2 =>
         /\ dump'.ScreenCount < dump'.ScreenSize
         /\ dump'.since <= dump'.ScreenSize
         /\ IF doing'.now = "input" /\ doing'.caller = "dump" THEN dump'.ScreenCount = 0
                                                              ELSE dump'.since = dump'.ScreenCount
  <2> SUFFICES ASSUME dump.rows > 2
               PROVE  /\ count_ < dump.ScreenSize
                      /\ dump.since + 1 <= dump.ScreenSize
                      /\ IF doing'.now = "input" /\ doing'.caller = "dump" THEN count_ = 0
                                                                           ELSE dump.since + 1 = count_
    BY <1>11
  <2>1. dump.ScreenCount < dump.ScreenSize /\ dump.since = dump.ScreenCount /\ dump.ScreenSize > 0
    BY <1>1, <1>6, <1>14 DEF DumpInv
  <2>2. CASE PageFull
    <3>1. doing'.now = "input" /\ doing'.caller = "dump"
      BY <1>1, <1>2, <2>2 DEF Went, DoingInv
    <3> QED
      BY <1>6, <2>1, <2>2, <3>1 DEF count_
  <2>3. CASE ~PageFull
    <3>1. doing'.now = "dump" /\ dump.ScreenCount + 1 < dump.ScreenSize
      BY <1>1, <1>3, <1>6, <2>1, <2>3 DEF PageFull
    <3> QED
      BY <1>6, <2>1, <2>3, <3>1 DEF count_
  <2> QED
    BY <2>2, <2>3
<1> QED
  BY <1>11, <1>12, <1>13, <1>14, <1>15 DEF DumpInv

LEMMA DumpKept ==
  ASSUME DoingInv, DumpInv, SessionNext
  PROVE  DumpInv'
<1>1. CASE call_DumpHex
  BY <1>1, DumpStarts
<1>2. CASE DumpHex_line
  BY <1>2, DumpGrows
<1>3. CASE DumpHex_paused
  <2>1. doing.now = "input" /\ doing.caller = "dump" /\ Came /\ dump' = [dump EXCEPT !.since = 0]
    BY <1>3, Zenon DEF DumpHex_paused, Returns, Came
  <2>2. doing'.now = "dump"
    BY <2>1 DEF Came, DoingInv
  <2>3. /\ dump'.since = 0 /\ dump'.all = dump.all /\ dump'.lines = dump.lines
        /\ dump'.Offset = dump.Offset /\ dump'.DataSize = dump.DataSize
        /\ dump'.ScreenCount = dump.ScreenCount /\ dump'.rows = dump.rows
        /\ dump'.ScreenSize = dump.ScreenSize
        /\ dump' \in [DataSize : Nat, all : Nat, Offset : Nat, ScreenCount : Nat, ScreenSize : Int,
                      rows : Nat, lines : Seq([Offset : Nat, Size : Nat]), since : Nat]
    BY <2>1 DEF DumpInv
  <2>4. dump.rows > 2 /\ dump.all > 0 => dump.ScreenCount = 0 /\ 0 < dump.ScreenSize
    BY <2>1 DEF DumpInv
  <2> QED
    BY <2>2, <2>3, <2>4 DEF DumpInv
<1>4. CASE DumpHex_end
  <2>1. doing.now = "dump" /\ Came /\ dump' = dump
    BY <1>4, Zenon DEF DumpHex_end, Returns, Came
  <2>2. doing'.now = "none"
    BY <2>1 DEF Came, DoingInv
  <2> QED
    BY <2>1, <2>2, DumpStays
<1>5. CASE InputStep
  <2>1. dump' = dump
    BY <1>5, Zenon DEF InputStep, call_input, IInput_backspace, IInput_character, IInput_ignored,
       IInput_end, session_rest
  <2>2. \/ doing.now = "none" /\ Went("input")
        \/ doing' = doing
        \/ doing.caller # "dump" /\ Came
    BY <1>5, Zenon DEF InputStep, call_input, IInput_backspace, IInput_character, IInput_ignored,
       IInput_end, Idle, Input, Calls, Returns, Came, Went
  <2>3. (doing'.now = "input" /\ doing'.caller = "dump") <=> (doing.now = "input" /\ doing.caller = "dump")
    BY <2>2 DEF Came, Went, DoingInv
  <2> QED
    BY <2>1, <2>3, DumpStays
<1>6. CASE WaitStep \/ InitStep \/ RuntimeStep
  <2>1. dump' = dump
    <3>1. WaitStep => dump' = dump
      BY Zenon DEF WaitStep, call_wait, WaitForSingleEvent, WaitForSingleEvent_wakes
    <3>2. InitStep => dump' = dump
      BY Zenon DEF InitStep, InitializeLib, get_language, InitializeUnicodeSupport
    <3>3. RuntimeStep => dump' = dump
      BY Zenon DEF RuntimeStep, RtLibEnableVirtualMappings, call_RtConvertList, RtConvertList
    <3> QED
      BY <1>6, <3>1, <3>2, <3>3
  <2>2. CASE ~InputStep /\ ~DumpStep
    <3>1. doing.now # "input" /\ doing'.now # "input"
      BY <2>2, DoingKept DEF Moves
    <3> QED
      BY <2>1, <3>1, DumpStays
  <2>3. CASE InputStep \/ DumpStep
    BY <1>1, <1>2, <1>3, <1>4, <1>5, <2>3 DEF DumpStep
  <2> QED
    BY <2>2, <2>3
<1> QED
  BY <1>1, <1>2, <1>3, <1>4, <1>5, <1>6
     DEF SessionNext, InputStep, WaitStep, InitStep, RuntimeStep

LEMMA DumpMeans == DumpInv => DumpIsWhole
  BY DEF DumpInv, DumpIsWhole

-------------------------------------------------------------------------------
\* The wait: a timer is open while it is waited for, and at no other time.
WaitInv ==
  /\ wait \in [Timeout : Nat, Key : Keys \union {Unwritten, "timeout"}, timers : {0, 1}]
  /\ wait.timers = IF doing.now = "waiting" THEN 1 ELSE 0
  /\ wait.Key = "timeout" => wait.Timeout = 0

LEMMA RoundKept ==
  ASSUME DoingInv, WaitInv, RoundEnds(0), doing.about = "wait"
  PROVE  WaitInv'
<1>1. CASE wait.Timeout > 0
  <2>1. wait' = [wait EXCEPT !.timers = 0] /\ doing' = [doing EXCEPT !.now = "round"]
    BY <1>1 DEF RoundEnds
  <2> QED
    BY <2>1 DEF WaitInv, DoingInv
<1>2. CASE ~(wait.Timeout > 0)
  <2>1. wait' = [wait EXCEPT !.timers = 0, !.Key = "timeout"] /\ Came
    BY <1>2 DEF RoundEnds, Returns, Came
  <2>2. wait.Timeout = 0 /\ doing'.now # "waiting"
    BY <1>2, <2>1 DEF WaitInv, DoingInv, Came
  <2> QED
    BY <2>1, <2>2 DEF WaitInv
<1> QED
  BY <1>1, <1>2

LEMMA WaitKept ==
  ASSUME DoingInv, WaitInv, SessionNext
  PROVE  WaitInv'
<1>1. CASE call_wait
  <2>1. doing.now = "none" /\ Went("round") /\ wait.Key = Unwritten
    BY <1>1, Zenon DEF call_wait, Idle, Calls, Went
  <2>2. PICK t \in Timeouts : wait' = [wait EXCEPT !.Timeout = t]
    BY <1>1, Zenon DEF call_wait
  <2>3. doing'.now = "round" /\ t \in Nat
    BY <2>1, SessionAssumption DEF Went, DoingInv
  <2> QED
    BY <2>1, <2>2, <2>3 DEF WaitInv, Unwritten
<1>2. CASE WaitForSingleEvent
  <2>1. doing.now = "round" /\ doing.about = "wait" /\ wait.timers = 0
    BY <1>2 DEF WaitForSingleEvent, WaitInv, DoingInv
  <2>2. CASE wait' = [wait EXCEPT !.timers = @ + 1] /\ doing' = [doing EXCEPT !.now = "waiting"]
    BY <2>1, <2>2 DEF WaitInv, DoingInv
  <2>3. CASE RoundEnds(wait.timers)
    BY <2>1, <2>3, RoundKept
  <2> QED
    BY <1>2, <2>2, <2>3, Zenon DEF WaitForSingleEvent
<1>3. CASE WaitForSingleEvent_wakes
  <2>0. doing.now = "waiting"
    BY <1>3, Zenon DEF WaitForSingleEvent_wakes
  <2>1. doing.now = "waiting" /\ doing.about = "wait" /\ wait.timers = 1
    BY <2>0 DEF WaitInv, DoingInv
  <2>2. CASE RoundEnds(wait.timers - 1)
    <3>1. wait.timers - 1 = 0
      BY <2>1
    <3> QED
      BY <2>1, <2>2, <3>1, RoundKept
  <2>3. ASSUME NEW Key \in Keys, wait' = [wait EXCEPT !.timers = @ - 1, !.Key = Key], Came
        PROVE  WaitInv'
    <3>1. doing'.now = "none" /\ Key # "timeout"
      BY <2>1, <2>3, SessionAssumption DEF Came, DoingInv
    <3>2. wait' = [wait EXCEPT !.timers = 0, !.Key = Key]
      BY <2>1, <2>3
    <3> QED
      BY <3>1, <3>2 DEF WaitInv
  <2> QED
    BY <1>3, <2>2, <2>3, Zenon DEF WaitForSingleEvent_wakes, Returns, Came
<1>4. CASE ~WaitStep
  <2>1. doing.now # "waiting" /\ doing'.now # "waiting"
    BY <1>4, DoingKept DEF Moves
  <2>2. wait' = wait
    <3>1. InputStep => wait' = wait
      BY Zenon DEF InputStep, call_input, IInput_backspace, IInput_character, IInput_ignored,
         IInput_end, session_rest
    <3>2. DumpStep => wait' = wait
      BY Zenon DEF DumpStep, call_DumpHex, DumpHex_line, DumpHex_paused, DumpHex_end
    <3>3. InitStep => wait' = wait
      BY Zenon DEF InitStep, InitializeLib, get_language, InitializeUnicodeSupport
    <3>4. RuntimeStep => wait' = wait
      BY Zenon DEF RuntimeStep, RtLibEnableVirtualMappings, call_RtConvertList, RtConvertList
    <3> QED
      BY <1>4, <3>1, <3>2, <3>3, <3>4
         DEF SessionNext, InputStep, DumpStep, WaitStep, InitStep, RuntimeStep
  <2> QED
    BY <2>1, <2>2 DEF WaitInv
<1> QED
  BY <1>1, <1>2, <1>3, <1>4 DEF WaitStep

LEMMA WaitMeans == WaitInv => WaitsForKeys
  BY DEF WaitInv, WaitsForKeys

-------------------------------------------------------------------------------
\* The library's start: what has been allocated is for the search under way, which goes on
\* only where no driver was found before.
Fit == {n \in DOMAIN lib.drivers : /\ lib.drivers[n].works /\ lib.LangCode # << >>
                                   /\ Supports(lib.drivers[n], lib.LangCode)}
SystemTables == Seq([ST : {1, 2}, ImageHandle : BOOLEAN])
CollationDrivers == Seq([languages : Seq(Nat), works : BOOLEAN])
LibType ==
  [LibInitialized : BOOLEAN, ST : {0, 1, 2}, PoolAllocationType : {"BootServicesData", "LoaderData"},
   EFIDebug : EFIDebugVariable, UnicodeInterface : Nat, drivers : CollationDrivers,
   LangCode : Languages \union {<< >>}, allocated : Int, calls : SystemTables]

LibInv ==
  /\ lib \in LibType
  /\ lib.LibInitialized = (lib.calls # << >>)
  /\ lib.calls # << >> => lib.ST = lib.calls[1].ST
  /\ doing.now \in {"language", "collation"} => lib.UnicodeInterface = 0
  /\ IF doing.now = "collation"
     THEN lib.allocated = (IF lib.LangCode # << >> THEN 1 ELSE 0) + (IF lib.drivers # << >> THEN 1 ELSE 0)
     ELSE /\ lib.allocated = 0
          /\ IF Fit = {} THEN lib.UnicodeInterface = 0 ELSE lib.UnicodeInterface \in Fit

LEMMA LeastOf ==
  ASSUME NEW S \in SUBSET Nat, S # {}
  PROVE  (CHOOSE n \in S : \A k \in S : n <= k) \in S
<1> DEFINE less == {ss \in Nat \X Nat : ss[1] < ss[2]}
<1>1. IsWellFoundedOn(less, Nat)
  BY NatLessThanWellFounded DEF OpToRel
<1> HIDE DEF less
<1>2. PICK n \in S : \A k \in S : <<k, n>> \notin less
  BY <1>1, WFMin
<1>3. ASSUME NEW k \in S PROVE n <= k
  <2>1. CASE k < n
    BY <1>2, <2>1, k \in Nat, n \in Nat DEF less
  <2> QED
    BY <2>1, k \in Nat, n \in Nat
<1> QED
  BY <1>3

LEMMA LibCalled ==
  ASSUME DoingInv, LibInv, InitializeLib
  PROVE  LibInv'
<1>1. /\ doing.now = "none"
      /\ \/ Went("language") /\ lib.UnicodeInterface = 0
         \/ UNCHANGED doing
  BY Zenon DEF InitializeLib, Idle, Calls, Went
<1>2. PICK handle \in BOOLEAN, table_ \in {1, 2}, type \in {"BootServicesData", "LoaderData"},
           debug \in EFIDebugVariable :
        lib' = [lib EXCEPT
            !.LibInitialized = TRUE, !.calls = Append(@, [ST |-> table_, ImageHandle |-> handle]),
            !.ST = IF lib.LibInitialized THEN @ ELSE table_,
            !.PoolAllocationType = IF lib.LibInitialized \/ ~handle THEN @ ELSE type,
            !.EFIDebug = IF lib.LibInitialized \/ ~handle THEN @ ELSE debug]
  BY Zenon DEF InitializeLib
<1> DEFINE call == [ST |-> table_, ImageHandle |-> handle]
           calls_ == Append(lib.calls, call)
           pool_ == IF lib.LibInitialized \/ ~handle THEN lib.PoolAllocationType ELSE type
           debug_ == IF lib.LibInitialized \/ ~handle THEN lib.EFIDebug ELSE debug
           table_1 == IF lib.LibInitialized THEN lib.ST ELSE table_
<1>3. lib' = [lib EXCEPT !.LibInitialized = TRUE, !.calls = calls_, !.ST = table_1,
                         !.PoolAllocationType = pool_, !.EFIDebug = debug_]
  BY <1>2, Zenon
<1>4. /\ pool_ \in {"BootServicesData", "LoaderData"} /\ debug_ \in EFIDebugVariable
      /\ table_1 \in {0, 1, 2} /\ lib.calls \in SystemTables
  BY DEF LibInv, LibType
<1>5. /\ calls_ \in SystemTables /\ calls_ # << >>
      /\ IF lib.calls = << >> THEN calls_[1] = call ELSE calls_[1] = lib.calls[1]
  <2> DEFINE Calls_ == [ST : {1, 2}, ImageHandle : BOOLEAN]
  <2>1. call \in Calls_ /\ lib.calls \in Seq(Calls_)
    BY <1>4 DEF SystemTables
  <2> HIDE DEF Calls_, call
  <2>2. /\ calls_ \in Seq(Calls_) /\ Len(calls_) = Len(lib.calls) + 1
        /\ calls_[Len(lib.calls) + 1] = call
        /\ \A n \in 1 .. Len(lib.calls) : calls_[n] = lib.calls[n]
    BY <2>1
  <2>3. lib.calls = << >> => Len(lib.calls) = 0
    OBVIOUS
  <2>4. lib.calls # << >> => Len(lib.calls) \in Nat \ {0}
    BY <2>1
  <2>5. Len(calls_) # 0 /\ Len(<< >>) = 0
    BY <2>1, <2>2
  <2>6. calls_ # << >>
    BY <2>5, Zenon
  <2>7. calls_ \in SystemTables
    BY <2>2, Zenon DEF SystemTables, Calls_
  <2>8. lib.calls = << >> => calls_[1] = call
    BY <2>2, <2>3
  <2>9. lib.calls # << >> => calls_[1] = lib.calls[1]
    BY <2>2, <2>4
  <2> QED
    BY <2>6, <2>7, <2>8, <2>9, Zenon
<1>6. call.ST = table_
  OBVIOUS
<1>7. table_1 = calls_[1].ST
  BY <1>5, <1>6 DEF LibInv
<1> HIDE DEF calls_, pool_, debug_, table_1, call
<1>8. /\ lib'.LibInitialized = TRUE /\ lib'.calls = calls_ /\ lib'.ST = table_1
      /\ lib'.UnicodeInterface = lib.UnicodeInterface /\ lib'.drivers = lib.drivers
      /\ lib'.LangCode = lib.LangCode /\ lib'.allocated = lib.allocated
      /\ lib' \in LibType
  BY <1>3, <1>4, <1>5 DEF LibInv, LibType
<1>9. Fit' = Fit
  BY <1>8 DEF Fit
<1>10. doing'.now # "collation" /\ (doing'.now = "language" => lib.UnicodeInterface = 0)
  BY <1>1 DEF Went, DoingInv
<1> QED
  BY <1>1, <1>5, <1>7, <1>8, <1>9, <1>10 DEF LibInv

LEMMA LanguageRead ==
  ASSUME DoingInv, LibInv, get_language
  PROVE  LibInv'
<1>1. doing.now = "language" /\ doing' = [doing EXCEPT !.now = "collation"]
  BY Zenon DEF get_language
<1> DEFINE one(c) == IF c # << >> THEN 1 ELSE 0
<1>2. PICK LangCode_ \in Languages \union {<< >>}, drivers_ \in Drivers :
        lib' = [lib EXCEPT !.LangCode = LangCode_, !.drivers = drivers_,
                           !.allocated = @ + one(LangCode_) + one(drivers_)]
  BY Zenon DEF get_language
<1>3. lib.allocated = 0 /\ lib.UnicodeInterface = 0 /\ drivers_ \in CollationDrivers
  BY <1>1, SessionAssumption DEF LibInv, CollationDrivers
<1>4. one(LangCode_) \in Int /\ one(drivers_) \in Int
  OBVIOUS
<1> HIDE DEF one
<1>5. lib.allocated + one(LangCode_) + one(drivers_) = one(LangCode_) + one(drivers_)
  BY <1>3, <1>4
<1>6. one(LangCode_) + one(drivers_) \in Int
  BY <1>4
<1>7. lib' = [lib EXCEPT !.LangCode = LangCode_, !.drivers = drivers_,
                         !.allocated = one(LangCode_) + one(drivers_)]
  BY <1>2, <1>5, Zenon
<1>8. /\ lib'.LangCode = LangCode_ /\ lib'.drivers = drivers_
      /\ lib'.allocated = one(LangCode_) + one(drivers_)
      /\ lib'.LibInitialized = lib.LibInitialized /\ lib'.calls = lib.calls /\ lib'.ST = lib.ST
      /\ lib'.UnicodeInterface = 0 /\ lib' \in LibType
  BY <1>3, <1>6, <1>7 DEF LibInv, LibType
<1>9. doing'.now = "collation"
  BY <1>1 DEF DoingInv
<1> QED
  BY <1>8, <1>9 DEF LibInv, one

LEMMA DriverFound ==
  ASSUME DoingInv, LibInv, InitializeUnicodeSupport
  PROVE  LibInv'
<1>1. doing.now = "collation" /\ Came
  BY Zenon DEF InitializeUnicodeSupport, Returns, Came
<1> DEFINE one(c) == IF c # << >> THEN 1 ELSE 0
           least == CHOOSE n \in Fit : \A k \in Fit : n <= k
           driver == IF Fit = {} THEN lib.UnicodeInterface ELSE least
<1>2. lib' = [lib EXCEPT !.UnicodeInterface = driver,
                         !.allocated = lib.allocated - one(lib.LangCode) - one(lib.drivers)]
  <2> DEFINE found == {n \in DOMAIN lib.drivers : /\ lib.LangCode # << >> /\ lib.drivers[n].works
                                                  /\ Supports(lib.drivers[n], lib.LangCode)}
           first == CHOOSE n \in found : \A k \in found : n <= k
  <2>3. lib' = [lib EXCEPT
           !.UnicodeInterface = IF found = {} THEN @ ELSE first,
           !.allocated = @ - one(lib.LangCode) - one(lib.drivers)]
    BY Zenon DEF InitializeUnicodeSupport
  <2>1. \A n \in DOMAIN lib.drivers :
          (lib.LangCode # << >> /\ lib.drivers[n].works /\ Supports(lib.drivers[n], lib.LangCode)) <=>
          (lib.drivers[n].works /\ lib.LangCode # << >> /\ Supports(lib.drivers[n], lib.LangCode))
    BY Zenon
  <2>2. found = Fit
    BY <2>1, Zenon DEF Fit
  <2> HIDE DEF found, one
  <2>4. first = least
    BY <2>2, Zenon
  <2> HIDE DEF first, least
  <2> QED
    BY <2>2, <2>3, <2>4, Zenon
<1>3. lib.allocated = one(lib.LangCode) + one(lib.drivers) /\ lib.UnicodeInterface = 0
  BY <1>1 DEF LibInv
<1>4. one(lib.LangCode) \in Int /\ one(lib.drivers) \in Int
  OBVIOUS
<1> HIDE DEF one
<1>5. lib.allocated - one(lib.LangCode) - one(lib.drivers) = 0
  BY <1>3, <1>4
<1>6. Fit \subseteq Nat
  <2>1. lib.drivers \in CollationDrivers
    BY DEF LibInv, LibType
  <2>2. DOMAIN lib.drivers \subseteq Nat
    BY <2>1 DEF CollationDrivers
  <2> QED
    BY <2>2 DEF Fit
<1>7. IF Fit = {} THEN driver = 0 ELSE driver \in Fit
  <2>1. CASE Fit = {}
    BY <1>3, <2>1
  <2>2. CASE Fit # {}
    <3>1. least \in Fit
      BY <1>6, <2>2, LeastOf
    <3> QED
      BY <2>2, <3>1
  <2> QED
    BY <2>1, <2>2
<1> HIDE DEF driver, least
<1>8. driver \in Nat
  <2>1. CASE Fit = {}
    <3>1. driver = 0
      BY <1>7, <2>1, Zenon
    <3> QED
      BY <3>1
  <2>2. CASE Fit # {}
    <3>1. driver \in Fit
      BY <1>7, <2>2, Zenon
    <3> QED
      BY <1>6, <3>1, Zenon
  <2> QED
    BY <2>1, <2>2
<1>9. lib' = [lib EXCEPT !.UnicodeInterface = driver, !.allocated = 0]
  BY <1>2, <1>5, Zenon
<1>10. /\ lib'.UnicodeInterface = driver /\ lib'.allocated = 0
       /\ lib'.LibInitialized = lib.LibInitialized /\ lib'.calls = lib.calls /\ lib'.ST = lib.ST
       /\ lib'.drivers = lib.drivers /\ lib'.LangCode = lib.LangCode /\ lib' \in LibType
  <2>1. PICK d \in Nat : d = driver
    BY <1>8
  <2>2. lib' = [lib EXCEPT !.UnicodeInterface = d, !.allocated = 0]
    BY <1>9, <2>1, Zenon
  <2>3. /\ lib'.UnicodeInterface = d /\ lib'.allocated = 0
        /\ lib'.LibInitialized = lib.LibInitialized /\ lib'.calls = lib.calls /\ lib'.ST = lib.ST
        /\ lib'.drivers = lib.drivers /\ lib'.LangCode = lib.LangCode /\ lib' \in LibType
    <3>1. d \in Nat /\ 0 \in Int
      BY <2>1
    <3>2. lib \in LibType
      BY DEF LibInv
    <3>3. /\ lib'.UnicodeInterface = d /\ lib'.allocated = 0
          /\ lib'.LibInitialized = lib.LibInitialized /\ lib'.calls = lib.calls /\ lib'.ST = lib.ST
          /\ lib'.drivers = lib.drivers /\ lib'.LangCode = lib.LangCode
      BY <2>2, <3>2 DEF LibType
    <3>4. lib' \in LibType
      BY <2>2, <3>1, <3>2 DEF LibType
    <3> QED
      BY <3>3, <3>4
  <2> QED
    BY <2>1, <2>3, Zenon
<1>11. Fit' = Fit
  BY <1>10 DEF Fit
<1>12. doing'.now = "none"
  BY <1>1 DEF DoingInv, Came
<1> QED
  BY <1>7, <1>10, <1>11, <1>12 DEF LibInv

LEMMA LibKept ==
  ASSUME DoingInv, LibInv, SessionNext
  PROVE  LibInv'
<1>1. CASE InitStep
  BY <1>1, LibCalled, LanguageRead, DriverFound DEF InitStep
<1>2. CASE ~InitStep
  <2>1. doing.now \notin {"language", "collation"} /\ doing'.now \notin {"language", "collation"}
    BY <1>2, DoingKept DEF Moves
  <2>2. lib' = lib
    <3>1. InputStep => lib' = lib
      BY Zenon DEF InputStep, call_input, IInput_backspace, IInput_character, IInput_ignored,
         IInput_end, session_rest
    <3>2. DumpStep => lib' = lib
      BY Zenon DEF DumpStep, call_DumpHex, DumpHex_line, DumpHex_paused, DumpHex_end
    <3>3. WaitStep => lib' = lib
      BY Zenon DEF WaitStep, call_wait, WaitForSingleEvent, WaitForSingleEvent_wakes
    <3>4. RuntimeStep => lib' = lib
      BY Zenon DEF RuntimeStep, RtLibEnableVirtualMappings, call_RtConvertList, RtConvertList
    <3> QED
      BY <1>2, <3>1, <3>2, <3>3, <3>4
         DEF SessionNext, InputStep, DumpStep, WaitStep, InitStep, RuntimeStep
  <2>3. Fit' = Fit
    BY <2>2 DEF Fit
  <2> QED
    BY <2>1, <2>2, <2>3 DEF LibInv
<1> QED
  BY <1>1, <1>2

LEMMA LibMeans == LibInv => LibIsInitialized
  BY DEF LibInv, LibIsInitialized, Fit

-------------------------------------------------------------------------------
\* The pointers of the runtime: of a list under way those before Link are converted, the
\* others not; otherwise all of them are, or none.
Converted(T) == [to : T, maps : {0, 1}, DebugDisposition : {0, 1}]
Globals == {"RT", "DebugOut", "RaiseTPL", "RestoreTPL"}
Nodes == [Flink : Converted(Int), Blink : Converted(Int)]
ToHead(p) == p.maps = 1 => (p.DebugDisposition = 1 <=> p.to = 1)

ListInv(n) ==
  /\ pointers.list \in [1 .. n -> Nodes] /\ pointers.Link \in 1 .. n
  /\ \A k \in 1 .. n : /\ pointers.list[k].Flink.to = IF k = n THEN 1 ELSE k + 1
                       /\ pointers.list[k].Blink.maps = pointers.list[k].Flink.maps
                       /\ ToHead(pointers.list[k].Flink) /\ ToHead(pointers.list[k].Blink)
  /\ doing.now = "convert" =>
       ~pointers.fault /\ \A k \in 1 .. n : pointers.list[k].Flink.maps = IF k < pointers.Link THEN 1 ELSE 0
  /\ doing.now # "convert" =>
       pointers.Link = 1 /\ \A k \in 1 .. n : pointers.list[k].Flink.maps = pointers.list[1].Flink.maps

GlobalsInv ==
  /\ pointers \in [LibFwInstance : BOOLEAN, globals : [Globals -> Converted(Globals)],
                   list : {pointers.list}, Link : {pointers.Link}, fault : BOOLEAN]
  /\ \A g \in Globals : pointers.globals[g].maps = pointers.globals["RaiseTPL"].maps
  /\ pointers.LibFwInstance => pointers.globals["RaiseTPL"].maps = 0
  /\ pointers.fault => pointers.list[1].Flink.maps = 0 /\ pointers.globals["RaiseTPL"].maps = 1

PointersInv == GlobalsInv /\ \E n \in Nat \ {0} : ListInv(n)

LEMMA MappedOnce ==
  ASSUME NEW T, NEW p \in Converted(T), p.maps = 0, NEW d \in {0, 1}
  PROVE  /\ Mapped(p, d) \in Converted(T) /\ Mapped(p, d).maps = 1
         /\ Mapped(p, d).to = p.to /\ Mapped(p, d).DebugDisposition = d
<1>1. p.maps + 1 = 1
  OBVIOUS
<1>2. Mapped(p, d) = [p EXCEPT !.maps = 1, !.DebugDisposition = d]
  BY <1>1, Zenon DEF Mapped
<1> QED
  BY <1>2 DEF Converted

LEMMA GlobalsMapped ==
  ASSUME DoingInv, PointersInv, RtLibEnableVirtualMappings
  PROVE  PointersInv'
<1>1. /\ pointers.globals["RaiseTPL"].maps = 0 /\ ~pointers.fault /\ ~pointers.LibFwInstance
      /\ UNCHANGED doing
      /\ pointers' = [pointers EXCEPT !.globals = [g \in DOMAIN @ |-> Mapped(@[g], 0)]]
  BY Zenon DEF RtLibEnableVirtualMappings
<1> DEFINE mapped == [g \in Globals |-> Mapped(pointers.globals[g], 0)]
<1>2. pointers.globals \in [Globals -> Converted(Globals)]
  BY DEF PointersInv, GlobalsInv
<1>3. [g \in DOMAIN pointers.globals |-> Mapped(pointers.globals[g], 0)] = mapped
  BY <1>2
<1>4. \A g \in Globals : mapped[g] \in Converted(Globals) /\ mapped[g].maps = 1
  <2> SUFFICES ASSUME NEW g \in Globals
               PROVE  mapped[g] \in Converted(Globals) /\ mapped[g].maps = 1
    OBVIOUS
  <2>1. pointers.globals[g] \in Converted(Globals) /\ pointers.globals[g].maps = 0
    BY <1>1, <1>2 DEF PointersInv, GlobalsInv
  <2> QED
    BY <2>1, MappedOnce
<1>5. mapped \in [Globals -> Converted(Globals)]
  BY <1>4
<1> HIDE DEF mapped
<1>6. pointers' = [pointers EXCEPT !.globals = mapped]
  BY <1>1, <1>3, Zenon
<1>7. /\ pointers'.globals = mapped /\ pointers'.list = pointers.list /\ pointers'.Link = pointers.Link
      /\ ~pointers'.fault /\ ~pointers'.LibFwInstance
      /\ pointers' \in [LibFwInstance : BOOLEAN, globals : [Globals -> Converted(Globals)],
                        list : {pointers.list}, Link : {pointers.Link}, fault : BOOLEAN]
  BY <1>1, <1>5, <1>6 DEF PointersInv, GlobalsInv
<1>8. GlobalsInv'
  BY <1>4, <1>7 DEF GlobalsInv, Globals
<1>9. ASSUME NEW n \in Nat \ {0}, ListInv(n) PROVE ListInv(n)'
  BY <1>1, <1>7, <1>9 DEF ListInv
<1> QED
  BY <1>8, <1>9 DEF PointersInv

LEMMA ListCalled ==
  ASSUME DoingInv, PointersInv, call_RtConvertList
  PROVE  PointersInv'
<1>1. doing.now = "none" /\ pointers.list[1].Flink.maps = 0 /\ ~pointers.fault
  BY Zenon DEF call_RtConvertList, Idle
<1>2. "RT" \in Globals
  BY DEF Globals
<1>3. CASE pointers.globals["RT"].maps = 1
  <2>1. pointers' = [pointers EXCEPT !.fault = TRUE] /\ UNCHANGED doing
    BY <1>3, Zenon DEF call_RtConvertList
  <2>2. pointers.globals["RaiseTPL"].maps = 1
    BY <1>2, <1>3 DEF PointersInv, GlobalsInv
  <2>3. /\ pointers'.globals = pointers.globals /\ pointers'.list = pointers.list
        /\ pointers'.Link = pointers.Link /\ pointers'.LibFwInstance = pointers.LibFwInstance
        /\ pointers'.fault
        /\ pointers' \in [LibFwInstance : BOOLEAN, globals : [Globals -> Converted(Globals)],
                          list : {pointers.list}, Link : {pointers.Link}, fault : BOOLEAN]
    BY <2>1 DEF PointersInv, GlobalsInv
  <2>4. GlobalsInv'
    BY <1>1, <2>2, <2>3 DEF GlobalsInv, PointersInv
  <2>5. ASSUME NEW n \in Nat \ {0}, ListInv(n) PROVE ListInv(n)'
    BY <1>1, <2>1, <2>3, <2>5 DEF ListInv
  <2> QED
    BY <2>4, <2>5 DEF PointersInv
<1>4. CASE pointers.globals["RT"].maps # 1
  <2>1. UNCHANGED pointers /\ Went("convert")
    BY <1>4, Zenon DEF call_RtConvertList, Calls, Went
  <2>2. doing'.now = "convert"
    BY <2>1 DEF Went, DoingInv
  <2>3. GlobalsInv'
    BY <2>1 DEF GlobalsInv, PointersInv
  <2>4. ASSUME NEW n \in Nat \ {0}, ListInv(n) PROVE ListInv(n)'
    BY <1>1, <2>1, <2>2, <2>4 DEF ListInv
  <2> QED
    BY <2>3, <2>4 DEF PointersInv
<1> QED
  BY <1>3, <1>4

LEMMA NodeConverted ==
  ASSUME DoingInv, PointersInv, RtConvertList
  PROVE  PointersInv'
<1> PICK n \in Nat \ {0} : ListInv(n)
  BY DEF PointersInv
<1> DEFINE Link_ == pointers.Link
           node == pointers.list[Link_]
           Disposition(p) == IF p.to = 1 THEN 1 ELSE 0
           flink == Mapped(node.Flink, Disposition(node.Flink))
           blink == Mapped(node.Blink, Disposition(node.Blink))
           list_ == [pointers.list EXCEPT ![Link_] = [Flink |-> flink, Blink |-> blink]]
           next == node.Flink.to
<1>1. /\ doing.now = "convert"
      /\ pointers' = [pointers EXCEPT !.list[Link_] = [Flink |-> flink, Blink |-> blink], !.Link = next]
      /\ IF next = 1 THEN Came ELSE UNCHANGED doing
  BY Zenon DEF RtConvertList, Returns, Came
<1>2. /\ Link_ \in 1 .. n /\ node \in Nodes /\ node.Flink.maps = 0 /\ node.Blink.maps = 0
      /\ next = IF Link_ = n THEN 1 ELSE Link_ + 1
  BY <1>1 DEF ListInv
<1>3. /\ node.Flink \in Converted(Int) /\ node.Blink \in Converted(Int)
      /\ Disposition(node.Flink) \in {0, 1} /\ Disposition(node.Blink) \in {0, 1}
  BY <1>2 DEF Nodes
<1>4. /\ flink \in Converted(Int) /\ flink.maps = 1 /\ flink.to = next
      /\ flink.DebugDisposition = Disposition(node.Flink)
  BY <1>2, <1>3, MappedOnce
<1>5. /\ blink \in Converted(Int) /\ blink.maps = 1 /\ blink.to = node.Blink.to
      /\ blink.DebugDisposition = Disposition(node.Blink)
  BY <1>2, <1>3, MappedOnce
<1>6. ToHead(flink) /\ ToHead(blink)
  BY <1>4, <1>5 DEF ToHead
<1> HIDE DEF flink, blink, Disposition
<1>7. /\ list_ \in [1 .. n -> Nodes] /\ list_[Link_].Flink = flink /\ list_[Link_].Blink = blink
      /\ \A k \in 1 .. n : k # Link_ => list_[k] = pointers.list[k]
  BY <1>2, <1>4, <1>5 DEF ListInv, Nodes
<1> HIDE DEF list_, next, node
<1>8. pointers' = [pointers EXCEPT !.list = list_, !.Link = next]
  BY <1>1, Zenon DEF list_
<1>9. /\ pointers'.list = list_ /\ pointers'.Link = next /\ pointers'.globals = pointers.globals
      /\ pointers'.LibFwInstance = pointers.LibFwInstance /\ pointers'.fault = pointers.fault
      /\ pointers' \in [LibFwInstance : BOOLEAN, globals : [Globals -> Converted(Globals)],
                        list : {pointers'.list}, Link : {pointers'.Link}, fault : BOOLEAN]
  BY <1>8 DEF PointersInv, GlobalsInv
<1>10. ~pointers.fault
  BY <1>1 DEF ListInv
<1>11. GlobalsInv'
  BY <1>9, <1>10 DEF GlobalsInv, PointersInv
<1>12. \A k \in 1 .. n : list_[k].Flink.maps = IF k <= Link_ THEN 1 ELSE 0
  BY <1>1, <1>2, <1>4, <1>7 DEF ListInv
<1>13. \A k \in 1 .. n : /\ list_[k].Flink.to = IF k = n THEN 1 ELSE k + 1
                         /\ list_[k].Blink.maps = list_[k].Flink.maps
                         /\ ToHead(list_[k].Flink) /\ ToHead(list_[k].Blink)
  <2> SUFFICES ASSUME NEW k \in 1 .. n
               PROVE  /\ list_[k].Flink.to = IF k = n THEN 1 ELSE k + 1
                      /\ list_[k].Blink.maps = list_[k].Flink.maps
                      /\ ToHead(list_[k].Flink) /\ ToHead(list_[k].Blink)
    OBVIOUS
  <2>1. CASE k = Link_
    BY <1>2, <1>4, <1>5, <1>6, <1>7, <2>1
  <2>2. CASE k # Link_
    BY <1>7, <2>2 DEF ListInv
  <2> QED
    BY <2>1, <2>2
<1>14. CASE Link_ = n
  <2>1. next = 1 /\ Came
    BY <1>1, <1>2, <1>14
  <2>2. doing'.now # "convert"
    BY <1>1, <2>1 DEF Came, DoingInv
  <2>3. \A k \in 1 .. n : list_[k].Flink.maps = list_[1].Flink.maps
    BY <1>12, <1>14
  <2>4. ListInv(n)'
    BY <1>7, <1>9, <1>13, <2>1, <2>2, <2>3 DEF ListInv
  <2> QED
    BY <1>11, <2>4 DEF PointersInv
<1>15. CASE Link_ # n
  <2>1. next = Link_ + 1 /\ next \in 1 .. n /\ next # 1
    BY <1>2, <1>15
  <2>2. UNCHANGED doing
    BY <1>1, <2>1
  <2>3. \A k \in 1 .. n : list_[k].Flink.maps = IF k < next THEN 1 ELSE 0
    BY <1>2, <1>12, <2>1
  <2>4. ListInv(n)'
    BY <1>1, <1>7, <1>9, <1>10, <1>13, <2>1, <2>2, <2>3 DEF ListInv
  <2> QED
    BY <1>11, <2>4 DEF PointersInv
<1> QED
  BY <1>14, <1>15

LEMMA PointersKept ==
  ASSUME DoingInv, PointersInv, SessionNext
  PROVE  PointersInv'
<1>1. CASE RuntimeStep
  BY <1>1, GlobalsMapped, ListCalled, NodeConverted DEF RuntimeStep
<1>2. CASE ~RuntimeStep
  <2>1. doing.now # "convert" /\ doing'.now # "convert"
    BY <1>2, DoingKept DEF Moves
  <2>2. pointers' = pointers
    <3>1. InputStep => pointers' = pointers
      BY Zenon DEF InputStep, call_input, IInput_backspace, IInput_character, IInput_ignored,
         IInput_end, session_rest
    <3>2. DumpStep => pointers' = pointers
      BY Zenon DEF DumpStep, call_DumpHex, DumpHex_line, DumpHex_paused, DumpHex_end
    <3>3. WaitStep => pointers' = pointers
      BY Zenon DEF WaitStep, call_wait, WaitForSingleEvent, WaitForSingleEvent_wakes
    <3>4. InitStep => pointers' = pointers
      BY Zenon DEF InitStep, InitializeLib, get_language, InitializeUnicodeSupport
    <3> QED
      BY <1>2, <3>1, <3>2, <3>3, <3>4
         DEF SessionNext, InputStep, DumpStep, WaitStep, InitStep, RuntimeStep
  <2>3. GlobalsInv'
    BY <2>2 DEF GlobalsInv, PointersInv
  <2>4. ASSUME NEW n \in Nat \ {0}, ListInv(n) PROVE ListInv(n)'
    BY <2>1, <2>2, <2>4 DEF ListInv
  <2> QED
    BY <2>3, <2>4 DEF PointersInv
<1> QED
  BY <1>1, <1>2

LEMMA PointersMean == PointersInv => PointersConverted
<1> SUFFICES ASSUME PointersInv PROVE PointersConverted
  OBVIOUS
<1> PICK n \in Nat \ {0} : ListInv(n)
  BY DEF PointersInv
<1>1. DOMAIN pointers.list = 1 .. n /\ DOMAIN pointers.globals = Globals
  BY DEF ListInv, PointersInv, GlobalsInv
<1>2. ASSUME NEW k \in 1 .. n, NEW p \in {pointers.list[k].Flink, pointers.list[k].Blink}
      PROVE  /\ p.maps = IF doing.now = "convert" THEN p.maps ELSE pointers.list[1].Flink.maps
             /\ p.maps \in {0, 1} /\ (p.maps = 1 => (p.DebugDisposition = 1 <=> p.to = 1))
  <2>1. pointers.list[k] \in Nodes
    BY DEF ListInv
  <2>2. p \in Converted(Int) /\ ToHead(p) /\ p.maps = pointers.list[k].Flink.maps
    BY <2>1 DEF ListInv, Nodes
  <2> QED
    BY <2>2 DEF ListInv, Converted, ToHead
<1>3. ASSUME NEW g \in Globals
      PROVE  pointers.globals[g].maps \in IF pointers.LibFwInstance THEN {0} ELSE {0, 1}
  <2>1. pointers.globals[g] \in Converted(Globals)
    BY DEF PointersInv, GlobalsInv
  <2> QED
    BY <2>1 DEF PointersInv, GlobalsInv, Converted
<1>4. pointers.fault => pointers.list[1].Flink.maps = 0 /\ pointers.globals["RT"].maps = 1
  BY DEF PointersInv, GlobalsInv, Globals
<1> QED
  BY <1>1, <1>2, <1>3, <1>4 DEF PointersConverted

-------------------------------------------------------------------------------
\* The five of them, from the start on.
SessionInv ==
  /\ DoingInv /\ LineInv /\ ScreenInv /\ DumpInv /\ WaitInv /\ LibInv /\ PointersInv

LEMMA CircleStarts ==
  ASSUME NEW n \in Nat \ {0}, NEW k \in 1 .. n
  PROVE  /\ (k % n) + 1 = IF k = n THEN 1 ELSE k + 1
         /\ ((k + n - 2) % n) + 1 \in Int
<1>1. CASE k = n
  <2>1. k % n = 0
    BY <1>1
  <2> QED
    BY <1>1, <2>1
<1>2. CASE k # n
  <2>1. k % n = k
    BY <1>2
  <2> QED
    BY <1>2, <2>1
<1>3. (k + n - 2) % n \in Int
  OBVIOUS
<1> QED
  BY <1>1, <1>2, <1>3

LEMMA SessionStarts == SessionInit => SessionInv
<1> SUFFICES ASSUME SessionInit PROVE SessionInv
  OBVIOUS
<1>1. DoingInv /\ doing.now = "none"
  BY DEF SessionInit, DoingInv
<1>2. LineInv /\ ScreenInv
  <2>1. line = [StrLen |-> 0, Len |-> 0, InStr |-> [n \in LineCells |-> Unwritten], struck |-> 0]
    BY Zenon DEF SessionInit
  <2> QED
    BY <1>1, <2>1, SessionAssumption DEF LineInv, ScreenInv, LineCells
<1>3. DumpInv
  <2>1. dump = [DataSize |-> 0, all |-> 0, Offset |-> 0, ScreenCount |-> 0, ScreenSize |-> 0,
                rows |-> 0, lines |-> << >>, since |-> 0]
    BY Zenon DEF SessionInit
  <2> QED
    BY <1>1, <2>1 DEF DumpInv
<1>4. WaitInv
  <2>1. wait = [Timeout |-> 0, Key |-> Unwritten, timers |-> 0]
    BY Zenon DEF SessionInit
  <2> QED
    BY <1>1, <2>1 DEF WaitInv, Unwritten
<1>5. LibInv
  <2> DEFINE default == "default"
  <2>1. default \in EFIDebugVariable
    BY Zenon DEF EFIDebugVariable
  <2>2. lib = [LibInitialized |-> FALSE, ST |-> 0, PoolAllocationType |-> "BootServicesData",
               EFIDebug |-> default, UnicodeInterface |-> 0, drivers |-> << >>, LangCode |-> << >>,
               allocated |-> 0, calls |-> << >>]
    BY Zenon DEF SessionInit
  <2> HIDE DEF default
  <2>3. << >> \in SystemTables /\ << >> \in CollationDrivers
    BY DEF SystemTables, CollationDrivers
  <2>4. lib \in LibType
    BY <2>1, <2>2, <2>3 DEF LibType
  <2>5. Fit = {}
    BY <2>2 DEF Fit
  <2> QED
    BY <1>1, <2>2, <2>4, <2>5 DEF LibInv
<1>6. PointersInv
  <2>1. PICK n \in ListLengths, fw \in BOOLEAN :
          pointers = [LibFwInstance |-> fw,
                      globals |-> [g \in {"RT", "DebugOut", "RaiseTPL", "RestoreTPL"} |-> Pointer(g)],
                      list |-> Circle(n), Link |-> 1, fault |-> FALSE]
    BY Zenon DEF SessionInit
  <2>2. n \in Nat \ {0}
    BY SessionAssumption
  <2>3. /\ Circle(n) \in [1 .. n -> Nodes]
        /\ \A k \in 1 .. n : /\ Circle(n)[k].Flink.to = IF k = n THEN 1 ELSE k + 1
                             /\ Circle(n)[k].Flink.maps = 0 /\ Circle(n)[k].Blink.maps = 0
    <3> DEFINE f(k) == (k % n) + 1
               b(k) == ((k + n - 2) % n) + 1
    <3>1. \A k \in 1 .. n : f(k) = (IF k = n THEN 1 ELSE k + 1) /\ f(k) \in Int /\ b(k) \in Int
      <4> SUFFICES ASSUME NEW k \in 1 .. n
                   PROVE  f(k) = (IF k = n THEN 1 ELSE k + 1) /\ f(k) \in Int /\ b(k) \in Int
        OBVIOUS
      <4>1. f(k) = (IF k = n THEN 1 ELSE k + 1) /\ b(k) \in Int
        BY <2>2, CircleStarts, Zenon
      <4> HIDE DEF f, b
      <4>2. f(k) \in Int
        BY <4>1, <2>2
      <4> QED
        BY <4>1, <4>2
    <3>2. Circle(n) = [k \in 1 .. n |-> [Flink |-> Pointer(f(k)), Blink |-> Pointer(b(k))]]
      BY Zenon DEF Circle
    <3> HIDE DEF f, b
    <3>3. \A i \in Int : Pointer(i) \in Converted(Int) /\ Pointer(i).to = i /\ Pointer(i).maps = 0
      BY DEF Pointer, Converted
    <3>4. \A k \in 1 .. n : [Flink |-> Pointer(f(k)), Blink |-> Pointer(b(k))] \in Nodes
      BY <3>1, <3>3 DEF Nodes
    <3> QED
      BY <3>1, <3>2, <3>3, <3>4
  <2>4. ListInv(n)
    BY <1>1, <2>1, <2>2, <2>3 DEF ListInv, ToHead
  <2>5. GlobalsInv
    BY <2>1 DEF GlobalsInv, Globals, Converted, Pointer
  <2> QED
    BY <2>2, <2>4, <2>5 DEF PointersInv
<1> QED
  BY <1>1, <1>2, <1>3, <1>4, <1>5, <1>6 DEF SessionInv

LEMMA SessionStutters ==
  ASSUME SessionInv, UNCHANGED session_vars
  PROVE  SessionInv'
<1>1. UNCHANGED <<doing, line, screen, wait, dump, lib, pointers>>
  BY DEF session_vars
<1>2. Fit' = Fit
  BY <1>1 DEF Fit
<1>3. DoingInv' /\ LineInv' /\ ScreenInv'
  BY <1>1 DEF SessionInv, DoingInv, LineInv, ScreenInv
<1>4. DumpInv' /\ WaitInv'
  BY <1>1 DEF SessionInv, DumpInv, WaitInv
<1>5. LibInv'
  BY <1>1, <1>2 DEF SessionInv, LibInv
<1>6. PointersInv'
  BY <1>1 DEF SessionInv, PointersInv, GlobalsInv, ListInv
<1> QED
  BY <1>3, <1>4, <1>5, <1>6 DEF SessionInv

\* What passes between an application, its user and the firmware through IInput, DumpHex,
\* WaitForEventWithTimeout, InitializeLib and RtConvertList arrives whole, in every step,
\* for every buffer, amount of data, screen, timeout, list of drivers and list of nodes.
THEOREM SessionStaysKept == SessionSpec => []SessionKept
<1>1. SessionInv /\ [SessionNext]_session_vars => SessionInv'
  <2> SUFFICES ASSUME SessionInv, [SessionNext]_session_vars PROVE SessionInv'
    OBVIOUS
  <2>1. CASE SessionNext
    <3>1. DoingInv'
      BY <2>1, DoingKept DEF SessionInv
    <3>2. LineInv' /\ ScreenInv'
      BY <2>1, LineStep DEF SessionInv
    <3>3. DumpInv' /\ WaitInv' /\ LibInv' /\ PointersInv'
      BY <2>1, DumpKept, WaitKept, LibKept, PointersKept DEF SessionInv
    <3> QED
      BY <3>1, <3>2, <3>3 DEF SessionInv
  <2>2. CASE UNCHANGED session_vars
    BY <2>2, SessionStutters
  <2> QED
    BY <2>1, <2>2
<1>2. SessionInv => SessionKept
  BY LineMeans, DumpMeans, WaitMeans, LibMeans, PointersMean DEF SessionInv, SessionKept
<1> QED
  BY <1>1, <1>2, SessionStarts, PTL DEF SessionSpec

-------------------------------------------------------------------------------
(***************************************************************************)
(* Sequences of whatever they hold.                                        *)
(***************************************************************************)
LEMMA SequenceOfItems ==
  ASSUME NEW n \in Nat, NEW f, f = [i \in 1 .. n |-> f[i]]
  PROVE  IsSequence(f) /\ Len(f) = n
<1> DEFINE S == {f[i] : i \in DOMAIN f}
<1>1. DOMAIN f = 1 .. n
  OBVIOUS
<1>2. \A i \in 1 .. n : f[i] \in S
  BY <1>1
<1> HIDE DEF S
<1>3. f \in [1 .. n -> S]
  BY <1>2
<1>4. f \in Seq(S)
  BY <1>3
<1>5. Len(f) = n
  BY <1>1, <1>4, LenProperties
<1> QED
  BY <1>4, <1>5 DEF IsSequence, S

LEMMA SequenceFacts ==
  ASSUME NEW s, IsSequence(s)
  PROVE  Len(s) \in Nat /\ DOMAIN s = 1 .. Len(s)
<1> DEFINE S == {s[n] : n \in DOMAIN s}
<1>1. s \in Seq(S)
  BY DEF IsSequence
<1> HIDE DEF S
<1> QED
  BY <1>1, LenProperties

LEMMA IsSequenceOf ==
  ASSUME NEW S, NEW s \in Seq(S)
  PROVE  IsSequence(s)
<1> DEFINE T == {s[n] : n \in DOMAIN s}
<1>1. Len(s) \in Nat /\ DOMAIN s = 1 .. Len(s) /\ s = [i \in 1 .. Len(s) |-> s[i]]
  BY LenProperties
<1>2. \A i \in 1 .. Len(s) : s[i] \in T
  BY <1>1
<1> HIDE DEF T
<1>3. [i \in 1 .. Len(s) |-> s[i]] \in Seq(T)
  BY <1>1, <1>2, IsASeq
<1> QED
  BY <1>1, <1>3 DEF IsSequence, T

LEMMA SequenceEmpty == IsSequence(<< >>) /\ Len(<< >>) = 0
<1>1. << >> \in Seq({}) /\ Len(<< >>) = 0
  BY EmptySeq
<1> QED
  BY <1>1, IsSequenceOf

LEMMA SequenceJoined ==
  ASSUME NEW s, IsSequence(s), NEW t, IsSequence(t)
  PROVE  /\ IsSequence(s \o t)
         /\ Len(s \o t) = Len(s) + Len(t)
         /\ \A i \in 1 .. Len(s) + Len(t) : (s \o t)[i] = IF i <= Len(s) THEN s[i] ELSE t[i - Len(s)]
<1> DEFINE A == {s[n] : n \in DOMAIN s}
           B == {t[n] : n \in DOMAIN t}
           S == A \union B
<1>1. s \in Seq(A) /\ t \in Seq(B)
  BY DEF IsSequence
<1>2. A \subseteq S /\ B \subseteq S
  OBVIOUS
<1> HIDE DEF A, B, S
<1>3. s \in Seq(S) /\ t \in Seq(S)
  BY <1>1, <1>2, SeqMonotonic
<1> QED
  BY <1>3, ConcatProperties, IsSequenceOf

LEMMA SequenceLonger ==
  ASSUME NEW s, IsSequence(s), NEW e
  PROVE  /\ IsSequence(Append(s, e))
         /\ Len(Append(s, e)) = Len(s) + 1
         /\ \A i \in 1 .. Len(s) : Append(s, e)[i] = s[i]
         /\ Append(s, e)[Len(s) + 1] = e
<1> DEFINE A == {s[n] : n \in DOMAIN s}
           S == A \union {e}
<1>1. s \in Seq(A)
  BY DEF IsSequence
<1>2. A \subseteq S /\ e \in S
  OBVIOUS
<1> HIDE DEF A, S
<1>3. s \in Seq(S)
  BY <1>1, <1>2, SeqMonotonic
<1> DEFINE t == Append(s, e)
<1>4. /\ t \in Seq(S) /\ Len(t) = Len(s) + 1
      /\ \A i \in 1 .. Len(s) : t[i] = s[i]
      /\ t[Len(s) + 1] = e
  BY <1>2, <1>3, AppendProperties
<1> HIDE DEF t
<1>5. IsSequence(t)
  BY <1>4, IsSequenceOf
<1> QED
  BY <1>4, <1>5 DEF t

LEMMA SequenceCut ==
  ASSUME NEW s, IsSequence(s), NEW m \in Nat \ {0}, NEW n \in Nat, m <= n + 1, n <= Len(s)
  PROVE  /\ IsSequence(SubSeq(s, m, n))
         /\ Len(SubSeq(s, m, n)) = n - m + 1
         /\ \A i \in 1 .. n - m + 1 : SubSeq(s, m, n)[i] = s[m + i - 1]
<1> DEFINE A == {s[j] : j \in DOMAIN s}
           t == SubSeq(s, m, n)
<1>1. Len(s) \in Nat /\ DOMAIN s = 1 .. Len(s)
  BY SequenceFacts
<1>2. \A i \in m .. n : s[i] \in A
  BY <1>1
<1> HIDE DEF A
<1>3. /\ t \in Seq(A)
      /\ Len(t) = IF m <= n THEN n - m + 1 ELSE 0
      /\ \A i \in 1 .. n - m + 1 : t[i] = s[m + i - 1]
  <2>1. m \in Int /\ n \in Int
    OBVIOUS
  <2> QED
    BY <2>1, <1>2, SubSeqProperties
<1> HIDE DEF t
<1>4. IsSequence(t)
  BY <1>3, IsSequenceOf
<1>5. Len(t) = n - m + 1
  BY <1>3
<1> QED
  BY <1>3, <1>4, <1>5 DEF t

LEMMA SequencesEqual ==
  ASSUME NEW s, IsSequence(s), NEW t, IsSequence(t), Len(s) = Len(t),
         \A i \in 1 .. Len(s) : s[i] = t[i]
  PROVE  s = t
<1> DEFINE A == {s[n] : n \in DOMAIN s}
           B == {t[n] : n \in DOMAIN t}
           S == A \union B
<1>1. s \in Seq(A) /\ t \in Seq(B)
  BY DEF IsSequence
<1>2. A \subseteq S /\ B \subseteq S
  OBVIOUS
<1> HIDE DEF A, B, S
<1>3. s \in Seq(S) /\ t \in Seq(S)
  BY <1>1, <1>2, SeqMonotonic
<1> QED
  BY <1>3, SeqEqual

\* What is left of two sequences without the beginning.
IsBehind(r, s, t, k) ==
  /\ IsSequence(s) /\ IsSequence(t) /\ IsSequence(r) /\ k \in Nat
  /\ Len(r) + k = Len(s) + Len(t)
  /\ \A i \in 1 .. Len(r) : r[i] = IF k + i <= Len(s) THEN s[k + i] ELSE t[k + i - Len(s)]

LEMMA SequenceBehind ==
  ASSUME NEW s, NEW t, NEW r, NEW k, IsBehind(r, s, t, k)
  PROVE  r = SubSeq(s \o t, k + 1, Len(s) + Len(t))
<1> DEFINE u == s \o t
           n == Len(s) + Len(t)
           v == SubSeq(u, k + 1, n)
<1>0. /\ IsSequence(s) /\ IsSequence(t) /\ IsSequence(r) /\ k \in Nat /\ Len(r) + k = Len(s) + Len(t)
      /\ \A i \in 1 .. Len(r) : r[i] = IF k + i <= Len(s) THEN s[k + i] ELSE t[k + i - Len(s)]
  BY DEF IsBehind
<1>1. Len(s) \in Nat /\ Len(t) \in Nat /\ Len(r) \in Nat
  BY <1>0, SequenceFacts
<1>2. /\ IsSequence(u) /\ Len(u) = n
      /\ \A i \in 1 .. n : u[i] = IF i <= Len(s) THEN s[i] ELSE t[i - Len(s)]
  BY <1>0, SequenceJoined, Zenon
<1>3. n \in Nat /\ k + 1 \in Nat \ {0} /\ k + 1 <= n + 1 /\ n - (k + 1) + 1 = Len(r) /\ n <= Len(u)
  BY <1>0, <1>1, <1>2
<1> HIDE DEF u, n
<1>4. /\ IsSequence(v) /\ Len(v) = Len(r)
      /\ \A i \in 1 .. Len(r) : v[i] = u[k + 1 + i - 1]
  <2>1. /\ IsSequence(v) /\ Len(v) = n - (k + 1) + 1
        /\ \A i \in 1 .. n - (k + 1) + 1 : v[i] = u[k + 1 + i - 1]
    <3> DEFINE m == k + 1
    <3>1. IsSequence(u) /\ m \in Nat \ {0} /\ n \in Nat /\ m <= n + 1 /\ n <= Len(u)
      BY <1>2, <1>3
    <3> HIDE DEF m
    <3>2. /\ IsSequence(SubSeq(u, m, n)) /\ Len(SubSeq(u, m, n)) = n - m + 1
          /\ \A i \in 1 .. n - m + 1 : SubSeq(u, m, n)[i] = u[m + i - 1]
      BY <3>1, SequenceCut, Zenon
    <3> QED
      BY <3>2, Zenon DEF m
  <2> QED
    BY <1>3, <2>1
<1> HIDE DEF v
<1>5. ASSUME NEW i \in 1 .. Len(r) PROVE r[i] = v[i]
  <2>1. k + i \in 1 .. n /\ k + 1 + i - 1 = k + i
    BY <1>0, <1>1 DEF n
  <2>2. u[k + i] = IF k + i <= Len(s) THEN s[k + i] ELSE t[k + i - Len(s)]
    BY <1>0, <1>1, <1>2, <2>1
  <2>3. v[i] = u[k + i]
    BY <1>4, <2>1
  <2> QED
    BY <1>0, <2>2, <2>3
<1>6. r = v
  BY <1>0, <1>4, <1>5, SequencesEqual
<1> QED
  BY <1>6 DEF u, n, v

(***************************************************************************)
(* EfiPrint.  What the buffer does not hold has been handed over: shown,   *)
(* or put into the string; an attribute is set for a field only, and taken *)
(* back behind it.                                                         *)
(***************************************************************************)
Handed == Len(text) - Len(Chars)

PrintTypes ==
  /\ sink \in Sinks /\ print \in Prints /\ sink.to \in Consoles \union Strings \union {"pool"}
  /\ IsSequence(text) /\ IsSequence(Chars) /\ IsSequence(str) /\ IsSequence(shown)
  /\ maxlen \in Nat /\ sank \in Nat

\* The buffer holds the last characters of the text.
BufferHolds ==
  /\ Len(Chars) <= Len(text)
  /\ \A n \in 1 .. Len(Chars) : text[Handed + n] = <<Chars[n], now>>

ConsoleHolds ==
  sink.to \in Consoles =>
    /\ Len(shown) = Handed
    /\ \A n \in 1 .. Handed : shown[n] = text[n]

StringHolds ==
  sink.to \in Strings =>
    /\ maxlen = Limit(sink.StrSize)
    /\ Len(str) = IF maxlen < Handed THEN maxlen ELSE Handed
    /\ \A n \in 1 .. Len(str) : str[n] = text[n][1]

PoolHolds ==
  sink.to = "pool" =>
    /\ Len(str) + sank = Len(sink.str) + Handed
    /\ \A n \in 1 .. Len(str) :
         str[n] = IF sank + n <= Len(sink.str) THEN sink.str[sank + n]
                  ELSE text[sank + n - Len(sink.str)][1]

SinkHolds == ConsoleHolds /\ StringHolds /\ PoolHolds

LEMMA AppendedHolds ==
  ASSUME NEW s, IsSequence(s), NEW max \in Nat, IsSequence(Chars), Len(s) <= max, Appended(s, max),
         NEW k, k = IF Len(s) + Len(Chars) > max THEN max - Len(s) ELSE Len(Chars)
  PROVE  /\ maxlen' = max /\ IsSequence(str') /\ Len(str') = Len(s) + k /\ k \in 0 .. Len(Chars)
         /\ \A n \in 1 .. Len(s) + k : str'[n] = IF n <= Len(s) THEN s[n] ELSE Chars[n - Len(s)]
<1>1. Len(s) \in Nat /\ Len(Chars) \in Nat
  BY SequenceFacts
<1>2. k \in 0 .. Len(Chars) /\ k \in Nat
  BY <1>1
<1>3. maxlen' = max /\ str' = s \o SubSeq(Chars, 1, k)
  BY DEF Appended
<1> DEFINE t == SubSeq(Chars, 1, k)
<1>4. IsSequence(t) /\ Len(t) = k /\ \A i \in 1 .. k : t[i] = Chars[i]
  <2>1. 1 \in Nat \ {0} /\ 1 <= k + 1 /\ k <= Len(Chars) /\ k - 1 + 1 = k
    BY <1>1, <1>2
  <2>2. /\ IsSequence(t) /\ Len(t) = k - 1 + 1
        /\ \A i \in 1 .. k - 1 + 1 : t[i] = Chars[1 + i - 1]
    BY <1>2, <2>1, SequenceCut
  <2> QED
    BY <1>2, <2>1, <2>2
<1> HIDE DEF t
<1>5. /\ IsSequence(s \o t) /\ Len(s \o t) = Len(s) + Len(t)
      /\ \A i \in 1 .. Len(s) + Len(t) : (s \o t)[i] = IF i <= Len(s) THEN s[i] ELSE t[i - Len(s)]
  BY <1>4, SequenceJoined, Zenon
<1>6. str' = s \o t
  BY <1>3 DEF t
<1>7. ASSUME NEW n \in 1 .. Len(s) + k
      PROVE  str'[n] = IF n <= Len(s) THEN s[n] ELSE Chars[n - Len(s)]
  BY <1>1, <1>2, <1>4, <1>5, <1>6
<1> QED
  BY <1>2, <1>3, <1>4, <1>5, <1>6, <1>7

\* A flush empties the buffer into the sink.
LEMMA FlushHolds ==
  ASSUME PrintTypes, BufferHolds, SinkHolds, sink.to \in Consoles => shown_attr = now,
         Flushed, UNCHANGED <<print, sink, text>>
  PROVE  PrintTypes' /\ BufferHolds' /\ SinkHolds' /\ Chars' = << >>
<1>1. /\ Len(text) \in Nat /\ Len(Chars) \in Nat /\ Len(str) \in Nat /\ Len(shown) \in Nat
      /\ DOMAIN Chars = 1 .. Len(Chars)
      /\ Handed \in Nat /\ Handed + Len(Chars) = Len(text)
  BY SequenceFacts DEF PrintTypes, BufferHolds, Handed
<1>2. Chars' = << >> /\ IsSequence(Chars') /\ Len(Chars') = 0
  BY SequenceEmpty DEF Flushed
<1>3. Handed' = Len(text) /\ text' = text /\ sink' = sink /\ print' = print
  BY <1>1, <1>2 DEF Handed
<1>4. BufferHolds'
  BY <1>1, <1>2, <1>3 DEF BufferHolds
<1>5. sink \in Sinks /\ IsSequence(sink.str) /\ Len(sink.str) \in Nat
  BY PrintAssumption, SequenceFacts DEF PrintTypes
<1>6. CASE sink.to \in Consoles
  <2> DEFINE t == [n \in DOMAIN Chars |-> <<Chars[n], shown_attr>>]
  <2>1. IsSequence(t) /\ Len(t) = Len(Chars)
    <3>1. t = [i \in 1 .. Len(Chars) |-> t[i]]
      BY <1>1
    <3> HIDE DEF t
    <3> QED
      BY <3>1, <1>1, SequenceOfItems
  <2>2. \A n \in 1 .. Len(Chars) : t[n] = <<Chars[n], now>>
    BY <1>1, <1>6
  <2>3. shown' = shown \o t /\ UNCHANGED <<str, maxlen, sank>>
    BY <1>6 DEF Flushed, Shown, Consoles, Strings
  <2> HIDE DEF t
  <2>4. /\ IsSequence(shown') /\ Len(shown') = Len(shown) + Len(t)
        /\ \A i \in 1 .. Len(shown) + Len(t) :
             shown'[i] = IF i <= Len(shown) THEN shown[i] ELSE t[i - Len(shown)]
    BY <2>1, <2>3, SequenceJoined, Zenon DEF PrintTypes
  <2>5. Len(shown) = Handed /\ \A n \in 1 .. Handed : shown[n] = text[n]
    BY <1>6 DEF SinkHolds, ConsoleHolds
  <2>6. ASSUME NEW n \in 1 .. Len(text) PROVE shown'[n] = text[n]
    <3>1. CASE n <= Handed
      BY <3>1, <1>1, <2>1, <2>4, <2>5
    <3>2. CASE n > Handed
      <4>1. n - Handed \in 1 .. Len(Chars) /\ Handed + (n - Handed) = n
        BY <3>2, <1>1
      <4>2. text[n] = <<Chars[n - Handed], now>>
        BY <4>1 DEF BufferHolds
      <4> QED
        BY <3>2, <4>1, <4>2, <1>1, <2>1, <2>2, <2>4, <2>5
    <3> QED
      BY <3>1, <3>2, <1>1
  <2>7. PrintTypes'
    BY <1>2, <1>3, <2>3, <2>4 DEF PrintTypes
  <2>8. ConsoleHolds'
    BY <1>1, <1>3, <2>1, <2>4, <2>5, <2>6 DEF ConsoleHolds
  <2>9. StringHolds' /\ PoolHolds'
    BY <1>3, <1>6 DEF StringHolds, PoolHolds, Consoles, Strings
  <2> QED
    BY <1>2, <1>4, <2>7, <2>8, <2>9 DEF SinkHolds
<1>7. CASE sink.to \in Strings
  <2>1. Appended(str, maxlen) /\ UNCHANGED <<shown, sank>>
    BY <1>7 DEF Flushed, Consoles, Strings
  <2> DEFINE k == IF Len(str) + Len(Chars) > maxlen THEN maxlen - Len(str) ELSE Len(Chars)
  <2>2. /\ maxlen \in Nat /\ maxlen = Limit(sink.StrSize)
        /\ Len(str) = IF maxlen < Handed THEN maxlen ELSE Handed
        /\ \A n \in 1 .. Len(str) : str[n] = text[n][1]
    BY <1>7 DEF SinkHolds, StringHolds, PrintTypes
  <2>3. Len(str) <= maxlen /\ IsSequence(str) /\ IsSequence(Chars)
    BY <1>1, <2>2 DEF PrintTypes
  <2>4. /\ maxlen' = maxlen /\ IsSequence(str') /\ Len(str') = Len(str) + k /\ k \in 0 .. Len(Chars)
        /\ \A n \in 1 .. Len(str) + k : str'[n] = IF n <= Len(str) THEN str[n] ELSE Chars[n - Len(str)]
    BY <2>1, <2>2, <2>3, AppendedHolds
  <2>5. Len(str) + k = IF maxlen < Len(text) THEN maxlen ELSE Len(text)
    BY <1>1, <2>2
  <2>6. k > 0 => Len(str) = Handed
    BY <1>1, <2>2
  <2> HIDE DEF k
  <2>7. ASSUME NEW n \in 1 .. Len(str) + k PROVE str'[n] = text[n][1]
    <3>1. CASE n <= Len(str)
      BY <3>1, <1>1, <2>2, <2>4
    <3>2. CASE n > Len(str)
      <4>1. n - Handed \in 1 .. Len(Chars) /\ Handed + (n - Handed) = n /\ Len(str) = Handed
        BY <3>2, <1>1, <2>4, <2>6
      <4>2. text[n] = <<Chars[n - Handed], now>>
        BY <4>1 DEF BufferHolds
      <4> QED
        BY <3>2, <4>1, <4>2, <2>4
    <3> QED
      BY <3>1, <3>2, <1>1, <2>4
  <2>8. PrintTypes'
    BY <1>2, <1>3, <2>1, <2>2, <2>4 DEF PrintTypes
  <2>9. StringHolds'
    BY <1>3, <2>2, <2>4, <2>5, <2>7 DEF StringHolds
  <2>10. ConsoleHolds' /\ PoolHolds'
    BY <1>3, <1>7 DEF ConsoleHolds, PoolHolds, Consoles, Strings
  <2> QED
    BY <1>2, <1>4, <2>8, <2>9, <2>10 DEF SinkHolds
<1>8. CASE sink.to = "pool"
  <2>1. Grown /\ UNCHANGED shown
    BY <1>8 DEF Flushed, Consoles, Strings
  <2>2. /\ maxlen \in Nat /\ sank \in Nat
        /\ Len(str) + sank = Len(sink.str) + Handed
        /\ \A n \in 1 .. Len(str) :
             str[n] = IF sank + n <= Len(sink.str) THEN sink.str[sank + n]
                      ELSE text[sank + n - Len(sink.str)][1]
    BY <1>8 DEF SinkHolds, PoolHolds, PrintTypes
  <2> DEFINE old == Len(sink.str)
  <2>a. Len(str) + sank = old + Handed /\ old \in Nat /\ sank \in Nat
    BY <1>5, <2>2
  <2>3. ConsoleHolds' /\ StringHolds'
    BY <1>3, <1>8 DEF ConsoleHolds, StringHolds, Consoles, Strings
  <2>4. IsSequence(str) /\ IsSequence(Chars) /\ IsSequence(text) /\ IsSequence(shown)
    BY DEF PrintTypes
  <2>5. ASSUME NEW max \in Nat, Len(str) + Len(Chars) <= max, Appended(str, max), UNCHANGED sank
        PROVE  PrintTypes' /\ PoolHolds'
    <3>1. Len(str) <= max
      BY <1>1, <2>5
    <3>2. Len(Chars) = IF Len(str) + Len(Chars) > max THEN max - Len(str) ELSE Len(Chars)
      BY <1>1, <2>5
    <3>3. /\ maxlen' = max /\ IsSequence(str') /\ Len(str') = Len(str) + Len(Chars)
          /\ \A n \in 1 .. Len(str) + Len(Chars) :
               str'[n] = IF n <= Len(str) THEN str[n] ELSE Chars[n - Len(str)]
      BY <2>4, <2>5, <3>1, <3>2, AppendedHolds
    <3>4. PrintTypes'
      BY <1>2, <1>3, <2>1, <2>2, <2>4, <2>5, <3>3 DEF PrintTypes
    <3>5. Len(str') + sank' = Len(sink.str) + Len(text)
      <4>1. Len(str') = Len(str) + Len(Chars) /\ sank' = sank
        BY <2>5, <3>3
      <4> HIDE DEF old
      <4>2. Len(str) + Len(Chars) + sank = old + Len(text)
        BY <1>1, <2>a
      <4> QED
        BY <4>1, <4>2 DEF old
    <3>6. ASSUME NEW n \in 1 .. Len(str')
          PROVE  str'[n] = IF sank + n <= Len(sink.str) THEN sink.str[sank + n]
                           ELSE text[sank + n - Len(sink.str)][1]
      <4>1. CASE n <= Len(str)
        <5>1. n \in 1 .. Len(str) /\ n \in 1 .. Len(str) + Len(Chars)
          BY <4>1, <1>1, <3>3
        <5>2. str'[n] = str[n]
          BY <4>1, <5>1, <3>3
        <5> QED
          BY <5>1, <5>2, <2>2
      <4>2. CASE n > Len(str)
        <5> DEFINE i == n - Len(str)
        <5>1. i \in 1 .. Len(Chars) /\ Handed + i = sank + n - Len(sink.str)
              /\ ~(sank + n <= Len(sink.str))
          <6>1. n \in 1 .. Len(str) + Len(Chars)
            BY <3>3
          <6> HIDE DEF old
          <6>2. i \in 1 .. Len(Chars) /\ Handed + i = sank + n - old /\ ~(sank + n <= old)
            BY <4>2, <6>1, <1>1, <2>a
          <6> QED
            BY <6>2 DEF old
        <5>2. text[Handed + i] = <<Chars[i], now>>
          BY <5>1 DEF BufferHolds
        <5>3. str'[n] = Chars[i]
          BY <4>2, <1>1, <3>3
        <5> QED
          BY <5>1, <5>2, <5>3
      <4> QED
        BY <4>1, <4>2, <1>1, <3>3
    <3> QED
      BY <1>3, <2>5, <3>4, <3>5, <3>6 DEF PoolHolds
  <2>6. ASSUME str' = << >>, maxlen' = 0, sank' = Len(sink.str) + Len(text)
        PROVE  PrintTypes' /\ PoolHolds'
    <3>1. IsSequence(str') /\ Len(str') = 0 /\ sank' \in Nat
      BY <2>6, <1>1, <1>5, SequenceEmpty
    <3>2. PrintTypes'
      BY <1>2, <1>3, <2>1, <2>4, <2>6, <3>1 DEF PrintTypes
    <3>3. PoolHolds'
      BY <1>1, <1>3, <1>5, <2>6, <3>1 DEF PoolHolds
    <3> QED
      BY <3>2, <3>3
  <2>7. PrintTypes' /\ PoolHolds'
    <3> DEFINE newlen == Len(str) + Len(Chars) + 1
    <3>1. newlen \in Nat /\ newlen + PRINT_STRING_LEN \in Nat
          /\ Len(str) + Len(Chars) <= newlen + PRINT_STRING_LEN
      BY <1>1, PrintAssumption
    <3>2. CASE newlen <= maxlen
      <4>1. Appended(str, maxlen) /\ UNCHANGED sank
        BY <2>1, <3>2 DEF Grown
      <4>2. Len(str) + Len(Chars) <= maxlen
        BY <1>1, <2>2, <3>2
      <4> QED
        BY <2>2, <2>5, <4>1, <4>2
    <3>3. CASE ~(newlen <= maxlen)
      <4>1. \/ Appended(str, newlen + PRINT_STRING_LEN) /\ UNCHANGED sank
            \/ str' = << >> /\ maxlen' = 0 /\ sank' = Len(sink.str) + Len(text)
        BY <2>1, <3>3 DEF Grown
      <4> DEFINE max == newlen + PRINT_STRING_LEN
      <4>2. max \in Nat /\ Len(str) + Len(Chars) <= max
        BY <3>1
      <4>3. CASE Appended(str, max) /\ UNCHANGED sank
        <5> HIDE DEF max
        <5> QED
          BY <2>5, <4>2, <4>3
      <4>4. CASE str' = << >> /\ maxlen' = 0 /\ sank' = Len(sink.str) + Len(text)
        BY <2>6, <4>4
      <4> QED
        BY <4>1, <4>3, <4>4
    <3> QED
      BY <3>2, <3>3
  <2> QED
    BY <1>2, <1>4, <2>3, <2>7 DEF SinkHolds
<1> QED
  BY <1>6, <1>7, <1>8 DEF PrintTypes

\* StrSize / sizeof(CHAR16) - 1 is what it says from the size of one character up.
LEMMA LimitFits ==
  ASSUME NEW StrSize \in 0 .. MaxLength
  PROVE  /\ Limit(StrSize) \in Nat
         /\ StrSize >= 2 => 2 * (Limit(StrSize) + 1) <= StrSize
<1> DEFINE M == MaxLength + 1
           h == StrSize \div 2
<1>1. M \in Nat \ {0} /\ h \in Nat /\ 2 * h <= StrSize /\ h <= MaxLength /\ (StrSize >= 2 => h >= 1)
  BY PrintAssumption
<1>2. MaxLength \in Nat /\ Limit(StrSize) = (h + MaxLength) % M
  BY PrintAssumption DEF Limit
<1> HIDE DEF M, h
<1>3. (h + MaxLength) % M \in 0 .. M - 1
  BY <1>1, <1>2
<1>4. StrSize >= 2 => (h + MaxLength) % M = h - 1
  <2>1. h + MaxLength = M * 1 + (h - 1)
    BY <1>1, <1>2 DEF M
  <2>2. StrSize >= 2 => h - 1 \in 0 .. M - 1
    BY <1>1, <1>2 DEF M
  <2>3. StrSize >= 2 => (M * 1 + (h - 1)) % M = h - 1
    BY <1>1, <2>2
  <2> QED
    BY <2>1, <2>3
<1> QED
  BY <1>1, <1>2, <1>3, <1>4

FieldSet(m) == \E k \in m + 1 .. fi : print.fmt[k] \in FieldAttributes

\* Inside an item, its beginning has been read, and an attribute comes from its letter.
FieldKnown(m) == setting # << >> \/ RestoreAttr # 0 => FieldSet(m)
InsideInv == inside => \E m \in 1 .. fi : ItemFrom(m, fi) /\ FieldKnown(m)

\* The attribute is the console's own but for a field.
SetsForField == inside /\ setting[2] = TRUE /\ RestoreAttr = 0 /\ now = sink.attr
AttributeKept ==
  /\ RestoreAttr \in {0, sink.attr}
  /\ setting = << >> /\ RestoreAttr = 0 => now = sink.attr
  /\ setting # << >> => SetsForField \/ (~inside /\ setting = <<sink.attr, FALSE>>)

AttributeBack == shown_attr = sink.attr \/ (sink.to = "console" /\ (SetsForGood \/ sink.attr = 0))

AttributeInv ==
  /\ done = "no" /\ sink.to \in Consoles => shown_attr = now
  /\ done = "no" /\ sink.to = "console" => sink.attr = 0 \/ SetsForGood \/ AttributeKept
  /\ done \in {"copy", "yes"} /\ sink.to \in Consoles => AttributeBack

EndInv ==
  /\ done \in {"no", "copy", "yes", "overrun"}
  /\ done # "no" => Chars = << >> /\ setting = << >> /\ todo = << >>
  /\ done # "no" /\ sink.to \in Strings => ended \/ maxlen = 0
  /\ done = "yes" /\ sink.to = "ascii" => ended

PrintInv ==
  /\ PrintTypes /\ BufferHolds /\ SinkHolds
  /\ fi \in 0 .. Len(print.fmt)
  /\ InsideInv /\ AttributeInv /\ EndInv

LEMMA PrintStarts == PrintInit => PrintInv
<1> SUFFICES ASSUME PrintInit PROVE PrintInv
  OBVIOUS
<1>1. /\ print \in Prints /\ sink \in Sinks /\ fi = 0 /\ inside = FALSE /\ Chars = << >> /\ setting = << >>
      /\ RestoreAttr = 0 /\ now = FirstAttr /\ shown = << >> /\ shown_attr = FirstAttr /\ text = << >>
      /\ sank = 0 /\ done = "no" /\ (StringSink \/ PoolSink \/ ConsoleSink)
  BY Zenon DEF PrintInit
<1>2. /\ IsSequence(sink.str) /\ sink.maxlen \in Nat /\ sink.StrSize \in 0 .. MaxLength
      /\ IsSequence(print.fmt)
  BY <1>1, PrintAssumption
<1>3. Len(sink.str) \in Nat /\ Len(print.fmt) \in Nat /\ Limit(sink.StrSize) \in Nat
  BY <1>2, SequenceFacts, LimitFits
<1>4. IsSequence(<< >>) /\ Len(<< >>) = 0
  BY SequenceEmpty
<1>5. /\ sink.to \in Consoles \union Strings \union {"pool"} /\ IsSequence(str) /\ maxlen \in Nat
      /\ sink.to \in Strings => maxlen = Limit(sink.StrSize) /\ Len(str) = 0
      /\ sink.to = "pool" => str = sink.str
  BY <1>1, <1>2, <1>3, <1>4 DEF StringSink, PoolSink, ConsoleSink, Consoles, Strings
<1>6. PrintTypes
  BY <1>1, <1>4, <1>5 DEF PrintTypes
<1>7. BufferHolds /\ Handed = 0 /\ Len(text) = 0
  BY <1>1, <1>4 DEF BufferHolds, Handed
<1>8. ConsoleHolds
  BY <1>1, <1>4, <1>7 DEF ConsoleHolds
<1>9. StringHolds
  BY <1>3, <1>5, <1>7 DEF StringHolds
<1>10. PoolHolds
  <2>1. CASE sink.to = "pool"
    <3>1. str = sink.str /\ sank = 0
      BY <1>1, <1>5, <2>1
    <3> QED
      BY <3>1, <1>3, <1>7 DEF PoolHolds
  <2> QED
    BY <2>1 DEF PoolHolds
<1>11. InsideInv /\ EndInv /\ fi \in 0 .. Len(print.fmt)
  BY <1>1, <1>3 DEF InsideInv, EndInv
<1>12. AttributeInv
  BY <1>1 DEF AttributeInv, AttributeKept, FirstAttr, Consoles
<1> QED
  BY <1>6, <1>7, <1>8, <1>9, <1>10, <1>11, <1>12 DEF PrintInv, SinkHolds

\* What leaves the buffer, the text and the sink alone.
LEMMA SinkUntouched ==
  ASSUME PrintInv, Unmoved, Output
  PROVE  PrintTypes' /\ BufferHolds' /\ SinkHolds'
<1>1. /\ Chars' = Chars /\ now' = now /\ text' = text /\ print' = print /\ sink' = sink /\ str' = str
      /\ maxlen' = maxlen /\ shown' = shown /\ sank' = sank /\ Handed' = Handed
  BY DEF Unmoved, Output, Handed
<1>2. PrintTypes'
  BY <1>1 DEF PrintInv, PrintTypes
<1>3. BufferHolds'
  BY <1>1 DEF PrintInv, BufferHolds
<1>4. ConsoleHolds' /\ StringHolds' /\ PoolHolds'
  BY <1>1 DEF PrintInv, SinkHolds, ConsoleHolds, StringHolds, PoolHolds
<1> QED
  BY <1>2, <1>3, <1>4 DEF SinkHolds

LEMMA FormatFacts ==
  ASSUME PrintInv
  PROVE  Len(print.fmt) \in Nat /\ fi \in Nat /\ fi <= Len(print.fmt)
<1>1. Len(print.fmt) \in Nat
  BY PrintAssumption, SequenceFacts DEF PrintInv, PrintTypes
<1> QED
  BY <1>1 DEF PrintInv

LEMMA FlushStep == PrintInv /\ PFLUSH => PrintInv'
<1> SUFFICES ASSUME PrintInv, PFLUSH PROVE PrintInv'
  OBVIOUS
<1>1. /\ done = "no" /\ Flushed
      /\ UNCHANGED <<print, sink, fi, inside, now, RestoreAttr, text, done, setting, shown_attr>>
  BY Zenon DEF PFLUSH, Format
<1>2. PrintTypes' /\ BufferHolds' /\ SinkHolds'
  BY <1>1, FlushHolds DEF PrintInv, AttributeInv
<1>3. InsideInv'
  BY <1>1 DEF PrintInv, InsideInv, FieldKnown, FieldSet, ItemFrom
<1>4. SetsForGood' = SetsForGood
  BY <1>1 DEF SetsForGood, ItemFrom
<1>5. AttributeInv'
  BY <1>1, <1>4 DEF PrintInv, AttributeInv, AttributeKept, SetsForField, Consoles
<1>6. EndInv'
  BY <1>1 DEF PrintInv, EndInv
<1> QED
  BY <1>1, <1>2, <1>3, <1>5, <1>6 DEF PrintInv

LEMMA AttributeStep == PrintInv /\ PSETATTR => PrintInv'
<1> SUFFICES ASSUME PrintInv, PSETATTR PROVE PrintInv'
  OBVIOUS
<1>1. /\ Flushed /\ UNCHANGED <<print, sink, fi, inside, text, done>>
      /\ setting # << >> /\ setting' = << >>
      /\ shown_attr' = IF sink.to \in Consoles THEN setting[1] ELSE shown_attr
      /\ now' = setting[1] /\ RestoreAttr' = IF setting[2] THEN now ELSE 0
  BY Zenon DEF PSETATTR, before_attribute
<1>2. done = "no"
  BY <1>1 DEF PrintInv, EndInv
<1>3. PrintTypes' /\ BufferHolds' /\ SinkHolds'
  BY <1>1, <1>2, FlushHolds DEF PrintInv, AttributeInv
<1>4. SetsForGood' = SetsForGood
  BY <1>1 DEF SetsForGood, ItemFrom
<1>5. InsideInv'
  <2> SUFFICES ASSUME inside
      PROVE \E m \in 1 .. fi : ItemFrom(m, fi)' /\ FieldSet(m)'
    BY Zenon, <1>1 DEF InsideInv, FieldKnown
  <2>a. \E m \in 1 .. fi : ItemFrom(m, fi) /\ FieldKnown(m)
    BY Zenon DEF PrintInv, InsideInv
  <2>1. PICK m \in 1 .. fi : ItemFrom(m, fi) /\ FieldSet(m)
    BY <1>1, <2>a DEF FieldKnown
  <2>2. ItemFrom(m, fi)' /\ FieldSet(m)'
    BY <1>1, <2>1 DEF ItemFrom, FieldSet
  <2> QED
    BY <2>2
<1>6. AttributeKept /\ sink.attr # 0 => AttributeKept'
  <2>1. CASE SetsForField
    BY <1>1, <2>1 DEF AttributeKept, SetsForField
  <2>2. CASE ~inside /\ setting = <<sink.attr, FALSE>>
    BY <1>1, <2>2 DEF AttributeKept
  <2> QED
    BY <1>1, <2>1, <2>2 DEF AttributeKept
<1>7. AttributeInv'
  BY <1>1, <1>2, <1>4, <1>6 DEF PrintInv, AttributeInv
<1>8. EndInv'
  BY <1>1, <1>2 DEF PrintInv, EndInv
<1> QED
  BY <1>1, <1>3, <1>5, <1>7, <1>8 DEF PrintInv

LEMMA CharacterStep == PrintInv /\ PPUTC => PrintInv'
<1> SUFFICES ASSUME PrintInv, PPUTC PROVE PrintInv'
  OBVIOUS
<1> DEFINE c == Head(todo)
<1>1. /\ Chars' = Append(Chars, c) /\ text' = Append(text, <<c, now>>)
      /\ UNCHANGED <<fi, inside, now, RestoreAttr, setting, done, print, sink, str, maxlen, ended, shown,
                     shown_attr, sank>>
      /\ ~Full
  BY Zenon DEF PPUTC, Output
<1>2. done = "no"
  BY DEF PPUTC, PrintInv, EndInv
<1> HIDE DEF c
<1>3. IsSequence(text) /\ IsSequence(Chars) /\ Len(text) \in Nat /\ Len(Chars) \in Nat
      /\ Handed \in Nat /\ Handed + Len(Chars) = Len(text)
  BY SequenceFacts DEF PrintInv, PrintTypes, BufferHolds, Handed
<1>4. /\ IsSequence(Chars') /\ Len(Chars') = Len(Chars) + 1
      /\ \A n \in 1 .. Len(Chars) : Chars'[n] = Chars[n]
      /\ Chars'[Len(Chars) + 1] = c
  BY <1>1, <1>3, SequenceLonger, Zenon
<1>5. /\ IsSequence(text') /\ Len(text') = Len(text) + 1
      /\ \A n \in 1 .. Len(text) : text'[n] = text[n]
      /\ text'[Len(text) + 1] = <<c, now>>
  BY <1>1, <1>3, SequenceLonger, Zenon
<1>6. Handed' = Handed
  BY <1>3, <1>4, <1>5 DEF Handed
<1>7. PrintTypes'
  BY <1>1, <1>4, <1>5 DEF PrintInv, PrintTypes
<1>8. BufferHolds'
  <2>1. ASSUME NEW n \in 1 .. Len(Chars) + 1
        PROVE  text'[Handed + n] = <<Chars'[n], now>>
    <3>1. CASE n <= Len(Chars)
      <4>1. n \in 1 .. Len(Chars) /\ Handed + n \in 1 .. Len(text)
        BY <3>1, <1>3
      <4>2. text[Handed + n] = <<Chars[n], now>>
        BY <4>1 DEF PrintInv, BufferHolds
      <4> QED
        BY <4>1, <4>2, <1>4, <1>5
    <3>2. CASE n = Len(Chars) + 1
      BY <3>2, <1>3, <1>4, <1>5
    <3> QED
      BY <3>1, <3>2, <1>3
  <2>2. Len(Chars') <= Len(text') /\ 1 .. Len(Chars') = 1 .. Len(Chars) + 1
    BY <1>3, <1>4, <1>5
  <2> QED
    BY <1>1, <1>6, <2>1, <2>2 DEF BufferHolds
<1>9. ConsoleHolds'
  BY <1>1, <1>3, <1>5, <1>6 DEF PrintInv, SinkHolds, ConsoleHolds
<1>10. StringHolds'
  <2> SUFFICES ASSUME sink.to \in Strings PROVE StringHolds'
    BY <1>1 DEF StringHolds
  <2>1. /\ maxlen \in Nat /\ maxlen = Limit(sink.StrSize)
        /\ Len(str) = IF maxlen < Handed THEN maxlen ELSE Handed
        /\ \A n \in 1 .. Len(str) : str[n] = text[n][1]
    BY DEF PrintInv, PrintTypes, SinkHolds, StringHolds
  <2>2. \A n \in 1 .. Len(str) : n \in 1 .. Len(text)
    BY <2>1, <1>3
  <2> QED
    BY <1>1, <1>5, <1>6, <2>1, <2>2 DEF StringHolds
<1>11. PoolHolds'
  <2> SUFFICES ASSUME sink.to = "pool" PROVE PoolHolds'
    BY <1>1 DEF PoolHolds
  <2> DEFINE old == Len(sink.str)
  <2>1. /\ Len(str) + sank = old + Handed
        /\ \A n \in 1 .. Len(str) :
             str[n] = IF sank + n <= old THEN sink.str[sank + n] ELSE text[sank + n - old][1]
    BY DEF PrintInv, SinkHolds, PoolHolds
  <2>2. old \in Nat /\ sank \in Nat /\ Len(str) \in Nat
    BY PrintAssumption, SequenceFacts DEF PrintInv, PrintTypes
  <2> HIDE DEF old
  <2>3. \A n \in 1 .. Len(str) : ~(sank + n <= old) => sank + n - old \in 1 .. Len(text)
    BY <2>1, <2>2, <1>3
  <2>4. \A n \in 1 .. Len(str) :
          str[n] = IF sank + n <= old THEN sink.str[sank + n] ELSE text'[sank + n - old][1]
    BY <2>1, <2>3, <1>5
  <2> QED
    BY <1>1, <1>6, <2>1, <2>4 DEF PoolHolds, old
<1>12. InsideInv'
  BY <1>1 DEF PrintInv, InsideInv, FieldKnown, FieldSet, ItemFrom
<1>13. SetsForGood' = SetsForGood
  BY <1>1 DEF SetsForGood, ItemFrom
<1>14. AttributeKept' = AttributeKept /\ AttributeBack' = AttributeBack /\ (fi \in 0 .. Len(print.fmt))'
  BY <1>1, <1>13 DEF PrintInv, AttributeKept, SetsForField, AttributeBack
<1>16. AttributeInv'
  BY <1>1, <1>13, <1>14 DEF PrintInv, AttributeInv
<1>15. EndInv'
  BY <1>1, <1>2 DEF PrintInv, EndInv
<1> QED
  BY <1>7, <1>8, <1>9, <1>10, <1>11, <1>12, <1>14, <1>15, <1>16 DEF PrintInv, SinkHolds

\* An action that reads the format and puts nothing: what is left to show.
LEMMA ReadingStep ==
  ASSUME PrintInv, Reading, Unmoved, Output, done' = done, fi' \in 0 .. Len(print.fmt), InsideInv',
         AttributeKept => AttributeKept' \/ SetsForGood
  PROVE  PrintInv'
<1>1. done = "no" /\ UNCHANGED <<print, sink, now, shown_attr>>
  BY Zenon DEF Reading, Unmoved, Output
<1>2. SetsForGood' = SetsForGood
  BY <1>1 DEF SetsForGood, ItemFrom
<1>3. AttributeInv'
  BY <1>1, <1>2 DEF PrintInv, AttributeInv
<1>4. EndInv'
  BY <1>1 DEF EndInv
<1>5. (fi \in 0 .. Len(print.fmt))'
  BY <1>1
<1> QED
  BY <1>3, <1>4, <1>5, SinkUntouched DEF PrintInv

LEMMA PlainStep == PrintInv /\ plain => PrintInv'
<1> SUFFICES ASSUME PrintInv, plain PROVE PrintInv'
  OBVIOUS
<1>1. /\ Reading /\ Unmoved /\ Output /\ done' = done /\ setting = << >> /\ ~inside /\ RestoreAttr = 0
      /\ ~AtEnd /\ fi' = fi + 1 /\ UNCHANGED <<RestoreAttr, setting, now, sink, print>>
  BY Zenon DEF plain, Reading, Unmoved, Output
<1>2. PGETC = "%" \/ UNCHANGED inside
  BY Zenon DEF plain
<1>3. Len(print.fmt) \in Nat /\ fi \in Nat /\ fi < Len(print.fmt)
  BY <1>1, FormatFacts DEF AtEnd
<1>4. fi' \in 0 .. Len(print.fmt)
  BY <1>1, <1>3
<1>5. InsideInv'
  <2>1. CASE PGETC = "%"
    <3>1. fi' \in 1 .. fi' /\ \A k \in fi' + 1 .. fi' : FALSE
      BY <1>1, <1>3
    <3>2. ItemFrom(fi, fi)'
      BY <3>1, <1>1, <2>1 DEF ItemFrom, PGETC
    <3> QED
      BY <3>1, <3>2, <1>1 DEF InsideInv, FieldKnown
  <2>2. CASE UNCHANGED inside
    BY Zenon, <1>1, <2>2 DEF InsideInv
  <2> QED
    BY <1>2, <2>1, <2>2
<1>6. AttributeKept => AttributeKept'
  BY <1>1 DEF AttributeKept
<1> QED
  BY <1>1, <1>4, <1>5, <1>6, ReadingStep

LEMMA RestoreStep == PrintInv /\ restore => PrintInv'
<1> SUFFICES ASSUME PrintInv, restore PROVE PrintInv'
  OBVIOUS
<1>1. /\ Reading /\ Unmoved /\ Output /\ done' = done /\ ~inside /\ ~inside' /\ RestoreAttr # 0
      /\ setting' = <<RestoreAttr, FALSE>> /\ UNCHANGED <<fi, RestoreAttr, now, sink, print>>
  BY Zenon DEF restore, Reading, Unmoved, Output, Sets
<1>2. fi' \in 0 .. Len(print.fmt)
  BY <1>1 DEF PrintInv
<1>3. InsideInv'
  BY Zenon, <1>1 DEF InsideInv
<1>4. AttributeKept => AttributeKept'
  BY <1>1 DEF AttributeKept
<1> QED
  BY <1>1, <1>2, <1>3, <1>4, ReadingStep

\* More of an item, whose end is not among what is read.
LEMMA ItemGoesOn ==
  ASSUME PrintInv, inside, NEW upto \in Nat, upto >= fi, upto <= Len(print.fmt),
         \A n \in fi + 1 .. upto : OfItem(print.fmt[n])
  PROVE  \E m \in 1 .. fi : ItemFrom(m, fi) /\ ItemFrom(m, upto) /\ FieldKnown(m)
<1>1. Len(print.fmt) \in Nat /\ fi \in Nat
  BY FormatFacts
<1>2. \E m \in 1 .. fi : ItemFrom(m, fi) /\ FieldKnown(m)
  BY Zenon DEF PrintInv, InsideInv
<1>3. PICK m \in 1 .. fi : ItemFrom(m, fi) /\ FieldKnown(m)
  BY <1>2
<1>4. ASSUME NEW k \in m + 1 .. upto
      PROVE  OfItem(print.fmt[k])
  <2>1. k \in m + 1 .. fi \/ k \in fi + 1 .. upto
    BY <1>1, <1>3
  <2> QED
    BY <1>3, <2>1, Zenon DEF ItemFrom
<1>5. ItemFrom(m, upto)
  BY <1>3, <1>4, Zenon DEF ItemFrom
<1> QED
  BY <1>3, <1>5

LEMMA FlagStep == PrintInv /\ flag => PrintInv'
<1> SUFFICES ASSUME PrintInv, flag PROVE PrintInv'
  OBVIOUS
<1>1. /\ Reading /\ Unmoved /\ Output /\ done' = done /\ inside /\ ~AtEnd
      /\ UNCHANGED <<inside, RestoreAttr, setting, now, sink, print>>
  BY Zenon DEF flag, Reading, Unmoved, Output
<1>2. Len(print.fmt) \in Nat /\ fi \in Nat /\ fi < Len(print.fmt)
  BY <1>1, FormatFacts DEF AtEnd
<1>3. PICK upto \in fi + 1 .. Len(print.fmt) :
        /\ fi' = upto
        /\ \A n \in fi + 1 .. upto : OfItem(print.fmt[n])
  <2>1. CASE PGETC \in {"0", "-", ",", ".", "l", "*"} /\ fi' = fi + 1
    <3>1. fi + 1 \in fi + 1 .. Len(print.fmt) /\ \A n \in fi + 1 .. fi + 1 : n = fi + 1
      BY <1>2
    <3> QED
      BY <2>1, <3>1 DEF PGETC, OfItem
  <2>2. CASE \E upto \in fi + 1 .. Len(print.fmt) :
               (\A n \in fi + 1 .. upto : IsDigit(print.fmt[n])) /\ fi' = upto
    BY <2>2 DEF OfItem
  <2>3. \/ PGETC \in {"0", "-", ",", ".", "l"} /\ fi' = fi + 1
        \/ PGETC = "*" /\ fi' = fi + 1
        \/ \E upto \in fi + 1 .. Len(print.fmt) :
             (\A n \in fi + 1 .. upto : IsDigit(print.fmt[n])) /\ fi' = upto
    BY Zenon DEF flag
  <2> QED
    BY <2>1, <2>2, <2>3
<1>4. upto \in Nat /\ upto >= fi /\ upto <= Len(print.fmt)
  BY <1>2
<1>5. PICK m \in 1 .. fi : ItemFrom(m, fi) /\ ItemFrom(m, upto) /\ FieldKnown(m)
  <2> QED
    BY <1>1, <1>3, <1>4, ItemGoesOn
<1>6. fi' = upto /\ fi' \in 0 .. Len(print.fmt)
  BY <1>3, <1>4
<1>7. InsideInv'
  <2>1. (FieldSet(m))' \/ ~FieldSet(m)
    <3>1. SUFFICES ASSUME FieldSet(m) PROVE (FieldSet(m))'
      OBVIOUS
    <3>2. PICK k \in m + 1 .. fi : print.fmt[k] \in FieldAttributes
      BY <3>1 DEF FieldSet
    <3>3. k \in m + 1 .. upto
      BY <1>2
    <3> QED
      BY <1>1, <1>3, <3>2, <3>3 DEF FieldSet, FieldAttributes
  <2>2. m \in 1 .. fi' /\ ItemFrom(m, fi)'
    <3>1. m \in 1 .. upto /\ ItemFrom(m, upto)
      BY <1>2, <1>4, <1>5
    <3> QED
      BY <3>1, <1>1, <1>6 DEF ItemFrom
  <2>3. FieldKnown(m)'
    BY <1>1, <1>5, <2>1 DEF FieldKnown
  <2> QED
    BY <2>2, <2>3 DEF InsideInv
<1>8. AttributeKept => AttributeKept'
  BY <1>1 DEF AttributeKept, SetsForField
<1> QED
  BY <1>1, <1>6, <1>7, <1>8, ReadingStep

LEMMA LetterStep == PrintInv /\ attribute => PrintInv'
<1> SUFFICES ASSUME PrintInv, attribute PROVE PrintInv'
  OBVIOUS
<1>1. /\ Reading /\ Unmoved /\ Output /\ done' = done /\ inside /\ ~AtEnd /\ setting = << >> /\ fi' = fi + 1
      /\ UNCHANGED <<RestoreAttr, now, sink, print>>
  BY Zenon DEF attribute, Reading, Unmoved, Output
<1>2. Len(print.fmt) \in Nat /\ fi \in Nat /\ fi < Len(print.fmt)
  BY <1>1, FormatFacts DEF AtEnd
<1>3. fi' \in 0 .. Len(print.fmt)
  BY <1>1, <1>2
<1>4. \/ /\ PGETC \in FieldAttributes /\ inside' = inside
         /\ setting' \in {<<Normal(sink.attr), TRUE>>, <<Highlight(sink.attr), TRUE>>, <<Yellow(sink.attr), TRUE>>}
      \/ PGETC \in {"N", "H", "E"} /\ ~inside'
  BY DEF attribute, Sets, FieldAttributes
<1>5. CASE PGETC \in {"N", "H", "E"} /\ ~inside'
  <2>1. PICK m \in 1 .. fi : ItemFrom(m, fi)
    <3>1. \E m \in 1 .. fi : ItemFrom(m, fi)
      BY Zenon, <1>1 DEF PrintInv, InsideInv
    <3> QED
      BY <3>1
  <2>2. SetsForGood
    <3> DEFINE n == fi + 1
    <3>1. m \in 1 .. Len(print.fmt) /\ n \in 1 .. Len(print.fmt) /\ m < n /\ n - 1 = fi
      BY <1>2
    <3>2. print.fmt[n] \in {"N", "H", "E"} /\ ItemFrom(m, n - 1)
      BY <1>5, <2>1, <3>1 DEF PGETC
    <3> HIDE DEF n
    <3> QED
      BY <3>1, <3>2 DEF SetsForGood
  <2>3. InsideInv'
    BY Zenon, <1>5 DEF InsideInv
  <2> QED
    BY <1>1, <1>3, <2>2, <2>3, ReadingStep
<1>6. CASE /\ PGETC \in FieldAttributes /\ inside' = inside
           /\ setting' \in {<<Normal(sink.attr), TRUE>>, <<Highlight(sink.attr), TRUE>>, <<Yellow(sink.attr), TRUE>>}
  <2>1. PICK m \in 1 .. fi : ItemFrom(m, fi) /\ ItemFrom(m, fi + 1) /\ FieldKnown(m)
    <3>1. fi + 1 \in Nat /\ fi + 1 >= fi /\ fi + 1 <= Len(print.fmt) /\ \A n \in fi + 1 .. fi + 1 : n = fi + 1
      BY <1>2
    <3>2. print.fmt[fi + 1] \in FieldAttributes
      BY <1>6 DEF PGETC
    <3>3. \A n \in fi + 1 .. fi + 1 : OfItem(print.fmt[n])
      BY <3>1, <3>2 DEF OfItem
    <3> HIDE DEF FieldAttributes
    <3> QED
      BY <1>1, <3>1, <3>3, ItemGoesOn
  <2>2. InsideInv'
    <3>1. fi + 1 \in m + 1 .. fi + 1
      BY <1>2, <2>1
    <3>2. (FieldSet(m))'
      BY <1>1, <1>6, <3>1 DEF FieldSet, PGETC
    <3>3. m \in 1 .. fi' /\ ItemFrom(m, fi)'
      <4>1. m \in 1 .. fi + 1 /\ ItemFrom(m, fi + 1)
        BY <1>2, <2>1
      <4> QED
        BY <4>1, <1>1 DEF ItemFrom
    <3> QED
      BY <3>2, <3>3 DEF InsideInv, FieldKnown
  <2>3. AttributeKept => AttributeKept' \/ SetsForGood
    <3>1. CASE RestoreAttr = 0
      <4>1. setting' # << >> /\ setting'[2] = TRUE
        <5>1. \A x : <<x, TRUE>> # << >> /\ <<x, TRUE>>[2] = TRUE
          OBVIOUS
        <5> QED
          BY <1>6, <5>1, Zenon
      <4>2. AttributeKept => now' = sink'.attr /\ RestoreAttr' = 0 /\ RestoreAttr' \in {0, sink'.attr}
        BY <1>1, <3>1 DEF AttributeKept
      <4>3. inside'
        BY Zenon, <1>1, <1>6
      <4>4. AttributeKept => SetsForField'
        BY Zenon, <4>1, <4>2, <4>3 DEF SetsForField
      <4>5. AttributeKept => (setting = << >> /\ RestoreAttr = 0 => now = sink.attr)'
        BY <4>2
      <4> QED
        BY <4>2, <4>4, <4>5 DEF AttributeKept
    <3>2. CASE RestoreAttr # 0
      <4> DEFINE n == fi + 1
      <4>1. PICK k \in m + 1 .. fi : print.fmt[k] \in FieldAttributes
        BY <2>1, <3>2 DEF FieldSet, FieldKnown
      <4>2. m \in 1 .. Len(print.fmt) /\ n \in 1 .. Len(print.fmt) /\ m < n /\ n - 1 = fi
        BY <1>2
      <4>3. print.fmt[n] \in FieldAttributes /\ ItemFrom(m, n - 1) /\ k \in m + 1 .. n - 1
        BY <1>6, <2>1, <4>2 DEF PGETC
      <4> HIDE DEF n
      <4> QED
        BY <4>1, <4>2, <4>3 DEF SetsForGood
    <3> QED
      BY <3>1, <3>2
  <2> QED
    BY <1>1, <1>3, <2>2, <2>3, ReadingStep
<1> QED
  BY <1>4, <1>5, <1>6

LEMMA ItemStep == PrintInv /\ PITEM => PrintInv'
<1> SUFFICES ASSUME PrintInv, PITEM PROVE PrintInv'
  OBVIOUS
<1>1. /\ Reading /\ Unmoved /\ Output /\ done' = done /\ ~AtEnd /\ fi' = fi + 1 /\ inside /\ ~inside'
      /\ setting = << >> /\ UNCHANGED <<RestoreAttr, setting, now, sink, print>>
  BY Zenon DEF PITEM, Reading, Unmoved, Output
<1>2. fi' \in 0 .. Len(print.fmt)
  BY <1>1, FormatFacts DEF AtEnd
<1>3. InsideInv'
  BY Zenon, <1>1 DEF InsideInv
<1>4. AttributeKept => AttributeKept'
  BY <1>1 DEF AttributeKept
<1> QED
  BY <1>1, <1>2, <1>3, <1>4, ReadingStep

LEMMA FinishStep == PrintInv /\ finish => PrintInv'
<1> SUFFICES ASSUME PrintInv, finish PROVE PrintInv'
  OBVIOUS
<1>1. /\ done = "no" /\ setting = << >> /\ todo = << >> /\ Flushed
      /\ inside \/ RestoreAttr = 0
      /\ \/ inside /\ done' = "overrun"
         \/ ~inside /\ done' = IF sink.to = "ascii" THEN "copy" ELSE "yes"
      /\ shown_attr' = IF sink.to = "debug" THEN sink.attr ELSE shown_attr
      /\ UNCHANGED <<print, sink, fi, inside, todo, now, RestoreAttr, setting, text>>
  BY Zenon DEF finish, Reading
<1>2. /\ done' \in {"copy", "yes", "overrun"} /\ (inside => done' = "overrun")
      /\ (sink.to = "ascii" => done' # "yes")
  <2>1. CASE inside /\ done' = "overrun"
    BY <2>1
  <2>2. CASE ~inside /\ done' = IF sink.to = "ascii" THEN "copy" ELSE "yes"
    BY <2>2
  <2> QED
    BY Zenon, <1>1, <2>1, <2>2
<1>3. PrintTypes' /\ BufferHolds' /\ SinkHolds' /\ Chars' = << >>
  BY <1>1, FlushHolds DEF PrintInv, AttributeInv
<1>4. InsideInv'
  BY <1>1 DEF PrintInv, InsideInv, FieldKnown, FieldSet, ItemFrom
<1>5. SetsForGood' = SetsForGood
  BY <1>1 DEF SetsForGood, ItemFrom
<1>6. AttributeInv'
  <2> SUFFICES ASSUME done' \in {"copy", "yes"}, sink.to \in Consoles PROVE AttributeBack'
    BY <1>1, <1>2 DEF AttributeInv
  <2>1. RestoreAttr = 0
    BY <1>1, <1>2
  <2>2. CASE sink.to = "debug"
    BY <1>1, <2>2 DEF AttributeBack
  <2>3. CASE sink.to = "console"
    <3>1. shown_attr = now /\ (sink.attr = 0 \/ SetsForGood \/ AttributeKept)
      BY <1>1, <2>3 DEF PrintInv, AttributeInv, Consoles
    <3> QED
      BY <1>1, <1>5, <2>1, <2>3, <3>1 DEF AttributeBack, AttributeKept
  <2> QED
    BY <2>2, <2>3 DEF Consoles
<1>7. EndInv'
  <2>1. sink.to \in Strings => ended' \/ maxlen' = 0
    <3> SUFFICES ASSUME sink.to \in Strings PROVE ended' \/ maxlen' = 0
      OBVIOUS
    <3>1. Appended(str, maxlen)
      BY <1>1 DEF Flushed, Consoles, Strings
    <3>2. maxlen' = maxlen /\ maxlen \in Nat /\ (maxlen > 0 => ended')
      BY Zenon, <3>1 DEF Appended, PrintInv, PrintTypes
    <3> QED
      BY <3>2
  <2> QED
    BY <1>1, <1>2, <1>3, <2>1 DEF EndInv
<1> QED
  BY <1>1, <1>3, <1>4, <1>6, <1>7 DEF PrintInv

LEMMA CopyStep == PrintInv /\ AsciiVSPrint => PrintInv'
<1> SUFFICES ASSUME PrintInv, AsciiVSPrint PROVE PrintInv'
  OBVIOUS
<1>1. /\ done = "copy" /\ done' = "yes" /\ ended' = TRUE
      /\ UNCHANGED <<print, sink, fi, inside, todo, Chars, now, RestoreAttr, setting, str, maxlen, shown,
                     shown_attr, text, sank>>
  BY Zenon DEF AsciiVSPrint
<1>2. Handed' = Handed
  BY <1>1 DEF Handed
<1>3. PrintTypes' /\ BufferHolds'
  BY <1>1, <1>2 DEF PrintInv, PrintTypes, BufferHolds
<1>4. SinkHolds'
  BY <1>1, <1>2 DEF PrintInv, SinkHolds, ConsoleHolds, StringHolds, PoolHolds
<1>5. InsideInv'
  BY <1>1 DEF PrintInv, InsideInv, FieldKnown, FieldSet, ItemFrom
<1>6. SetsForGood' = SetsForGood
  BY <1>1 DEF SetsForGood, ItemFrom
<1>7. AttributeInv' /\ EndInv'
  BY <1>1, <1>6 DEF PrintInv, AttributeInv, AttributeBack, EndInv
<1> QED
  BY <1>1, <1>3, <1>4, <1>5, <1>7 DEF PrintInv

LEMMA PrintStutters == PrintInv /\ UNCHANGED print_vars => PrintInv'
<1> SUFFICES ASSUME PrintInv, UNCHANGED print_vars PROVE PrintInv'
  OBVIOUS
<1>1. /\ Unmoved /\ Output
      /\ UNCHANGED <<print, sink, fi, inside, todo, Chars, now, RestoreAttr, setting, maxlen, ended, shown_attr, done>>
  BY Zenon DEF print_vars, Unmoved, Output
<1>2. PrintTypes' /\ BufferHolds' /\ SinkHolds'
  BY <1>1, SinkUntouched
<1>3. InsideInv'
  BY <1>1 DEF PrintInv, InsideInv, FieldKnown, FieldSet, ItemFrom
<1>4. SetsForGood' = SetsForGood
  BY <1>1 DEF SetsForGood, ItemFrom
<1>5. AttributeKept' = AttributeKept /\ AttributeBack' = AttributeBack
  BY <1>1, <1>4 DEF AttributeKept, SetsForField, AttributeBack
<1>6. AttributeInv' /\ EndInv'
  BY <1>1, <1>4, <1>5 DEF PrintInv, AttributeInv, EndInv
<1> QED
  BY <1>1, <1>2, <1>3, <1>6 DEF PrintInv

LEMMA PrintInvariant == PrintSpec => []PrintInv
<1>1. PrintInv /\ [PrintNext]_print_vars => PrintInv'
  BY FlushStep, AttributeStep, CharacterStep, PlainStep, RestoreStep, FinishStep, FlagStep, LetterStep, ItemStep,
     CopyStep, PrintStutters, Zenon DEF PrintNext, IPrint
<1> QED
  BY <1>1, PrintStarts, PTL DEF PrintSpec

\* Every character that is put arrives, with its attribute, and in its place; and the
\* console has its own attribute again (see TextArrives in EfiPrint).
THEOREM TextStaysWhole == PrintSpec => []TextArrives
<1>1. PrintInv => TextArrives
  <2> SUFFICES ASSUME PrintInv, done = "yes"
      PROVE CASE sink.to \in Consoles ->
                   /\ shown = text
                   /\ \/ shown_attr = sink.attr
                      \/ sink.to = "console" /\ (SetsForGood \/ sink.attr = 0)
              [] sink.to \in Strings ->
                   /\ str = SubSeq(Characters, 1, IF maxlen < Len(text) THEN maxlen ELSE Len(text))
                   /\ sink.StrSize >= 2 => 2 * (Len(str) + 1) <= sink.StrSize
                   /\ ended \/ (sink.to = "string" /\ maxlen = 0)
              [] sink.to = "pool" ->
                   str = SubSeq(sink.str \o Characters, sank + 1, Len(sink.str) + Len(text))
    BY Zenon DEF TextArrives
  <2>1. /\ IsSequence(text) /\ IsSequence(str) /\ IsSequence(shown) /\ IsSequence(sink.str)
        /\ sink \in Sinks /\ sink.StrSize \in 0 .. MaxLength /\ maxlen \in Nat /\ sank \in Nat
        /\ sink.to \in Consoles \union Strings \union {"pool"}
    BY PrintAssumption DEF PrintInv, PrintTypes
  <2>2. /\ Len(text) \in Nat /\ DOMAIN text = 1 .. Len(text) /\ Len(str) \in Nat
        /\ Len(shown) \in Nat /\ Len(sink.str) \in Nat
    BY <2>1, SequenceFacts
  <2>3. Handed = Len(text)
    BY <2>2, SequenceEmpty DEF PrintInv, EndInv, Handed
  <2>4. /\ IsSequence(Characters) /\ Len(Characters) = Len(text)
        /\ \A n \in 1 .. Len(text) : Characters[n] = text[n][1]
    <3>1. Characters = [n \in 1 .. Len(text) |-> Characters[n]]
      BY <2>2 DEF Characters
    <3>2. IsSequence(Characters) /\ Len(Characters) = Len(text)
      BY <3>1, <2>2, SequenceOfItems
    <3> QED
      BY <3>2, <2>2 DEF Characters
  <2>5. ASSUME sink.to \in Consoles
        PROVE  shown = text /\ AttributeBack
    <3>1. Len(shown) = Len(text) /\ \A n \in 1 .. Len(text) : shown[n] = text[n]
      BY <2>3, <2>5 DEF PrintInv, SinkHolds, ConsoleHolds
    <3> QED
      BY <2>1, <2>5, <3>1, SequencesEqual DEF PrintInv, AttributeInv
  <2>6. ASSUME sink.to \in Strings
        PROVE  /\ str = SubSeq(Characters, 1, IF maxlen < Len(text) THEN maxlen ELSE Len(text))
               /\ sink.StrSize >= 2 => 2 * (Len(str) + 1) <= sink.StrSize
               /\ ended \/ (sink.to = "string" /\ maxlen = 0)
    <3> DEFINE n == IF maxlen < Len(text) THEN maxlen ELSE Len(text)
    <3>1. /\ maxlen = Limit(sink.StrSize) /\ Len(str) = n
          /\ \A i \in 1 .. Len(str) : str[i] = text[i][1]
      BY <2>3, <2>6 DEF PrintInv, SinkHolds, StringHolds
    <3>2. n \in Nat /\ n <= Len(text) /\ n <= maxlen
      BY <2>1, <2>2
    <3> HIDE DEF n
    <3>3. /\ IsSequence(SubSeq(Characters, 1, n)) /\ Len(SubSeq(Characters, 1, n)) = n
          /\ \A i \in 1 .. n : SubSeq(Characters, 1, n)[i] = Characters[i]
      <4>1. 1 \in Nat \ {0} /\ 1 <= n + 1 /\ n <= Len(Characters) /\ n - 1 + 1 = n
        BY <2>4, <3>2
      <4>2. /\ IsSequence(SubSeq(Characters, 1, n)) /\ Len(SubSeq(Characters, 1, n)) = n - 1 + 1
            /\ \A i \in 1 .. n - 1 + 1 : SubSeq(Characters, 1, n)[i] = Characters[1 + i - 1]
        BY <2>4, <3>2, <4>1, SequenceCut
      <4> QED
        BY <3>2, <4>1, <4>2
    <3>4. \A i \in 1 .. n : i \in 1 .. Len(text)
      BY <2>2, <3>2
    <3>5. str = SubSeq(Characters, 1, n)
      <4> DEFINE t == SubSeq(Characters, 1, n)
      <4>1. IsSequence(t) /\ Len(t) = n /\ \A i \in 1 .. n : t[i] = Characters[i]
        BY <3>3
      <4> HIDE DEF t
      <4>2. \A i \in 1 .. Len(str) : str[i] = t[i]
        BY <2>4, <3>1, <3>4, <4>1
      <4>3. str = t
        BY <2>1, <3>1, <4>1, <4>2, SequencesEqual
      <4> QED
        BY <4>3 DEF t
    <3>6. sink.StrSize >= 2 => 2 * (Len(str) + 1) <= sink.StrSize
      BY <2>1, <3>1, <3>2, LimitFits
    <3>7. ended \/ (sink.to = "string" /\ maxlen = 0)
      BY <2>6, Zenon DEF PrintInv, EndInv, Strings
    <3> QED
      BY <3>5, <3>6, <3>7 DEF n
  <2>7. ASSUME sink.to = "pool"
        PROVE  str = SubSeq(sink.str \o Characters, sank + 1, Len(sink.str) + Len(text))
    <3> DEFINE old == sink.str
               characters == Characters
    <3>1. /\ Len(str) + sank = Len(old) + Len(text)
          /\ \A i \in 1 .. Len(str) :
               str[i] = IF sank + i <= Len(old) THEN old[sank + i] ELSE text[sank + i - Len(old)][1]
      BY <2>3, <2>7 DEF PrintInv, SinkHolds, PoolHolds
    <3>2. IsSequence(old) /\ Len(old) \in Nat
      BY <2>1, <2>2
    <3>3. IsSequence(characters) /\ Len(characters) = Len(text)
      BY <2>4
    <3>4. ASSUME NEW i \in 1 .. Len(str), ~(sank + i <= Len(old))
          PROVE  text[sank + i - Len(old)][1] = characters[sank + i - Len(old)]
      <4> HIDE DEF old
      <4>1. sank + i - Len(old) \in 1 .. Len(text)
        BY <2>1, <2>2, <3>1, <3>2, <3>4
      <4> QED
        BY <2>4, <4>1
    <3> HIDE DEF old, characters
    <3>5. \A i \in 1 .. Len(str) :
            str[i] = IF sank + i <= Len(old) THEN old[sank + i] ELSE characters[sank + i - Len(old)]
      BY <3>1, <3>4
    <3>6. Len(str) + sank = Len(old) + Len(characters)
      BY <3>1, <3>3
    <3>7. str = SubSeq(old \o characters, sank + 1, Len(old) + Len(characters))
      <4>1. IsBehind(str, old, characters, sank)
        BY <2>1, <3>2, <3>3, <3>5, <3>6 DEF IsBehind
      <4> QED
        BY <4>1, SequenceBehind, Zenon
    <3> QED
      BY <3>3, <3>7 DEF old, characters
  <2>8. CASE sink.to \in Consoles
    <3>1. ~(sink.to \in Strings) /\ sink.to # "pool"
      BY <2>8 DEF Consoles, Strings
    <3> QED
      BY <2>5, <2>8, <3>1 DEF AttributeBack
  <2>9. CASE sink.to \in Strings
    <3>1. ~(sink.to \in Consoles) /\ sink.to # "pool"
      BY <2>9 DEF Consoles, Strings
    <3> QED
      BY <2>6, <2>9, <3>1
  <2>10. CASE sink.to = "pool"
    <3>1. ~(sink.to \in Consoles) /\ ~(sink.to \in Strings)
      BY <2>10 DEF Consoles, Strings
    <3> QED
      BY <2>7, <2>10, <3>1
  <2> QED
    BY <2>1, <2>8, <2>9, <2>10
<1> QED
  BY <1>1, PrintInvariant, PTL
-------------------------------------------------------------------------------
(***************************************************************************)
(* The resident driver.  No handle has the protocol twice; an image that   *)
(* has it is in memory or has been forgotten; and while the program is at  *)
(* its loop, what it has shown and what is still before it are the handles *)
(* that the firmware has, in that order.                                   *)
(***************************************************************************)
Distinct(r) == \A m, n \in 1 .. Len(r) : r[m] = r[n] => m = n

Greeting == [image : Images, number : Nat]

Played ==
  /\ Len(user.shown) + Len(user.Handles) = Len(instances)
  /\ \A n \in 1 .. Len(user.shown) :
       /\ user.shown[n].image = instances[n]
       /\ user.shown[n].number # 0 => user.shown[n].number = hellos[user.shown[n].image]
  /\ \A n \in 1 .. Len(user.Handles) : user.Handles[n] = instances[Len(user.shown) + n]

DriverInv ==
  /\ instances \in Seq(Images) /\ Distinct(instances)
  /\ ToSet(instances) = resident \union forgotten /\ resident \intersect forgotten = {}
  /\ Counter \in [Images -> Nat] /\ hellos = Counter
  /\ user \in [at : {"none", "playing", "lost"}, Handles : Seq(Images), shown : Seq(Greeting)]
  /\ user.at = "lost" => Head(user.Handles) \in forgotten
  /\ user.at = "playing" => Played

LEMMA Uninstalled ==
  ASSUME NEW r \in Seq(Images), Distinct(r), NEW k \in 1 .. Len(r)
  PROVE  /\ RemoveAt(r, k) \in Seq(Images) /\ Distinct(RemoveAt(r, k))
         /\ ToSet(RemoveAt(r, k)) = ToSet(r) \ {r[k]}
<1> DEFINE s == RemoveAt(r, k)
<1>0. /\ s \in Seq(Images) /\ Len(s) = Len(r) - 1
      /\ \A j \in 1 .. Len(r) - 1 : s[j] = IF j < k THEN r[j] ELSE r[j + 1]
  BY RemoveAtElements
<1> HIDE DEF s
<1>1. /\ s \in Seq(Images) /\ Len(s) = Len(r) - 1 /\ Len(r) \in Nat /\ Len(s) \in Nat
      /\ \A j \in 1 .. Len(r) - 1 : s[j] = IF j < k THEN r[j] ELSE r[j + 1]
      /\ DOMAIN s = 1 .. Len(s) /\ DOMAIN r = 1 .. Len(r)
  BY <1>0
<1>2. ASSUME NEW m \in 1 .. Len(s), NEW n \in 1 .. Len(s), s[m] = s[n]
      PROVE  m = n
  <2> DEFINE from(j) == IF j < k THEN j ELSE j + 1
  <2>1. from(m) \in 1 .. Len(r) /\ from(n) \in 1 .. Len(r) /\ s[m] = r[from(m)] /\ s[n] = r[from(n)]
    BY <1>1
  <2>2. from(m) = from(n)
    BY <1>2, <2>1 DEF Distinct
  <2> QED
    BY <2>2
<1>3. ASSUME NEW x
      PROVE  x \in ToSet(s) <=> x \in ToSet(r) \ {r[k]}
  <2>1. ASSUME x \in ToSet(s)
        PROVE  x \in ToSet(r) \ {r[k]}
    <3>1. PICK j \in 1 .. Len(s) : x = s[j]
      BY <1>1, <2>1 DEF ToSet
    <3> DEFINE from == IF j < k THEN j ELSE j + 1
    <3>2. from \in 1 .. Len(r) /\ x = r[from] /\ from # k
      BY <1>1, <3>1
    <3> HIDE DEF from
    <3> QED
      BY <1>1, <3>2 DEF ToSet, Distinct
  <2>2. ASSUME x \in ToSet(r) \ {r[k]}
        PROVE  x \in ToSet(s)
    <3>1. PICK j \in 1 .. Len(r) : x = r[j] /\ j # k
      BY <1>1, <2>2 DEF ToSet
    <3> DEFINE to == IF j < k THEN j ELSE j - 1
    <3>2. to \in 1 .. Len(s) /\ s[to] = x
      BY <1>1, <3>1
    <3> HIDE DEF to
    <3> QED
      BY <1>1, <3>2 DEF ToSet
  <2> QED
    BY <2>1, <2>2
<1> QED
  BY <1>1, <1>2, <1>3 DEF Distinct, s

LEMMA Installed ==
  ASSUME NEW r \in Seq(Images), Distinct(r), NEW drv0 \in Images, drv0 \notin ToSet(r)
  PROVE  /\ Append(r, drv0) \in Seq(Images) /\ Distinct(Append(r, drv0))
         /\ ToSet(Append(r, drv0)) = ToSet(r) \union {drv0}
<1> DEFINE s == Append(r, drv0)
<1>1. /\ s \in Seq(Images) /\ Len(s) = Len(r) + 1 /\ Len(r) \in Nat
      /\ \A j \in 1 .. Len(r) : s[j] = r[j]
      /\ s[Len(r) + 1] = drv0
      /\ DOMAIN s = 1 .. Len(s) /\ DOMAIN r = 1 .. Len(r)
  BY AppendProperties, LenProperties
<1> HIDE DEF s
<1>2. \A j \in 1 .. Len(r) : s[j] # drv0
  BY <1>1 DEF ToSet
<1>3. Distinct(s)
  <2> SUFFICES ASSUME NEW m \in 1 .. Len(s), NEW n \in 1 .. Len(s), s[m] = s[n]
               PROVE  m = n
    BY DEF Distinct
  <2>1. CASE m \in 1 .. Len(r) /\ n \in 1 .. Len(r)
    BY <1>1, <2>1 DEF Distinct
  <2>2. CASE m = Len(r) + 1 /\ n = Len(r) + 1
    BY <2>2
  <2>3. CASE m = Len(r) + 1 /\ n \in 1 .. Len(r)
    BY <1>1, <1>2, <2>3
  <2>4. CASE n = Len(r) + 1 /\ m \in 1 .. Len(r)
    BY <1>1, <1>2, <2>4
  <2> QED
    BY <1>1, <2>1, <2>2, <2>3, <2>4
<1>4. ASSUME NEW x
      PROVE  x \in ToSet(s) <=> x \in ToSet(r) \union {drv0}
  <2>1. x \in ToSet(s) <=> \E j \in 1 .. Len(r) + 1 : x = s[j]
    BY <1>1 DEF ToSet
  <2>2. x \in ToSet(r) <=> \E j \in 1 .. Len(r) : x = s[j]
    BY <1>1 DEF ToSet
  <2> QED
    BY <1>1, <2>1, <2>2
<1> QED
  BY <1>1, <1>3, <1>4 DEF s

\* One more instance has been greeted, or has not been opened.
LEMMA OneMoreShown ==
  ASSUME DriverInv, user.at = "playing", user.Handles # << >>, NEW as \in Nat,
         user' = [user EXCEPT !.Handles = Tail(@),
                              !.shown = Append(@, [image |-> Head(user.Handles), number |-> as])],
         instances' = instances,
         \A other \in Images : other # Head(user.Handles) => hellos'[other] = hellos[other],
         as # 0 => as = hellos'[Head(user.Handles)]
  PROVE  /\ user' \in [at : {"none", "playing", "lost"}, Handles : Seq(Images), shown : Seq(Greeting)]
         /\ user'.at = "playing" /\ Played'
<1> DEFINE h == user.Handles
           before == user.shown
           k == Len(before)
           x == [image |-> Head(h), number |-> as]
           t == Tail(h)
           s == Append(before, x)
<1>1. /\ h \in Seq(Images) /\ before \in Seq(Greeting) /\ h # << >>
      /\ instances \in Seq(Images) /\ Distinct(instances)
  BY DEF DriverInv
<1>2. /\ k + Len(h) = Len(instances)
      /\ \A n \in 1 .. k : /\ before[n].image = instances[n]
                           /\ before[n].number # 0 => before[n].number = hellos[before[n].image]
      /\ \A n \in 1 .. Len(h) : h[n] = instances[k + n]
  BY DEF DriverInv, Played
<1>3. user' = [at |-> "playing", Handles |-> t, shown |-> s]
  BY DEF DriverInv
<1>4. user'.at = "playing" /\ user'.Handles = t /\ user'.shown = s
  BY <1>3
<1>5. /\ \A other \in Images : other # Head(h) => hellos'[other] = hellos[other]
      /\ as # 0 => as = hellos'[Head(h)]
  OBVIOUS
<1> HIDE DEF h, before
<1>6. k \in Nat /\ Len(h) \in Nat \ {0} /\ Len(instances) \in Nat
  BY <1>1, EmptySeq, LenProperties
<1>7. /\ Head(h) = h[1] /\ Head(h) \in Images /\ t \in Seq(Images) /\ Len(t) = Len(h) - 1
      /\ \A n \in 1 .. Len(h) - 1 : t[n] = h[n + 1]
  BY <1>1, <1>6, HeadTailProperties
<1> HIDE DEF t
<1>8. /\ s \in Seq(Greeting) /\ Len(s) = k + 1 /\ s[k + 1] = x
      /\ \A n \in 1 .. k : s[n] = before[n]
  <2>1. x \in Greeting
    BY <1>7 DEF Greeting
  <2> HIDE DEF x
  <2> QED
    BY <1>1, <2>1, AppendProperties
<1>9. x.image = Head(h) /\ x.number = as
  OBVIOUS
<1> HIDE DEF k, s, x
<1>10. Head(h) = instances[k + 1] /\ k + 1 \in 1 .. Len(instances)
  <2>1. 1 \in 1 .. Len(h)
    BY <1>6
  <2> QED
    BY <1>2, <1>6, <1>7, <2>1
<1>11. ASSUME NEW n \in 1 .. k + 1
       PROVE  /\ s[n].image = instances[n]
              /\ s[n].number # 0 => s[n].number = hellos'[s[n].image]
  <2>1. CASE n = k + 1
    BY <1>5, <1>8, <1>9, <1>10, <2>1
  <2>2. CASE n \in 1 .. k
    <3>1. n \in 1 .. Len(instances) /\ n # k + 1
      BY <1>2, <1>6, <2>2
    <3>2. instances[n] # Head(h) /\ instances[n] \in Images
      BY <1>1, <1>10, <3>1 DEF Distinct
    <3>3. s[n] = before[n] /\ before[n].image = instances[n] /\ hellos'[instances[n]] = hellos[instances[n]]
      BY <1>2, <1>5, <1>8, <2>2, <3>2
    <3> QED
      BY <1>2, <2>2, <3>3
  <2> QED
    BY <1>6, <2>1, <2>2
<1>12. ASSUME NEW n \in 1 .. Len(t)
       PROVE  t[n] = instances[k + 1 + n]
  <2>1. n + 1 \in 1 .. Len(h) /\ n \in 1 .. Len(h) - 1 /\ k + (n + 1) = k + 1 + n
    BY <1>6, <1>7
  <2> QED
    BY <1>2, <1>7, <2>1
<1>13. Len(s) + Len(t) = Len(instances)
  BY <1>2, <1>6, <1>7, <1>8
<1>14. Played'
  <2>1. instances' = instances
    OBVIOUS
  <2>2. \A n \in 1 .. Len(s) : n \in 1 .. k + 1
    BY <1>8
  <2>3. \A n \in 1 .. Len(t) : t[n] = instances[Len(s) + n]
    BY <1>8, <1>12
  <2>4. \A n \in 1 .. Len(s) : /\ s[n].image = instances[n]
                               /\ s[n].number # 0 => s[n].number = hellos'[s[n].image]
    BY <1>11, <2>2
  <2>5. Played' <=> /\ Len(user'.shown) + Len(user'.Handles) = Len(instances')
                    /\ \A n \in 1 .. Len(user'.shown) :
                         /\ user'.shown[n].image = instances'[n]
                         /\ user'.shown[n].number # 0 => user'.shown[n].number = hellos'[user'.shown[n].image]
                    /\ \A n \in 1 .. Len(user'.Handles) :
                         user'.Handles[n] = instances'[Len(user'.shown) + n]
    BY DEF Played
  <2>6. Len(user'.shown) + Len(user'.Handles) = Len(instances')
    BY <1>4, <1>13, <2>1
  <2>7. \A n \in 1 .. Len(user'.shown) :
          /\ user'.shown[n].image = instances'[n]
          /\ user'.shown[n].number # 0 => user'.shown[n].number = hellos'[user'.shown[n].image]
    BY <1>4, <2>1, <2>4
  <2>8. \A n \in 1 .. Len(user'.Handles) : user'.Handles[n] = instances'[Len(user'.shown) + n]
    BY <1>4, <2>1, <2>3
  <2> QED
    BY <2>5, <2>6, <2>7, <2>8
<1> QED
  BY <1>3, <1>4, <1>7, <1>8, <1>14

LEMMA DriverStays == DriverInv /\ [DriverNext]_driver_vars => DriverInv'
<1> SUFFICES ASSUME DriverInv, [DriverNext]_driver_vars PROVE DriverInv'
  OBVIOUS
<1>0. /\ instances \in Seq(Images) /\ Distinct(instances)
      /\ ToSet(instances) = resident \union forgotten /\ resident \intersect forgotten = {}
      /\ Counter \in [Images -> Nat] /\ hellos = Counter
      /\ user \in [at : {"none", "playing", "lost"}, Handles : Seq(Images), shown : Seq(Greeting)]
  BY DEF DriverInv
<1>1. ASSUME NEW drv0 \in Images, load_driver(drv0)
      PROVE  DriverInv'
  <2>1. /\ user.at = "none" /\ drv0 \notin resident \union ToSet(instances)
        /\ Counter' = [Counter EXCEPT ![drv0] = 0] /\ hellos' = [hellos EXCEPT ![drv0] = 0]
        /\ user' = user /\ forgotten' = forgotten
    BY <1>1 DEF load_driver, Command
  <2>2. Counter' \in [Images -> Nat] /\ hellos' = Counter'
    BY <1>0, <2>1
  <2>3. CASE resident' = resident \union {drv0} /\ instances' = Append(instances, drv0)
    <3>1. /\ instances' \in Seq(Images) /\ Distinct(instances')
          /\ ToSet(instances') = ToSet(instances) \union {drv0}
      BY <1>0, <2>1, <2>3, Installed
    <3>2. drv0 \notin forgotten
      BY <1>0, <2>1
    <3> QED
      BY <1>0, <2>1, <2>2, <2>3, <3>1, <3>2 DEF DriverInv, Distinct
  <2>4. CASE resident' = resident /\ instances' = instances
    BY <1>0, <2>1, <2>2, <2>4 DEF DriverInv
  <2> QED
    BY <1>1, <2>3, <2>4 DEF load_driver
<1>2. ASSUME NEW drv0 \in Images, unload_driver(drv0)
      PROVE  DriverInv'
  <2>1. /\ user.at = "none" /\ drv0 \in resident /\ Drv0Unload(drv0)
        /\ resident' = resident \ {drv0} /\ Counter' = Counter /\ hellos' = hellos /\ user' = user
    BY <1>2 DEF unload_driver, Command
  <2>2. CASE /\ forgotten' = forgotten
             /\ \E n \in DOMAIN instances : instances[n] = drv0 /\ instances' = RemoveAt(instances, n)
    <3>1. PICK n \in 1 .. Len(instances) : instances[n] = drv0 /\ instances' = RemoveAt(instances, n)
      BY <1>0, <2>2, LenProperties
    <3>2. /\ instances' \in Seq(Images) /\ Distinct(instances')
          /\ ToSet(instances') = ToSet(instances) \ {drv0}
      BY <1>0, <3>1, Uninstalled
    <3>3. drv0 \notin forgotten
      BY <1>0, <2>1
    <3>4. /\ ToSet(instances') = resident' \union forgotten'
          /\ resident' \intersect forgotten' = {}
      BY <1>0, <2>1, <2>2, <3>2, <3>3
    <3> QED
      BY <1>0, <2>1, <2>2, <3>2, <3>4 DEF DriverInv, Distinct
  <2>3. CASE forgotten' = forgotten \union {drv0} /\ instances' = instances
    BY <1>0, <2>1, <2>3 DEF DriverInv
  <2> QED
    BY <2>1, <2>2, <2>3 DEF Drv0Unload
<1>3. CASE locate_drivers
  <2>1. /\ user.at = "none" /\ UNCHANGED <<resident, instances, Counter, hellos, forgotten>>
        /\ \/ user' = [at |-> "playing", Handles |-> instances, shown |-> << >>]
           \/ user' = user
    BY <1>3 DEF locate_drivers, Command
  <2>2. CASE user' = [at |-> "playing", Handles |-> instances, shown |-> << >>]
    <3>1. user'.at = "playing" /\ user'.Handles = instances /\ user'.shown = << >> /\ Len(user'.shown) = 0
      BY <2>2
    <3>2. user' \in [at : {"none", "playing", "lost"}, Handles : Seq(Images), shown : Seq(Greeting)]
      BY <1>0, <2>2
    <3>3. Played'
      <4>1. Len(instances) \in Nat /\ \A n \in 1 .. Len(instances) : 0 + n = n
        BY <1>0
      <4> QED
        BY <2>1, <3>1, <4>1 DEF Played
    <3> QED
      BY <1>0, <2>1, <3>1, <3>2, <3>3 DEF DriverInv, Distinct
  <2>3. CASE user' = user
    BY <1>0, <2>1, <2>3 DEF DriverInv
  <2> QED
    BY <2>1, <2>2, <2>3
<1>4. CASE PlayWithGnuEfiAppsDrv0Protocol
  <2> DEFINE drv0 == Head(user.Handles)
             play(as) == user' = [user EXCEPT !.Handles = Tail(@),
                                              !.shown = Append(@, [image |-> drv0, number |-> as])]
  <2>1. /\ user.at = "playing" /\ user.Handles # << >>
        /\ UNCHANGED <<resident, instances, forgotten>>
        /\ \/ play(0) /\ UNCHANGED <<Counter, hellos>>
           \/ /\ Drv0SayHello(drv0) /\ play(Drv0GetNumberOfHello(drv0))
              /\ hellos' = [hellos EXCEPT ![drv0] = @ + 1]
           \/ /\ drv0 \notin resident
              /\ user' = [user EXCEPT !.at = "lost"] /\ UNCHANGED <<Counter, hellos>>
    BY <1>4 DEF PlayWithGnuEfiAppsDrv0Protocol
  <2>2. drv0 \in Images /\ user.Handles \in Seq(Images)
    BY <1>0, <2>1, HeadTailProperties
  <2> HIDE DEF drv0
  <2>3. CASE play(0) /\ UNCHANGED <<Counter, hellos>>
    <3>1. /\ user' \in [at : {"none", "playing", "lost"}, Handles : Seq(Images), shown : Seq(Greeting)]
          /\ user'.at = "playing" /\ Played'
      BY <2>1, <2>3, OneMoreShown DEF drv0
    <3> QED
      BY <1>0, <2>1, <2>3, <3>1 DEF DriverInv, Distinct
  <2>4. CASE /\ Drv0SayHello(drv0) /\ play(Drv0GetNumberOfHello(drv0))
             /\ hellos' = [hellos EXCEPT ![drv0] = @ + 1]
    <3>1. Counter' = [Counter EXCEPT ![drv0] = @ + 1] /\ hellos' = Counter'
      BY <1>0, <2>4 DEF Drv0SayHello
    <3>2. Counter' \in [Images -> Nat] /\ Counter'[drv0] \in Nat /\ Counter'[drv0] = hellos'[drv0]
      BY <1>0, <2>2, <3>1
    <3>3. \A other \in Images : other # drv0 => hellos'[other] = hellos[other]
      BY <1>0, <2>4
    <3>4. play(Counter'[drv0])
      BY <2>4 DEF Drv0GetNumberOfHello
    <3>5. /\ user' \in [at : {"none", "playing", "lost"}, Handles : Seq(Images), shown : Seq(Greeting)]
          /\ user'.at = "playing" /\ Played'
      BY <2>1, <3>2, <3>3, <3>4, OneMoreShown DEF drv0
    <3> QED
      BY <1>0, <2>1, <3>1, <3>2, <3>5 DEF DriverInv, Distinct
  <2>5. CASE /\ drv0 \notin resident
             /\ user' = [user EXCEPT !.at = "lost"] /\ UNCHANGED <<Counter, hellos>>
    <3>1. drv0 \in ToSet(instances)
      <4>1. Len(user.Handles) \in Nat \ {0} /\ Len(user.shown) \in Nat /\ Len(instances) \in Nat
        BY <1>0, <2>1, EmptySeq, LenProperties
      <4>2. drv0 = user.Handles[1]
        BY <1>0, <2>1, HeadTailProperties DEF drv0
      <4>3. /\ Len(user.shown) + Len(user.Handles) = Len(instances)
            /\ \A n \in 1 .. Len(user.Handles) : user.Handles[n] = instances[Len(user.shown) + n]
        BY <2>1 DEF DriverInv, Played
      <4>4. 1 \in 1 .. Len(user.Handles) /\ Len(user.shown) + 1 \in 1 .. Len(instances)
        <5> DEFINE a == Len(user.Handles)
                   b == Len(user.shown)
                   c == Len(instances)
        <5>1. a \in Nat \ {0} /\ b \in Nat /\ c \in Nat /\ b + a = c
          BY <4>1, <4>3
        <5> HIDE DEF a, b, c
        <5>2. 1 \in 1 .. a /\ b + 1 \in 1 .. c
          BY <5>1
        <5> QED
          BY <5>2 DEF a, b, c
      <4>5. drv0 = instances[Len(user.shown) + 1]
        BY <4>2, <4>3, <4>4
      <4> QED
        BY <1>0, <4>4, <4>5, LenProperties DEF ToSet
    <3>2. drv0 \in forgotten
      BY <1>0, <2>5, <3>1
    <3>3. /\ user'.at = "lost" /\ user'.Handles = user.Handles
          /\ user' \in [at : {"none", "playing", "lost"}, Handles : Seq(Images), shown : Seq(Greeting)]
      BY <1>0, <2>5
    <3> QED
      BY <1>0, <2>1, <2>5, <3>2, <3>3 DEF DriverInv, Distinct, drv0
  <2> QED
    BY <2>1, <2>3, <2>4, <2>5
<1>5. CASE drivers_played
  <2>1. /\ user' = [user EXCEPT !.at = "none"]
        /\ UNCHANGED <<resident, instances, Counter, hellos, forgotten>>
    BY <1>5 DEF drivers_played
  <2>2. /\ user'.at = "none"
        /\ user' \in [at : {"none", "playing", "lost"}, Handles : Seq(Images), shown : Seq(Greeting)]
    BY <1>0, <2>1
  <2> QED
    BY <1>0, <2>1, <2>2 DEF DriverInv
<1>6. CASE UNCHANGED driver_vars
  BY <1>6 DEF driver_vars, DriverInv, Played, Distinct
<1> QED
  BY <1>1, <1>2, <1>3, <1>4, <1>5, <1>6 DEF DriverNext

\* drv0_use finds the images that are there, and shows how often each was greeted; it
\* comes to code that is gone only if the firmware refused to take the protocol out.
THEOREM ProgramsReachDrivers == DriverSpec => []InstancesReached
<1>1. DriverInit => DriverInv
  <2> SUFFICES ASSUME DriverInit PROVE DriverInv
    OBVIOUS
  <2>1. instances \in Seq(Images) /\ Len(instances) = 0 /\ ToSet(instances) = {}
    BY DEF DriverInit, ToSet
  <2>2. Distinct(instances)
    BY <2>1 DEF Distinct
  <2>3. user.at = "none" /\ user \in [at : {"none", "playing", "lost"}, Handles : Seq(Images), shown : Seq(Greeting)]
    BY DEF DriverInit
  <2> QED
    BY <2>1, <2>2, <2>3 DEF DriverInit, DriverInv
<1>2. DriverInv => InstancesReached
  <2> SUFFICES ASSUME DriverInv, user.at = "playing"
               PROVE  /\ [n \in DOMAIN user.shown |-> user.shown[n].image] \o user.Handles = instances
                      /\ \A n \in DOMAIN user.shown :
                           user.shown[n].number # 0 => user.shown[n].number = hellos[user.shown[n].image]
    BY DEF DriverInv, InstancesReached
  <2> DEFINE s == [n \in DOMAIN user.shown |-> user.shown[n].image]
             k == Len(user.shown)
             h == user.Handles
  <2>1. /\ user.shown \in Seq(Greeting) /\ h \in Seq(Images) /\ k \in Nat /\ DOMAIN user.shown = 1 .. k
        /\ instances \in Seq(Images) /\ Len(instances) \in Nat /\ Len(h) \in Nat
        /\ \A n \in 1 .. k : user.shown[n] \in Greeting
    BY LenProperties, ElementOfSeq DEF DriverInv
  <2>2. /\ k + Len(h) = Len(instances)
        /\ \A n \in 1 .. k : /\ user.shown[n].image = instances[n]
                             /\ user.shown[n].number # 0 => user.shown[n].number = hellos[user.shown[n].image]
        /\ \A n \in 1 .. Len(h) : h[n] = instances[k + n]
    BY DEF DriverInv, Played
  <2>3. s \in Seq(Images) /\ Len(s) = k /\ \A n \in 1 .. k : s[n] = instances[n]
    <3>1. s = [n \in 1 .. k |-> user.shown[n].image]
      BY <2>1
    <3>2. \A n \in 1 .. k : user.shown[n].image \in Images /\ user.shown[n].image = instances[n]
      BY <2>1, <2>2 DEF Greeting
    <3> HIDE DEF s, k
    <3>3. s \in [1 .. k -> Images] /\ k \in Nat
      BY <2>1, <3>1, <3>2
    <3>4. s \in Seq(Images)
      BY <3>3
    <3>5. Len(s) = k
      BY <3>3, <3>4, LenProperties
    <3> QED
      BY <3>1, <3>2, <3>4, <3>5
  <2> HIDE DEF s, k, h
  <2> DEFINE t == s \o h
  <2>4. /\ t \in Seq(Images) /\ Len(t) = Len(s) + Len(h)
        /\ \A n \in 1 .. Len(s) + Len(h) : t[n] = IF n <= Len(s) THEN s[n] ELSE h[n - Len(s)]
    BY <2>1, <2>3, ConcatProperties
  <2> HIDE DEF t
  <2>5. ASSUME NEW n \in 1 .. Len(t)
        PROVE  t[n] = instances[n]
    <3>1. CASE n <= k
      BY <2>1, <2>2, <2>3, <2>4, <3>1
    <3>2. CASE n > k
      <4>1. n - k \in 1 .. Len(h) /\ k + (n - k) = n
        BY <2>1, <2>3, <2>4, <3>2
      <4>2. t[n] = h[n - k]
        BY <2>1, <2>3, <2>4, <3>2
      <4> QED
        BY <2>2, <4>1, <4>2
    <3> QED
      BY <2>1, <2>3, <2>4, <3>1, <3>2
  <2>6. t = instances
    BY <2>1, <2>2, <2>3, <2>4, <2>5, SeqEqual
  <2> QED
    BY <2>1, <2>2, <2>6 DEF s, t, k, h
<1> QED
  BY <1>1, <1>2, DriverStays, PTL DEF DriverSpec
=================================================================================
