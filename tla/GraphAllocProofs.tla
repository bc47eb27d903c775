-------------------------- MODULE GraphAllocProofs --------------------------
(***************************************************************************)
(* Theorems about GraphAlloc, for any graphs that are in the order of      *)
(* their computation, any number of buffers and chunks and any alignment:  *)
(*   BytesOwned      each byte of a chunk is free or of one tensor         *)
(*   GraphUnharmed   no node is written over what is read after it         *)
(*   TensorsInside   the tensors lie in the buffers                        *)
(*   ChunksSuffice   the allocator does not run out of chunks              *)
(*   TypeCorrect     the type invariant                                    *)
(*                                                                         *)
(* The inductive invariant is IInv.  Memory: the tensors that own memory   *)
(* and the free blocks share the bytes that have been used (Shared), a     *)
(* tensor that is still needed owns its own, and no node so far has taken  *)
(* what is needed after it (Spares).  Counts: the counters are the numbers *)
(* of the uses and the views to come, so that a tensor whose counters are  *)
(* 0, or 1 at its last use, is not needed any more.  PlanHolds: what the   *)
(* plan, and the buffers that were kept or allocated again, are good for.  *)
(* For ChunksSuffice, RoomInv adds that the last chunk is free behind what *)
(* is needed of it, which no more than the tensors so far make up.         *)
(*                                                                         *)
(* First come the free lists of DynTallocr: Allocator says how they are    *)
(* ordered, Reserved and Released what Alloc and FreeBytes do to the bytes *)
(* that are free.                                                          *)
(***************************************************************************)
EXTENDS GraphAlloc, FiniteSetTheorems, SequenceTheorems, TLAPS

-----------------------------------------------------------------------------
(* Sizes *)

\* Rounding up to the alignment.
LEMMA AlignedUp ==
    ASSUME NEW n \in Nat
    PROVE  \E q \in Nat : /\ Aligned(n) = Alignment * q
                          /\ n <= Alignment * q /\ Alignment * q < n + Alignment
<1>1. Alignment \in Nat \ {0}
  BY AlignmentAssumption
<1>2. PICK a : a = Alignment
  OBVIOUS
<1>3. PICK q : q = (n + a - 1) \div a
  OBVIOUS
<1>4. q \in Nat /\ a * q <= n + a - 1 /\ n + a - 1 < a * q + a
  BY <1>1, <1>2, <1>3
<1>5. Aligned(n) = q * a /\ q * a = a * q
  BY <1>1, <1>2, <1>3, <1>4 DEF Aligned
<1>6. n <= a * q /\ a * q < n + a
  <2>1. PICK m : m = a * q
    OBVIOUS
  <2>2. m \in Int
    BY <1>1, <1>2, <1>4, <2>1
  <2> QED  BY <1>1, <1>2, <1>4, <2>1, <2>2
<1> QED  BY <1>2, <1>4, <1>5, <1>6

LEMMA AlignedType ==
    ASSUME NEW n \in Nat
    PROVE  Aligned(n) \in Nat /\ n <= Aligned(n)
<1>1. PICK q \in Nat : Aligned(n) = Alignment * q /\ n <= Alignment * q
  BY AlignedUp
<1> QED  BY <1>1, AlignmentAssumption

\* A multiple of the alignment is rounded to itself.
LEMMA AlignedAlready ==
    ASSUME NEW q \in Nat
    PROVE  Alignment * q \in Nat /\ Aligned(Alignment * q) = Alignment * q
<1>1. PICK a : a = Alignment
  OBVIOUS
<1>2. a \in Nat \ {0}
  BY <1>1, AlignmentAssumption
<1>3. PICK n : n = a * q
  OBVIOUS
<1>4. n \in Nat
  BY <1>2, <1>3
<1>5. PICK r \in Nat : Aligned(n) = a * r /\ n <= a * r /\ a * r < n + a
  BY <1>1, <1>4, AlignedUp
<1>6. ~(r < q)
  <2> SUFFICES ASSUME r < q
               PROVE  FALSE
    OBVIOUS
  <2>1. a * r + a <= a * q
    BY <1>2
  <2>2. PICK m : m = a * r
    OBVIOUS
  <2>3. m \in Nat
    BY <1>2, <2>2
  <2> QED  BY <1>2, <1>3, <1>4, <1>5, <2>1, <2>2, <2>3
<1>7. ~(q < r)
  <2> SUFFICES ASSUME q < r
               PROVE  FALSE
    OBVIOUS
  <2>1. a * q + a <= a * r
    BY <1>2
  <2>2. PICK m : m = a * r
    OBVIOUS
  <2>3. m \in Nat
    BY <1>2, <2>2
  <2> QED  BY <1>2, <1>3, <1>4, <1>5, <2>1, <2>2, <2>3
<1>8. r = q
  BY <1>6, <1>7
<1> QED  BY <1>1, <1>3, <1>4, <1>5, <1>8

\* The rest of a larger size is aligned too.
LEMMA AlignedRest ==
    ASSUME NEW m \in Nat, NEW n \in Nat, m <= n
    PROVE  /\ Aligned(m) <= Aligned(n)
           /\ Aligned(n) - Aligned(m) \in Nat
           /\ Aligned(Aligned(n) - Aligned(m)) = Aligned(n) - Aligned(m)
<1>1. PICK a : a = Alignment
  OBVIOUS
<1>2. a \in Nat \ {0}
  BY <1>1, AlignmentAssumption
<1>3. PICK p \in Nat : Aligned(m) = a * p /\ m <= a * p /\ a * p < m + a
  BY <1>1, AlignedUp
<1>4. PICK q \in Nat : Aligned(n) = a * q /\ n <= a * q
  BY <1>1, AlignedUp
<1>5. p <= q
  <2> SUFFICES ASSUME q < p
               PROVE  FALSE
    OBVIOUS
  <2>1. a * q + a <= a * p
    BY <1>2
  <2>2. PICK x, y : x = a * p /\ y = a * q
    OBVIOUS
  <2>3. x \in Nat /\ y \in Nat
    BY <1>2, <2>2
  <2> QED  BY <1>2, <1>3, <1>4, <2>1, <2>2, <2>3
<1>6. q - p \in Nat /\ a * (q - p) = a * q - a * p
  BY <1>2, <1>5
<1>7. a * (q - p) \in Nat /\ Aligned(a * (q - p)) = a * (q - p)
  BY <1>1, <1>6, AlignedAlready
<1>8. a * p \in Nat /\ a * q \in Nat
  BY <1>2
<1>9. PICK x, y : x = a * p /\ y = a * q
  OBVIOUS
<1>10. x \in Nat /\ y \in Nat /\ y - x \in Nat
  BY <1>6, <1>7, <1>8, <1>9
<1>11. x <= y
  BY <1>10
<1> QED  BY <1>3, <1>4, <1>6, <1>7, <1>9, <1>10, <1>11

-----------------------------------------------------------------------------
(* Lists of free blocks *)

Blocks == [offset : Nat, size : Nat \ {0}]

\* Blocks in their order that do not touch.
FreeList(f) ==
    /\ f \in Seq(Blocks)
    /\ \A k, l \in DOMAIN f : k < l => f[k].offset + f[k].size < f[l].offset

InBlock(x, offset, size) == offset <= x /\ x < offset + size
IsFree(f, x) == \E k \in DOMAIN f : InBlock(x, f[k].offset, f[k].size)

\* No block begins behind m.
Begun(f, m) == \A k \in DOMAIN f : f[k].offset <= m

LEMMA BlockTypes ==
    ASSUME NEW f \in Seq(Blocks)
    PROVE  /\ Len(f) \in Nat /\ DOMAIN f = 1 .. Len(f)
           /\ \A k \in DOMAIN f : /\ f[k] \in Blocks /\ f[k].offset \in Nat
                                  /\ f[k].size \in Nat /\ f[k].size >= 1
<1>1. \A k \in DOMAIN f : f[k] \in Blocks
  OBVIOUS
<1>2. \A e \in Blocks : e.offset \in Nat /\ e.size \in Nat /\ e.size >= 1
  BY DEF Blocks
<1> QED  BY <1>1, <1>2

LEMMA RemoveAtMeans ==
    ASSUME NEW T, NEW f \in Seq(T), NEW h \in 1 .. Len(f)
    PROVE  /\ RemoveAt(f, h) \in Seq(T)
           /\ Len(RemoveAt(f, h)) = Len(f) - 1
           /\ \A k \in 1 .. Len(f) - 1 : RemoveAt(f, h)[k] = IF k < h THEN f[k] ELSE f[k + 1]
<1> DEFINE a == SubSeq(f, 1, h - 1)
           b == SubSeq(f, h + 1, Len(f))
           n == Len(f)
<1>1. n \in Nat /\ h \in 1 .. n /\ \A k \in 1 .. n : f[k] \in T
  OBVIOUS
<1>2. a \in Seq(T) /\ Len(a) = h - 1 /\ \A k \in 1 .. h - 1 : a[k] = f[k]
  <2>1. 1 \in Int /\ h - 1 \in Int /\ \A k \in 1 .. h - 1 : f[k] \in T
    BY <1>1
  <2>2. /\ a \in Seq(T) /\ Len(a) = IF 1 <= h - 1 THEN (h - 1) - 1 + 1 ELSE 0
        /\ \A k \in 1 .. (h - 1) - 1 + 1 : a[k] = f[1 + k - 1]
    BY <2>1, SubSeqProperties
  <2> HIDE DEF a
  <2> QED  BY <1>1, <2>2
<1>3. b \in Seq(T) /\ Len(b) = n - h /\ \A k \in 1 .. n - h : b[k] = f[k + h]
  <2>1. h + 1 \in Int /\ n \in Int /\ \A k \in h + 1 .. n : f[k] \in T
    BY <1>1
  <2>2. /\ b \in Seq(T) /\ Len(b) = IF h + 1 <= n THEN n - (h + 1) + 1 ELSE 0
        /\ \A k \in 1 .. n - (h + 1) + 1 : b[k] = f[(h + 1) + k - 1]
    BY <2>1, SubSeqProperties
  <2> HIDE DEF b
  <2>3. Len(b) = n - h /\ n - (h + 1) + 1 = n - h
    BY <1>1, <2>2
  <2>4. \A k \in 1 .. n - h : (h + 1) + k - 1 = k + h
    BY <1>1
  <2> QED  BY <2>2, <2>3, <2>4
<1>4. RemoveAt(f, h) = a \o b
  BY DEF RemoveAt
<1> HIDE DEF a, b, n
<1>5. /\ a \o b \in Seq(T) /\ Len(a \o b) = Len(a) + Len(b)
      /\ \A k \in 1 .. Len(a) + Len(b) :
             (a \o b)[k] = IF k <= Len(a) THEN a[k] ELSE b[k - Len(a)]
  BY <1>2, <1>3, ConcatProperties
<1> DEFINE r == a \o b
<1>6. r \in Seq(T) /\ Len(r) = n - 1
      /\ \A k \in 1 .. n - 1 : r[k] = IF k <= h - 1 THEN a[k] ELSE b[k - (h - 1)]
  BY <1>1, <1>2, <1>3, <1>5
<1> HIDE DEF r
<1>7. ASSUME NEW k \in 1 .. n - 1
      PROVE  r[k] = IF k < h THEN f[k] ELSE f[k + 1]
  <2>1. CASE k < h
    BY <1>1, <1>2, <1>6, <2>1
  <2>2. CASE ~(k < h)
    <3>1. k - (h - 1) \in 1 .. n - h /\ (k - (h - 1)) + h = k + 1 /\ ~(k <= h - 1)
      BY <1>1, <2>2
    <3> QED  BY <1>3, <1>6, <2>2, <3>1
  <2> QED  BY <2>1, <2>2
<1> QED  BY <1>4, <1>6, <1>7 DEF r, n

LEMMA InsertAtMeans ==
    ASSUME NEW T, NEW f \in Seq(T), NEW h \in 1 .. Len(f) + 1, NEW e \in T
    PROVE  /\ InsertAt(f, h, e) \in Seq(T)
           /\ Len(InsertAt(f, h, e)) = Len(f) + 1
           /\ \A k \in 1 .. Len(f) + 1 :
                 InsertAt(f, h, e)[k] = IF k < h THEN f[k] ELSE IF k = h THEN e ELSE f[k - 1]
<1> DEFINE a == SubSeq(f, 1, h - 1)
           b == SubSeq(f, h, Len(f))
           n == Len(f)
           c == a \o <<e>>
           r == c \o b
<1>1. n \in Nat /\ h \in 1 .. n + 1 /\ \A k \in 1 .. n : f[k] \in T
  OBVIOUS
<1>2. a \in Seq(T) /\ Len(a) = h - 1 /\ \A k \in 1 .. h - 1 : a[k] = f[k]
  <2>1. 1 \in Int /\ h - 1 \in Int /\ \A k \in 1 .. h - 1 : f[k] \in T
    BY <1>1
  <2>2. /\ a \in Seq(T) /\ Len(a) = IF 1 <= h - 1 THEN (h - 1) - 1 + 1 ELSE 0
        /\ \A k \in 1 .. (h - 1) - 1 + 1 : a[k] = f[1 + k - 1]
    BY <2>1, SubSeqProperties
  <2> HIDE DEF a
  <2> QED  BY <1>1, <2>2
<1>3. b \in Seq(T) /\ Len(b) = n - h + 1 /\ \A k \in 1 .. n - h + 1 : b[k] = f[h + k - 1]
  <2>1. h \in Int /\ n \in Int /\ \A k \in h .. n : f[k] \in T
    BY <1>1
  <2>2. /\ b \in Seq(T) /\ Len(b) = IF h <= n THEN n - h + 1 ELSE 0
        /\ \A k \in 1 .. n - h + 1 : b[k] = f[h + k - 1]
    BY <2>1, SubSeqProperties
  <2> HIDE DEF b
  <2> QED  BY <1>1, <2>2
<1>4. InsertAt(f, h, e) = r
  BY DEF InsertAt
<1>5. <<e>> \in Seq(T) /\ Len(<<e>>) = 1 /\ <<e>>[1] = e
  OBVIOUS
<1> HIDE DEF a, b, n
<1>6. /\ c \in Seq(T) /\ Len(c) = Len(a) + 1
      /\ \A k \in 1 .. Len(a) + 1 : c[k] = IF k <= Len(a) THEN a[k] ELSE <<e>>[k - Len(a)]
  BY <1>2, <1>5, ConcatProperties
<1> HIDE DEF c
<1>7. Len(c) = h /\ \A k \in 1 .. h : c[k] = IF k = h THEN e ELSE f[k]
  <2>1. Len(c) = h
    BY <1>1, <1>2, <1>6
  <2>2. ASSUME NEW k \in 1 .. h
        PROVE  c[k] = IF k = h THEN e ELSE f[k]
    <3>1. CASE k = h
      <4>1. k \in 1 .. Len(a) + 1 /\ ~(k <= Len(a)) /\ k - Len(a) = 1
        BY <1>1, <1>2, <3>1
      <4> QED  BY <1>5, <1>6, <3>1, <4>1
    <3>2. CASE k # h
      <4>1. k \in 1 .. Len(a) + 1 /\ k <= Len(a) /\ k \in 1 .. h - 1
        BY <1>1, <1>2, <3>2
      <4> QED  BY <1>2, <1>6, <3>2, <4>1
    <3> QED  BY <3>1, <3>2
  <2> QED  BY <2>1, <2>2
<1>8. /\ r \in Seq(T) /\ Len(r) = Len(c) + Len(b)
      /\ \A k \in 1 .. Len(c) + Len(b) : r[k] = IF k <= Len(c) THEN c[k] ELSE b[k - Len(c)]
  BY <1>3, <1>6, ConcatProperties
<1> HIDE DEF r
<1>9. Len(c) + Len(b) = n + 1
  BY <1>1, <1>3, <1>7
<1>10. ASSUME NEW k \in 1 .. n + 1
       PROVE  r[k] = IF k < h THEN f[k] ELSE IF k = h THEN e ELSE f[k - 1]
  <2>1. CASE k <= h
    <3>1. r[k] = c[k] /\ k \in 1 .. h
      BY <1>1, <1>7, <1>8, <1>9, <2>1
    <3> QED  BY <1>1, <1>7, <2>1, <3>1
  <2>2. CASE ~(k <= h)
    <3>1. k - h \in 1 .. n - h + 1 /\ h + (k - h) - 1 = k - 1
      BY <1>1, <2>2
    <3>2. r[k] = b[k - h]
      BY <1>7, <1>8, <1>9, <2>2
    <3> QED  BY <1>1, <1>3, <2>2, <3>1, <3>2
  <2> QED  BY <2>1, <2>2
<1> QED  BY <1>4, <1>8, <1>9, <1>10 DEF n

\* Bytes that are free lie in one block only.
LEMMA OneBlock ==
    ASSUME NEW f, FreeList(f), NEW k \in DOMAIN f, NEW l \in DOMAIN f, NEW x \in Int,
           InBlock(x, f[k].offset, f[k].size), InBlock(x, f[l].offset, f[l].size)
    PROVE  k = l
<1>1. f \in Seq(Blocks)
  BY DEF FreeList
<1>2. k \in Nat /\ l \in Nat /\ f[k].offset \in Nat /\ f[k].size \in Nat
      /\ f[l].offset \in Nat /\ f[l].size \in Nat
  BY <1>1, BlockTypes
<1>3. k < l => f[k].offset + f[k].size < f[l].offset
  BY DEF FreeList
<1>4. l < k => f[l].offset + f[l].size < f[k].offset
  BY DEF FreeList
<1> QED  BY <1>2, <1>3, <1>4 DEF InBlock

\* A list without one of its blocks.
LEMMA WithoutBlock ==
    ASSUME NEW f, FreeList(f), NEW h \in DOMAIN f
    PROVE  /\ FreeList(RemoveAt(f, h))
           /\ \A e : (\E k \in DOMAIN RemoveAt(f, h) : RemoveAt(f, h)[k] = e)
                        <=> \E k \in DOMAIN f : k # h /\ f[k] = e
<1> DEFINE g == RemoveAt(f, h)
           len == Len(f)
           At(k) == IF k < h THEN k ELSE k + 1
<1>1. f \in Seq(Blocks) /\ \A k, l \in DOMAIN f : k < l => f[k].offset + f[k].size < f[l].offset
  BY DEF FreeList
<1>2. len \in Nat /\ DOMAIN f = 1 .. len /\ h \in 1 .. len
  BY <1>1
<1>3. /\ g \in Seq(Blocks) /\ Len(g) = len - 1
      /\ \A k \in 1 .. len - 1 : g[k] = IF k < h THEN f[k] ELSE f[k + 1]
  BY <1>1, <1>2, RemoveAtMeans
<1> HIDE DEF g, len
<1>4. DOMAIN g = 1 .. len - 1
  BY <1>3
<1>5. \A k \in DOMAIN g : At(k) \in DOMAIN f /\ At(k) # h /\ g[k] = f[At(k)]
  <2> SUFFICES ASSUME NEW k \in 1 .. len - 1
               PROVE  At(k) \in DOMAIN f /\ At(k) # h /\ g[k] = f[At(k)]
    BY <1>4
  <2>1. CASE k < h
    BY <1>2, <1>3, <2>1
  <2>2. CASE ~(k < h)
    BY <1>2, <1>3, <2>2
  <2> QED  BY <2>1, <2>2
<1>6. \A k, l \in DOMAIN g : k < l => At(k) < At(l)
  BY <1>2, <1>4
<1>7. ASSUME NEW l \in DOMAIN f, l # h
      PROVE  \E k \in DOMAIN g : g[k] = f[l]
  <2>1. CASE l < h
    <3>1. l \in DOMAIN g /\ At(l) = l
      BY <1>2, <1>4, <2>1
    <3> QED  BY <1>5, <3>1
  <2>2. CASE ~(l < h)
    <3>1. l - 1 \in DOMAIN g /\ At(l - 1) = l
      BY <1>2, <1>4, <1>7, <2>2
    <3> QED  BY <1>5, <3>1
  <2> QED  BY <2>1, <2>2
<1> HIDE DEF At
<1>8. FreeList(g)
  BY <1>1, <1>3, <1>5, <1>6 DEF FreeList
<1>9. \A e : (\E k \in DOMAIN g : g[k] = e) <=> \E k \in DOMAIN f : k # h /\ f[k] = e
  BY <1>5, <1>7
<1> QED  BY <1>8, <1>9 DEF g

\* A list with one more block, between the blocks before and behind it.
LEMMA WithBlock ==
    ASSUME NEW f, FreeList(f), NEW h \in 1 .. Len(f) + 1, NEW e \in Blocks,
           \A k \in DOMAIN f : k < h => f[k].offset + f[k].size < e.offset,
           \A k \in DOMAIN f : k >= h => e.offset + e.size < f[k].offset
    PROVE  /\ FreeList(InsertAt(f, h, e))
           /\ \A d : (\E k \in DOMAIN InsertAt(f, h, e) : InsertAt(f, h, e)[k] = d)
                        <=> d = e \/ \E k \in DOMAIN f : f[k] = d
<1> DEFINE g == InsertAt(f, h, e)
           len == Len(f)
           At(k) == IF k < h THEN k ELSE k - 1
<1>1. f \in Seq(Blocks) /\ \A k, l \in DOMAIN f : k < l => f[k].offset + f[k].size < f[l].offset
  BY DEF FreeList
<1>2. len \in Nat /\ DOMAIN f = 1 .. len /\ h \in 1 .. len + 1
  BY <1>1
<1>3. /\ g \in Seq(Blocks) /\ Len(g) = len + 1
      /\ \A k \in 1 .. len + 1 : g[k] = IF k < h THEN f[k] ELSE IF k = h THEN e ELSE f[k - 1]
  BY <1>1, <1>2, InsertAtMeans
<1> HIDE DEF g, len
<1>4. DOMAIN g = 1 .. len + 1 /\ h \in DOMAIN g /\ g[h] = e
  BY <1>2, <1>3
<1>5. \A k \in DOMAIN g : k # h => At(k) \in DOMAIN f /\ g[k] = f[At(k)]
  <2> SUFFICES ASSUME NEW k \in 1 .. len + 1, k # h
               PROVE  At(k) \in DOMAIN f /\ g[k] = f[At(k)]
    BY <1>4
  <2>1. CASE k < h
    BY <1>2, <1>3, <2>1
  <2>2. CASE ~(k < h)
    BY <1>2, <1>3, <2>2
  <2> QED  BY <2>1, <2>2
<1>6. \A k, l \in DOMAIN g : k < l /\ k # h /\ l # h => At(k) < At(l)
  BY <1>2, <1>4
<1>7. \A k \in DOMAIN g : (k < h => At(k) < h) /\ (h < k => At(k) >= h)
  BY <1>2, <1>4
<1>8. ASSUME NEW l \in DOMAIN f
      PROVE  \E k \in DOMAIN g : g[k] = f[l]
  <2>1. CASE l < h
    <3>1. l \in DOMAIN g /\ l # h /\ At(l) = l
      BY <1>2, <1>4, <2>1
    <3> QED  BY <1>5, <3>1
  <2>2. CASE ~(l < h)
    <3>1. l + 1 \in DOMAIN g /\ l + 1 # h /\ At(l + 1) = l
      BY <1>2, <1>4, <1>8, <2>2
    <3> QED  BY <1>5, <3>1
  <2> QED  BY <2>1, <2>2
<1> HIDE DEF At
<1>9. FreeList(g)
  <2> SUFFICES ASSUME NEW k \in DOMAIN g, NEW l \in DOMAIN g, k < l
               PROVE  g[k].offset + g[k].size < g[l].offset
    BY <1>3 DEF FreeList
  <2>1. CASE k = h
    BY <1>4, <1>5, <1>7, <2>1
  <2>2. CASE l = h
    BY <1>4, <1>5, <1>7, <2>2
  <2>3. CASE k # h /\ l # h
    BY <1>1, <1>5, <1>6, <2>3
  <2> QED  BY <2>1, <2>2, <2>3
<1>10. \A d : (\E k \in DOMAIN g : g[k] = d) <=> d = e \/ \E k \in DOMAIN f : f[k] = d
  BY <1>4, <1>5, <1>8
<1> QED  BY <1>9, <1>10 DEF g

\* A list with another block in the place of one, between its neighbours.
LEMMA OtherBlock ==
    ASSUME NEW f, FreeList(f), NEW h \in DOMAIN f, NEW e \in Blocks,
           \A k \in DOMAIN f : k < h => f[k].offset + f[k].size < e.offset,
           \A k \in DOMAIN f : h < k => e.offset + e.size < f[k].offset
    PROVE  /\ FreeList([f EXCEPT ![h] = e])
           /\ \A d : (\E k \in DOMAIN [f EXCEPT ![h] = e] : [f EXCEPT ![h] = e][k] = d)
                        <=> d = e \/ \E k \in DOMAIN f : k # h /\ f[k] = d
<1> DEFINE g == [f EXCEPT ![h] = e]
<1>1. f \in Seq(Blocks) /\ \A k, l \in DOMAIN f : k < l => f[k].offset + f[k].size < f[l].offset
  BY DEF FreeList
<1>2. /\ g \in Seq(Blocks) /\ DOMAIN g = DOMAIN f
      /\ \A k \in DOMAIN g : g[k] = IF k = h THEN e ELSE f[k]
  BY <1>1
<1>3. \A k \in DOMAIN f : k \in Int
  BY <1>1
<1> HIDE DEF g
<1>4. FreeList(g)
  <2> SUFFICES ASSUME NEW k \in DOMAIN f, NEW l \in DOMAIN f, k < l
               PROVE  g[k].offset + g[k].size < g[l].offset
    BY <1>2 DEF FreeList
  <2>0. k \in Int /\ l \in Int /\ h \in Int
    BY <1>3
  <2>1. CASE k = h
    <3>1. g[k] = e /\ g[l] = f[l]
      BY <1>2, <2>0, <2>1
    <3> QED  BY <2>1, <3>1
  <2>2. CASE l = h
    <3>1. g[l] = e /\ g[k] = f[k]
      BY <1>2, <2>0, <2>2
    <3> QED  BY <2>2, <3>1
  <2>3. CASE k # h /\ l # h
    BY <1>1, <1>2, <2>3
  <2> QED  BY <2>1, <2>2, <2>3
<1>5. \A d : (\E k \in DOMAIN g : g[k] = d) <=> d = e \/ \E k \in DOMAIN f : k # h /\ f[k] = d
  BY <1>2
<1> QED  BY <1>4, <1>5 DEF g

-----------------------------------------------------------------------------
(* Least and greatest numbers *)

\* A set of natural numbers that is not empty has a least element.
LEMMA LeastNumber ==
    ASSUME NEW S \in SUBSET Nat, S # {}
    PROVE  \E n \in S : \A m \in S : n <= m
<1>1. PICK n \in S : \A m \in S : ~(<<m, n>> \in OpToRel(<, Nat))
  BY NatLessThanWellFounded, WFMin
<1>2. \A m \in S : <<m, n>> \in OpToRel(<, Nat) <=> m < n
  BY Zenon DEF OpToRel
<1>3. \A m \in S : ~(m < n)
  BY <1>1, <1>2, Zenon
<1> QED  BY <1>3

LEMMA MinMeans ==
    ASSUME NEW S \in SUBSET Nat, S # {}
    PROVE  Min(S) \in S /\ \A m \in S : Min(S) <= m
<1>1. \E n \in S : \A m \in S : n <= m
  BY LeastNumber
<1> QED  BY <1>1 DEF Min

LEMMA MaxMeans ==
    ASSUME NEW S \in SUBSET Int, S # {}, NEW b \in Int, \A m \in S : m <= b
    PROVE  Max(S) \in S /\ \A m \in S : m <= Max(S)
<1> DEFINE T == {b - m : m \in S}
<1>1. T \in SUBSET Nat /\ T # {}
  <2>1. \A m \in S : b - m \in Nat
    OBVIOUS
  <2> QED  BY <2>1
<1>2. PICK n \in T : \A m \in T : n <= m
  BY <1>1, LeastNumber
<1>3. PICK x \in S : n = b - x
  BY <1>2
<1>4. \A m \in S : x >= m
  <2> SUFFICES ASSUME NEW m \in S
               PROVE  x >= m
    OBVIOUS
  <2>1. b - m \in T
    OBVIOUS
  <2>2. n <= b - m
    BY <1>2, <2>1
  <2> QED  BY <1>3, <2>2
<1>5. \E y \in S : \A m \in S : y >= m
  BY <1>3, <1>4
<1>6. Max(S) \in S /\ \A m \in S : Max(S) >= m
  BY <1>5 DEF Max
<1>7. Max(S) \in Int /\ \A m \in S : m \in Int
  BY <1>6
<1> QED  BY <1>6, <1>7

LEMMA MaxOfTwo ==
    ASSUME NEW a \in Nat, NEW b \in Nat
    PROVE  Max({a, b}) \in Nat /\ a <= Max({a, b}) /\ b <= Max({a, b})
           /\ Max({a, b}) \in {a, b}
<1>1. CASE a <= b
  <2>1. \A m \in {a, b} : m <= b
    BY <1>1
  <2> QED  BY <2>1, MaxMeans
<1>2. CASE b <= a
  <2>1. \A m \in {a, b} : m <= a
    BY <1>2
  <2> QED  BY <2>1, MaxMeans
<1> QED  BY <1>1, <1>2

-----------------------------------------------------------------------------
(* Taking from a block and giving back *)

Among(f, e) == \E k \in DOMAIN f : f[k] = e

\* Free bytes and beginnings in terms of the blocks.
LEMMA FreeByBlocks ==
    ASSUME NEW f, FreeList(f)
    PROVE  /\ \A e : Among(f, e) => /\ e \in Blocks /\ e.offset \in Nat
                                    /\ e.size \in Nat /\ e.size >= 1
           /\ \A x : IsFree(f, x) <=> \E e \in Blocks : Among(f, e) /\ InBlock(x, e.offset, e.size)
           /\ \A m : Begun(f, m) <=> \A e \in Blocks : Among(f, e) => e.offset <= m
<1>1. f \in Seq(Blocks)
  BY DEF FreeList
<1>2. \A k \in DOMAIN f : /\ f[k] \in Blocks /\ f[k].offset \in Nat
                          /\ f[k].size \in Nat /\ f[k].size >= 1
  BY <1>1, BlockTypes
<1>3. \A x : IsFree(f, x) <=> \E e \in Blocks : Among(f, e) /\ InBlock(x, e.offset, e.size)
  BY <1>2, Zenon DEF IsFree, Among
<1>4. \A m : Begun(f, m) <=> \A e \in Blocks : Among(f, e) => e.offset <= m
  BY <1>2, Zenon DEF Begun, Among
<1> QED  BY <1>2, <1>3, <1>4 DEF Among

\* What is allocated is taken from the beginning of a block.
LEMMA ShrunkMeans ==
    ASSUME NEW f, FreeList(f), NEW h \in DOMAIN f, NEW n \in Nat \ {0}, n <= f[h].size,
           NEW m \in Nat, Begun(f, m), NEW mm \in Nat, m <= mm, f[h].offset + n <= mm
    PROVE  /\ FreeList(Shrunk(f, h, n))
           /\ Begun(Shrunk(f, h, n), mm)
           /\ \A x \in Nat : IsFree(Shrunk(f, h, n), x) <=>
                                IsFree(f, x) /\ ~InBlock(x, f[h].offset, n)
<1> DEFINE g == Shrunk(f, h, n)
           o == f[h].offset
<1>1. /\ f \in Seq(Blocks)
      /\ \A k, l \in DOMAIN f : k < l => f[k].offset + f[k].size < f[l].offset
  BY DEF FreeList
<1>2. \A k \in DOMAIN f : /\ k \in Int /\ f[k] \in Blocks /\ f[k].offset \in Nat
                          /\ f[k].size \in Nat /\ f[k].size >= 1
  BY <1>1, BlockTypes
<1>3. /\ f[h].offset \in Nat /\ f[h].size \in Nat /\ f[h].size >= 1
  BY <1>2
<1>4. ASSUME NEW x \in Nat, NEW k \in DOMAIN f, k # h, InBlock(x, f[k].offset, f[k].size)
      PROVE  ~InBlock(x, o, n)
  <2>1. x \in Int /\ ~InBlock(x, f[h].offset, f[h].size)
    BY <1>4, OneBlock
  <2> QED  BY <1>3, <2>1 DEF InBlock
<1>5. CASE f[h].size = n
  <2>1. g = RemoveAt(f, h)
    BY <1>5 DEF Shrunk
  <2>2. FreeList(g) /\ \A e : Among(g, e) <=> \E k \in DOMAIN f : k # h /\ f[k] = e
    BY <2>1, WithoutBlock DEF Among
  <2> HIDE DEF g
  <2>3. \A e \in Blocks : Among(g, e) => e.offset <= mm
    <3> SUFFICES ASSUME NEW k \in DOMAIN f
                 PROVE  f[k].offset <= mm
      BY <2>2
    <3>1. f[k].offset <= m
      BY DEF Begun
    <3> QED  BY <1>2, <3>1
  <2>4. ASSUME NEW x \in Nat
        PROVE  IsFree(g, x) <=> IsFree(f, x) /\ ~InBlock(x, o, n)
    <3>1. IsFree(g, x) <=> \E k \in DOMAIN f : k # h /\ InBlock(x, f[k].offset, f[k].size)
      BY <1>2, <2>2, FreeByBlocks
    <3>2. InBlock(x, f[h].offset, f[h].size) <=> InBlock(x, o, n)
      BY <1>5
    <3> QED  BY <1>4, <3>1, <3>2 DEF IsFree
  <2> QED  BY <2>2, <2>3, <2>4, FreeByBlocks DEF g
<1>6. CASE f[h].size # n
  <2> DEFINE e == [offset |-> f[h].offset + n, size |-> f[h].size - n]
  <2>1. e \in Blocks /\ e.offset = f[h].offset + n /\ e.size = f[h].size - n
    BY <1>3, <1>6 DEF Blocks
  <2>2. g = [f EXCEPT ![h] = e]
    BY <1>6 DEF Shrunk
  <2> HIDE DEF e
  <2>3. \A k \in DOMAIN f : k < h => f[k].offset + f[k].size < e.offset
    <3> SUFFICES ASSUME NEW k \in DOMAIN f, k < h
                 PROVE  f[k].offset + f[k].size < e.offset
      OBVIOUS
    <3>1. f[k].offset + f[k].size < f[h].offset
      BY <1>1
    <3> QED  BY <1>2, <1>3, <2>1, <3>1
  <2>4. \A k \in DOMAIN f : h < k => e.offset + e.size < f[k].offset
    <3> SUFFICES ASSUME NEW k \in DOMAIN f, h < k
                 PROVE  e.offset + e.size < f[k].offset
      OBVIOUS
    <3>1. f[h].offset + f[h].size < f[k].offset
      BY <1>1
    <3> QED  BY <1>2, <1>3, <2>1, <3>1
  <2>5. FreeList(g) /\ \A d : Among(g, d) <=> d = e \/ \E k \in DOMAIN f : k # h /\ f[k] = d
    <3> HIDE DEF g
    <3>1. e \in Blocks
      BY <2>1
    <3>2. FreeList([f EXCEPT ![h] = e])
          /\ \A d : (\E k \in DOMAIN [f EXCEPT ![h] = e] : [f EXCEPT ![h] = e][k] = d)
                        <=> d = e \/ \E k \in DOMAIN f : k # h /\ f[k] = d
      BY <2>3, <2>4, <3>1, OtherBlock
    <3> QED  BY <2>2, <3>2 DEF Among
  <2> HIDE DEF g
  <2>6. \A d \in Blocks : Among(g, d) => d.offset <= mm
    <3>1. e.offset <= mm
      BY <2>1
    <3>2. ASSUME NEW k \in DOMAIN f
          PROVE  f[k].offset <= mm
      <4>1. f[k].offset <= m
        BY DEF Begun
      <4> QED  BY <1>2, <4>1
    <3> QED  BY <2>5, <3>1, <3>2
  <2>7. ASSUME NEW x \in Nat
        PROVE  IsFree(g, x) <=> IsFree(f, x) /\ ~InBlock(x, o, n)
    <3>1. IsFree(g, x) <=> \/ InBlock(x, e.offset, e.size)
                           \/ \E k \in DOMAIN f : k # h /\ InBlock(x, f[k].offset, f[k].size)
      BY <1>2, <2>1, <2>5, FreeByBlocks
    <3>2. InBlock(x, e.offset, e.size) <=>
             InBlock(x, f[h].offset, f[h].size) /\ ~InBlock(x, o, n)
      BY <1>3, <2>1 DEF InBlock
    <3> QED  BY <1>4, <3>1, <3>2 DEF IsFree
  <2> QED  BY <2>5, <2>6, <2>7, FreeByBlocks DEF g
<1> QED  BY <1>5, <1>6

Ends(f, k, o) == f[k].offset + f[k].size = o
Begins(f, k, o, n) == o + n = f[k].offset

\* The blocks that begin before an offset are the first ones.
LEMMA BlocksBefore ==
    ASSUME NEW f, FreeList(f), NEW o \in Nat
    PROVE  LET h == Cardinality({k \in DOMAIN f : f[k].offset < o}) + 1
           IN  /\ h \in 1 .. Len(f) + 1
               /\ \A k \in DOMAIN f : k < h <=> f[k].offset < o
<1> DEFINE len == Len(f)
           T == {k \in 1 .. len + 1 : k \in DOMAIN f => f[k].offset >= o}
           S == {k \in DOMAIN f : f[k].offset < o}
<1>1. /\ f \in Seq(Blocks)
      /\ \A k, l \in DOMAIN f : k < l => f[k].offset + f[k].size < f[l].offset
  BY DEF FreeList
<1>2. /\ len \in Nat /\ DOMAIN f = 1 .. len
      /\ \A k \in DOMAIN f : f[k].offset \in Nat /\ f[k].size \in Nat
  BY <1>1, BlockTypes
<1> HIDE DEF len
<1>3. T \in SUBSET Nat /\ T # {}
  <2>1. len + 1 \in 1 .. len + 1 /\ len + 1 \notin DOMAIN f
    BY <1>2
  <2>2. len + 1 \in T
    BY <2>1
  <2> QED  BY <1>2, <2>2
<1>4. PICK t \in T : \A k \in T : t <= k
  BY <1>3, LeastNumber
<1>5. t \in 1 .. len + 1
  OBVIOUS
<1>6. ASSUME NEW k \in DOMAIN f
      PROVE  k < t <=> f[k].offset < o
  <2>1. k \in 1 .. len + 1 /\ f[k].offset \in Nat
    BY <1>2
  <2>2. CASE k < t
    <3>1. k \notin T
      BY <1>4, <1>5, <2>1, <2>2
    <3> QED  BY <2>1, <2>2, <3>1
  <2>3. CASE k = t
    BY <1>4, <2>1, <2>3
  <2>4. CASE t < k
    <3>1. t \in DOMAIN f /\ f[t].offset >= o /\ f[t].offset + f[t].size < f[k].offset
      BY <1>1, <1>2, <1>4, <1>5, <2>4
    <3> QED  BY <1>2, <1>5, <2>1, <2>4, <3>1
  <2> QED  BY <1>5, <2>1, <2>2, <2>3, <2>4
<1>7. S = 1 .. t - 1
  <2>1. \A k \in 1 .. t - 1 : k \in DOMAIN f /\ k < t
    BY <1>2, <1>5
  <2>2. \A k \in DOMAIN f : k < t => k \in 1 .. t - 1
    BY <1>2, <1>5
  <2> QED  BY <1>6, <2>1, <2>2
<1>8. Cardinality(1 .. t - 1) = t - 1
  <2>1. 1 \in Int /\ t - 1 \in Int
    BY <1>5
  <2>2. Cardinality(1 .. t - 1) = IF 1 > t - 1 THEN 0 ELSE (t - 1) - 1 + 1
    BY <2>1, FS_Interval
  <2> QED  BY <1>5, <2>2
<1>9. S = {k \in DOMAIN f : f[k].offset < o} /\ t \in Int
  BY <1>5
<1> HIDE DEF S, T
<1>10. Cardinality(S) + 1 = t
  BY <1>7, <1>8, <1>9
<1> QED  BY <1>5, <1>6, <1>9, <1>10 DEF len

\* Bytes that are not free lie before or behind every block.
LEMMA ApartFrom ==
    ASSUME NEW f, FreeList(f), NEW o \in Nat, NEW n \in Nat \ {0},
           \A x \in Nat : InBlock(x, o, n) => ~IsFree(f, x), NEW k \in DOMAIN f
    PROVE  f[k].offset + f[k].size <= o \/ o + n <= f[k].offset
<1>1. f \in Seq(Blocks)
  BY DEF FreeList
<1>2. f[k].offset \in Nat /\ f[k].size \in Nat /\ f[k].size >= 1
  BY <1>1, BlockTypes
<1> SUFFICES ASSUME ~(f[k].offset + f[k].size <= o), ~(o + n <= f[k].offset)
             PROVE  FALSE
  OBVIOUS
<1>3. CASE f[k].offset <= o
  <2>1. InBlock(o, f[k].offset, f[k].size) /\ InBlock(o, o, n)
    BY <1>2, <1>3 DEF InBlock
  <2> QED  BY <2>1 DEF IsFree
<1>4. CASE o <= f[k].offset
  <2>1. InBlock(f[k].offset, f[k].offset, f[k].size) /\ InBlock(f[k].offset, o, n)
    BY <1>2, <1>4 DEF InBlock
  <2> QED  BY <1>2, <2>1 DEF IsFree
<1> QED  BY <1>2, <1>3, <1>4

\* A block that is neither of two.
Besides(f, k, l, e) == \E p \in DOMAIN f : p # k /\ p # l /\ f[p] = e

\* Two blocks with free bytes between them become one.
LEMMA MergedBlock ==
    ASSUME NEW f, FreeList(f), NEW h \in DOMAIN f, h + 1 \in DOMAIN f, NEW e \in Blocks,
           e.offset = f[h].offset, e.offset + e.size = f[h + 1].offset + f[h + 1].size,
           NEW f1, f1 = [f EXCEPT ![h] = e]
    PROVE  /\ FreeList(RemoveAt(f1, h + 1))
           /\ \A d : Among(RemoveAt(f1, h + 1), d) <=> d = e \/ Besides(f, h, h + 1, d)
<1> DEFINE g == RemoveAt(f1, h + 1)
           len == Len(f)
           At(k) == IF k <= h THEN k ELSE k + 1
<1>1. /\ f \in Seq(Blocks)
      /\ \A k, l \in DOMAIN f : k < l => f[k].offset + f[k].size < f[l].offset
  BY DEF FreeList
<1>2. /\ len \in Nat /\ DOMAIN f = 1 .. len /\ h \in 1 .. len /\ h + 1 \in 1 .. len
      /\ \A k \in DOMAIN f : f[k].offset \in Nat /\ f[k].size \in Nat
  BY <1>1, BlockTypes
<1>3. f1 \in Seq(Blocks) /\ Len(f1) = len /\ \A k \in 1 .. len : f1[k] = IF k = h THEN e ELSE f[k]
  BY <1>1, <1>2
<1> HIDE DEF len
<1>4. /\ g \in Seq(Blocks) /\ Len(g) = len - 1
      /\ \A k \in 1 .. len - 1 : g[k] = IF k < h + 1 THEN f1[k] ELSE f1[k + 1]
  <2>1. h + 1 \in 1 .. Len(f1)
    BY <1>2, <1>3
  <2>2. /\ g \in Seq(Blocks) /\ Len(g) = Len(f1) - 1
        /\ \A k \in 1 .. Len(f1) - 1 : g[k] = IF k < h + 1 THEN f1[k] ELSE f1[k + 1]
    BY <1>3, <2>1, RemoveAtMeans
  <2> QED  BY <1>3, <2>2
<1> HIDE DEF g
<1>5. DOMAIN g = 1 .. len - 1 /\ h \in DOMAIN g /\ g[h] = e
  BY <1>2, <1>3, <1>4
<1>6. \A k \in DOMAIN g : k # h => /\ At(k) \in DOMAIN f /\ At(k) # h /\ At(k) # h + 1
                                   /\ g[k] = f[At(k)]
  <2> SUFFICES ASSUME NEW k \in 1 .. len - 1, k # h
               PROVE  At(k) \in DOMAIN f /\ At(k) # h /\ At(k) # h + 1 /\ g[k] = f[At(k)]
    BY <1>5
  <2>1. CASE k < h
    BY <1>2, <1>3, <1>4, <2>1
  <2>2. CASE h < k
    <3>1. k + 1 \in 1 .. len /\ k + 1 # h /\ ~(k < h + 1) /\ ~(k <= h) /\ k + 1 # h + 1
      BY <1>2, <2>2
    <3> QED  BY <1>2, <1>3, <1>4, <3>1
  <2> QED  BY <1>2, <2>1, <2>2
<1>7. \A k, l \in DOMAIN g : k < l => At(k) < At(l)
  BY <1>2, <1>5
<1>8. \A k \in DOMAIN g : k < h <=> At(k) < h
  BY <1>2, <1>5
<1>9. \A k \in DOMAIN g : h < k <=> h + 1 < At(k)
  BY <1>2, <1>5
<1>10. ASSUME NEW l \in DOMAIN f, l # h, l # h + 1
       PROVE  \E k \in DOMAIN g : g[k] = f[l]
  <2>1. CASE l < h
    <3>1. l \in DOMAIN g /\ l # h /\ At(l) = l
      BY <1>2, <1>5, <2>1
    <3> QED  BY <1>6, <3>1
  <2>2. CASE ~(l < h)
    <3>1. l - 1 \in DOMAIN g /\ l - 1 # h /\ At(l - 1) = l
      BY <1>2, <1>5, <1>10, <2>2
    <3> QED  BY <1>6, <3>1
  <2> QED  BY <2>1, <2>2
<1> HIDE DEF At
<1>11. FreeList(g)
  <2> SUFFICES ASSUME NEW k \in DOMAIN g, NEW l \in DOMAIN g, k < l
               PROVE  g[k].offset + g[k].size < g[l].offset
    BY <1>4 DEF FreeList
  <2>0. k \in Int /\ l \in Int /\ h \in Int
    BY <1>2, <1>5
  <2>1. CASE k = h
    <3>1. l # h /\ h + 1 < At(l)
      BY <1>9, <2>0, <2>1
    <3>2. f[h + 1].offset + f[h + 1].size < f[At(l)].offset
      BY <1>1, <1>6, <3>1
    <3> QED  BY <1>5, <1>6, <2>1, <3>1, <3>2
  <2>2. CASE l = h
    <3>1. k # h /\ At(k) < h
      BY <1>8, <2>0, <2>2
    <3>2. f[At(k)].offset + f[At(k)].size < f[h].offset
      BY <1>1, <1>6, <3>1
    <3> QED  BY <1>5, <1>6, <2>2, <3>1, <3>2
  <2>3. CASE k # h /\ l # h
    BY <1>1, <1>6, <1>7, <2>3
  <2> QED  BY <2>1, <2>2, <2>3
<1>12. \A d : Among(g, d) <=> d = e \/ \E k \in DOMAIN f : k # h /\ k # h + 1 /\ f[k] = d
  <2> SUFFICES ASSUME NEW d
               PROVE  Among(g, d) <=> d = e \/ \E k \in DOMAIN f : k # h /\ k # h + 1 /\ f[k] = d
    OBVIOUS
  <2>1. ASSUME NEW k \in DOMAIN g, g[k] = d
        PROVE  d = e \/ \E l \in DOMAIN f : l # h /\ l # h + 1 /\ f[l] = d
    BY <1>5, <1>6, <2>1
  <2>2. ASSUME NEW l \in DOMAIN f, l # h, l # h + 1, f[l] = d
        PROVE  \E k \in DOMAIN g : g[k] = d
    BY <1>10, <2>2
  <2>3. d = e => \E k \in DOMAIN g : g[k] = d
    BY <1>5
  <2> QED  BY <2>1, <2>2, <2>3 DEF Among
<1> QED  BY <1>11, <1>12 DEF g, Besides

\* Bytes that are given back are free in one block with the free ones they touch.
LEMMA FreedMeans ==
    ASSUME NEW f, FreeList(f), NEW o \in Nat, NEW n \in Nat \ {0},
           \A x \in Nat : InBlock(x, o, n) => ~IsFree(f, x),
           NEW m \in Nat, Begun(f, m), o <= m
    PROVE  /\ FreeList(Freed(f, o, n))
           /\ Begun(Freed(f, o, n), m)
           /\ \A x \in Nat : IsFree(Freed(f, o, n), x) <=> IsFree(f, x) \/ InBlock(x, o, n)
<1> DEFINE g == Freed(f, o, n)
           touching == {k \in DOMAIN f : Ends(f, k, o) \/ Begins(f, k, o, n)}
           h == Min(touching)
<1>1. /\ f \in Seq(Blocks)
      /\ \A k, l \in DOMAIN f : k < l => f[k].offset + f[k].size < f[l].offset
  BY DEF FreeList
<1>2. \A k \in DOMAIN f : /\ k \in Nat /\ f[k] \in Blocks /\ f[k].offset \in Nat
                          /\ f[k].size \in Nat /\ f[k].size >= 1 /\ f[k].offset <= m
  <2>1. \A k \in DOMAIN f : k \in Nat
    BY <1>1
  <2> QED  BY <1>1, <2>1, BlockTypes DEF Begun
<1>3. \A k \in DOMAIN f : f[k].offset + f[k].size <= o \/ o + n <= f[k].offset
  BY ApartFrom
<1>4. g = IF touching = {} THEN InsertBlock(f, o, n)
          ELSE IF ~Ends(f, h, o)
               THEN [f EXCEPT ![h] = [offset |-> o, size |-> f[h].size + n]]
          ELSE IF h < Len(f) /\ Begins(f, h + 1, o, n)
               THEN RemoveAt([f EXCEPT ![h].size = f[h].size + n + f[h + 1].size], h + 1)
          ELSE [f EXCEPT ![h].size = f[h].size + n]
  BY DEF Freed, Ends, Begins
<1> HIDE DEF g
\* It is enough to know the blocks of the new list.
<1>5. ASSUME NEW e \in Blocks, NEW gone \in SUBSET DOMAIN f, FreeList(g),
             \A d : Among(g, d) <=> d = e \/ \E k \in DOMAIN f : k \notin gone /\ f[k] = d,
             e.offset <= m,
             \A x \in Nat : InBlock(x, e.offset, e.size) <=>
                 InBlock(x, o, n) \/ \E k \in gone : InBlock(x, f[k].offset, f[k].size)
      PROVE  /\ FreeList(g)
             /\ Begun(g, m)
             /\ \A x \in Nat : IsFree(g, x) <=> IsFree(f, x) \/ InBlock(x, o, n)
  <2>1. \A d \in Blocks : Among(g, d) => d.offset <= m
    BY <1>2, <1>5
  <2>2. Begun(g, m)
    BY <1>5, <2>1, FreeByBlocks
  <2>3. ASSUME NEW x \in Nat
        PROVE  IsFree(g, x) <=> IsFree(f, x) \/ InBlock(x, o, n)
    <3>1. IsFree(g, x) <=> \/ InBlock(x, e.offset, e.size)
                           \/ \E k \in DOMAIN f : k \notin gone /\ InBlock(x, f[k].offset, f[k].size)
      BY <1>2, <1>5, FreeByBlocks
    <3>2. InBlock(x, e.offset, e.size) <=>
             InBlock(x, o, n) \/ \E k \in gone : InBlock(x, f[k].offset, f[k].size)
      BY <1>5
    <3> QED  BY <3>1, <3>2 DEF IsFree
  <2> QED  BY <1>5, <2>2, <2>3
<1>6. CASE touching = {}
  <2> DEFINE e == [offset |-> o, size |-> n]
             p == Cardinality({k \in DOMAIN f : f[k].offset < o}) + 1
  <2>1. e \in Blocks /\ e.offset = o /\ e.size = n
    BY DEF Blocks
  <2>2. g = InsertAt(f, p, e)
    BY <1>4, <1>6 DEF InsertBlock
  <2>3. p \in 1 .. Len(f) + 1 /\ \A k \in DOMAIN f : k < p <=> f[k].offset < o
    BY BlocksBefore
  <2> HIDE DEF e, p
  <2>4. \A k \in DOMAIN f : ~Ends(f, k, o) /\ ~Begins(f, k, o, n)
    BY <1>6
  <2>5. ASSUME NEW k \in DOMAIN f, k < p
        PROVE  f[k].offset + f[k].size < e.offset
    <3>1. f[k].offset < o
      BY <2>3, <2>5
    <3>2. f[k].offset + f[k].size <= o
      BY <1>2, <1>3, <3>1
    <3> QED  BY <1>2, <2>1, <2>4, <3>2 DEF Ends
  <2>6. ASSUME NEW k \in DOMAIN f, k >= p
        PROVE  e.offset + e.size < f[k].offset
    <3>0. k \in Int /\ p \in Int
      BY <1>2, <2>3
    <3>1. ~(f[k].offset < o)
      BY <2>3, <2>6, <3>0
    <3>2. o + n <= f[k].offset
      BY <1>2, <1>3, <3>1
    <3> QED  BY <1>2, <2>1, <2>4, <3>2 DEF Begins
  <2>7. /\ FreeList(InsertAt(f, p, e))
        /\ \A d : (\E k \in DOMAIN InsertAt(f, p, e) : InsertAt(f, p, e)[k] = d)
                        <=> d = e \/ \E k \in DOMAIN f : f[k] = d
    BY <2>1, <2>3, <2>5, <2>6, WithBlock
  <2> DEFINE none == {}
  <2>8. FreeList(g) /\ \A d : Among(g, d) <=> d = e \/ \E k \in DOMAIN f : k \notin none /\ f[k] = d
    BY <2>2, <2>7 DEF Among
  <2>9. \A x \in Nat : InBlock(x, e.offset, e.size) <=>
            InBlock(x, o, n) \/ \E k \in none : InBlock(x, f[k].offset, f[k].size)
    BY <2>1
  <2>10. none \in SUBSET DOMAIN f /\ e.offset <= m
    BY <2>1
  <2> HIDE DEF none
  <2> QED  BY <1>5, <2>1, <2>8, <2>9, <2>10 DEF g
<1>7. CASE touching # {}
  <2>1. h \in touching /\ \A k \in touching : h <= k
    <3>1. touching \in SUBSET Nat
      BY <1>2
    <3> QED  BY <1>7, <3>1, MinMeans
  <2>2. h \in DOMAIN f /\ (Ends(f, h, o) \/ Begins(f, h, o, n))
    BY <2>1
  <2>3. \A k \in DOMAIN f : k < h => ~Ends(f, k, o) /\ ~Begins(f, k, o, n)
    <3> SUFFICES ASSUME NEW k \in DOMAIN f, k < h, k \in touching
                 PROVE  FALSE
      OBVIOUS
    <3>1. h <= k /\ k \in Nat /\ h \in Nat
      BY <1>2, <2>1, <2>2
    <3> HIDE DEF h
    <3> QED  BY <3>1
  <2>4. PICK z \in DOMAIN f : z = h
    BY <2>2
  <2>5. z \in Nat /\ f[z].offset \in Nat /\ f[z].size \in Nat /\ f[z].size >= 1 /\ f[z].offset <= m
    BY <1>2
  <2>6. (Ends(f, z, o) \/ Begins(f, z, o, n))
        /\ \A k \in DOMAIN f : k < z => ~Ends(f, k, o) /\ ~Begins(f, k, o, n)
    BY <2>2, <2>3, <2>4
  <2>7. g = IF ~Ends(f, z, o)
            THEN [f EXCEPT ![z] = [offset |-> o, size |-> f[z].size + n]]
            ELSE IF z < Len(f) /\ Begins(f, z + 1, o, n)
            THEN RemoveAt([f EXCEPT ![z].size = f[z].size + n + f[z + 1].size], z + 1)
            ELSE [f EXCEPT ![z].size = f[z].size + n]
    BY <1>4, <1>7, <2>4
  <2> HIDE DEF h, touching
  <2>8. \A k \in DOMAIN f : k < z => f[k].offset + f[k].size < f[z].offset
    BY <1>1
  <2>9. \A k \in DOMAIN f : z < k => f[z].offset + f[z].size < f[k].offset
    BY <1>1
  <2>10. CASE ~Ends(f, z, o)
    <3> DEFINE e == [offset |-> o, size |-> f[z].size + n]
    <3>1. e \in Blocks /\ e.offset = o /\ e.size = f[z].size + n
      BY <2>5 DEF Blocks
    <3>2. g = [f EXCEPT ![z] = e]
      BY <2>7, <2>10
    <3> HIDE DEF e
    <3>3. o + n = f[z].offset
      BY <2>6, <2>10 DEF Begins
    <3>4. ASSUME NEW k \in DOMAIN f, k < z
          PROVE  f[k].offset + f[k].size < e.offset
      <4>1. f[k].offset + f[k].size < f[z].offset /\ f[k].offset + f[k].size # o
        BY <2>6, <2>8, <3>4 DEF Ends
      <4>2. f[k].offset \in Nat /\ f[k].size \in Nat
        BY <1>2
      <4>3. f[k].offset + f[k].size <= o \/ o + n <= f[k].offset
        BY <1>3
      <4> QED  BY <2>5, <3>1, <3>3, <4>1, <4>2, <4>3
    <3>5. ASSUME NEW k \in DOMAIN f, z < k
          PROVE  e.offset + e.size < f[k].offset
      <4>1. f[z].offset + f[z].size < f[k].offset
        BY <2>9, <3>5
      <4> QED  BY <2>5, <3>1, <3>3, <4>1
    <3>6. /\ FreeList([f EXCEPT ![z] = e])
          /\ \A d : (\E k \in DOMAIN [f EXCEPT ![z] = e] : [f EXCEPT ![z] = e][k] = d)
                        <=> d = e \/ \E k \in DOMAIN f : k # z /\ f[k] = d
      BY <3>1, <3>4, <3>5, OtherBlock
    <3>7. FreeList(g) /\ \A d : Among(g, d) <=> d = e \/ \E k \in DOMAIN f : k \notin {z} /\ f[k] = d
      BY <3>2, <3>6 DEF Among
    <3>8. \A x \in Nat : InBlock(x, e.offset, e.size) <=>
              InBlock(x, o, n) \/ \E k \in {z} : InBlock(x, f[k].offset, f[k].size)
      BY <2>5, <3>1, <3>3 DEF InBlock
    <3>9. e.offset <= m /\ {z} \in SUBSET DOMAIN f
      BY <3>1
    <3> QED  BY <1>5, <3>1, <3>7, <3>8, <3>9 DEF g
  <2>11. CASE Ends(f, z, o) /\ z < Len(f) /\ Begins(f, z + 1, o, n)
    <3> DEFINE e == [offset |-> f[z].offset, size |-> f[z].size + n + f[z + 1].size]
    <3>1. z + 1 \in DOMAIN f
      BY <1>1, <2>5, <2>11
    <3>2. f[z + 1].offset \in Nat /\ f[z + 1].size \in Nat /\ f[z + 1].size >= 1
      BY <1>2, <3>1
    <3>3. e \in Blocks /\ e.offset = f[z].offset /\ e.size = f[z].size + n + f[z + 1].size
      BY <2>5, <3>2 DEF Blocks
    <3>4. [f EXCEPT ![z].size = f[z].size + n + f[z + 1].size] = [f EXCEPT ![z] = e]
      <4>1. f[z] = [offset |-> f[z].offset, size |-> f[z].size]
        BY <1>2 DEF Blocks
      <4>2. [f[z] EXCEPT !.size = f[z].size + n + f[z + 1].size] = e
        BY <4>1
      <4> QED  BY <4>2
    <3> HIDE DEF e
    <3>5. g = RemoveAt([f EXCEPT ![z] = e], z + 1)
      BY <2>7, <2>11, <3>4
    <3>6. f[z].offset + f[z].size = o /\ o + n = f[z + 1].offset
      BY <2>11 DEF Ends, Begins
    <3>7. e.offset + e.size = f[z + 1].offset + f[z + 1].size
      BY <2>5, <3>2, <3>3, <3>6
    <3>8. FreeList(g) /\ \A d : Among(g, d) <=>
                            d = e \/ \E k \in DOMAIN f : k # z /\ k # z + 1 /\ f[k] = d
      <4>1. e \in Blocks /\ e.offset = f[z].offset
        BY <3>3
      <4>2. PICK f1 : f1 = [f EXCEPT ![z] = e]
        OBVIOUS
      <4>3. FreeList(RemoveAt(f1, z + 1))
            /\ \A d : Among(RemoveAt(f1, z + 1), d) <=>
                               d = e \/ \E k \in DOMAIN f : k # z /\ k # z + 1 /\ f[k] = d
        <5>1. PICK d : d = e
          OBVIOUS
        <5>2. d \in Blocks /\ d.offset = f[z].offset
              /\ d.offset + d.size = f[z + 1].offset + f[z + 1].size
              /\ f1 = [f EXCEPT ![z] = d]
          BY <3>7, <4>1, <4>2, <5>1
        <5>3. /\ FreeList(RemoveAt(f1, z + 1))
              /\ \A b : Among(RemoveAt(f1, z + 1), b) <=> b = d \/ Besides(f, z, z + 1, b)
          BY <3>1, <5>2, MergedBlock
        <5> QED  BY <5>1, <5>3 DEF Besides
      <4> QED  BY <3>5, <4>2, <4>3
    <3>9. \A d : Among(g, d) <=> d = e \/ \E k \in DOMAIN f : k \notin {z, z + 1} /\ f[k] = d
      BY <3>8
    <3>10. \A x \in Nat : InBlock(x, e.offset, e.size) <=>
               InBlock(x, o, n) \/ \E k \in {z, z + 1} : InBlock(x, f[k].offset, f[k].size)
      <4> SUFFICES ASSUME NEW x \in Nat
                   PROVE  InBlock(x, e.offset, e.size) <=>
                             \/ InBlock(x, o, n)
                             \/ InBlock(x, f[z].offset, f[z].size)
                             \/ InBlock(x, f[z + 1].offset, f[z + 1].size)
        OBVIOUS
      <4> QED  BY <2>5, <3>2, <3>3, <3>6, <3>7 DEF InBlock
    <3>11. e.offset <= m /\ {z, z + 1} \in SUBSET DOMAIN f
      BY <2>5, <3>1, <3>3
    <3> QED  BY <1>5, <3>3, <3>8, <3>9, <3>10, <3>11 DEF g
  <2>12. CASE Ends(f, z, o) /\ ~(z < Len(f) /\ Begins(f, z + 1, o, n))
    <3> DEFINE e == [offset |-> f[z].offset, size |-> f[z].size + n]
    <3>1. e \in Blocks /\ e.offset = f[z].offset /\ e.size = f[z].size + n
      BY <2>5 DEF Blocks
    <3>2. [f EXCEPT ![z].size = f[z].size + n] = [f EXCEPT ![z] = e]
      <4>1. f[z] = [offset |-> f[z].offset, size |-> f[z].size]
        BY <1>2 DEF Blocks
      <4>2. [f[z] EXCEPT !.size = f[z].size + n] = e
        BY <4>1
      <4> QED  BY <4>2
    <3> HIDE DEF e
    <3>3. g = [f EXCEPT ![z] = e]
      BY <2>7, <2>12, <3>2
    <3>4. f[z].offset + f[z].size = o
      BY <2>12 DEF Ends
    <3>5. \A k \in DOMAIN f : k < z => f[k].offset + f[k].size < e.offset
      BY <2>8, <3>1
    <3>6. ASSUME NEW k \in DOMAIN f, z < k
          PROVE  e.offset + e.size < f[k].offset
      <4>1. k \in Nat /\ f[k].offset \in Nat /\ f[k].size \in Nat
        BY <1>2
      <4>2. o < f[k].offset
        BY <2>9, <3>4, <3>6
      <4>3. o + n <= f[k].offset
        BY <1>3, <4>1, <4>2
      <4>4. o + n # f[k].offset
        <5>1. CASE k = z + 1
          <6>1. z < Len(f)
            BY <1>1, <2>5, <5>1
          <6> QED  BY <2>12, <5>1, <6>1 DEF Begins
        <5>2. CASE k # z + 1
          <6>1. z + 1 \in DOMAIN f /\ z < z + 1 /\ z + 1 < k
            BY <1>1, <2>5, <3>6, <4>1, <5>2
          <6>2. f[z + 1].offset \in Nat /\ f[z + 1].size \in Nat /\ f[z + 1].size >= 1
            BY <1>2, <6>1
          <6>3. o < f[z + 1].offset /\ f[z + 1].offset + f[z + 1].size < f[k].offset
            BY <1>1, <2>9, <3>4, <6>1
          <6>4. f[z + 1].offset + f[z + 1].size <= o \/ o + n <= f[z + 1].offset
            BY <1>3, <6>1
          <6> QED  BY <4>1, <6>2, <6>3, <6>4
        <5> QED  BY <5>1, <5>2
      <4>5. e.offset + e.size = o + n
        BY <2>5, <3>1, <3>4
      <4> QED  BY <4>1, <4>3, <4>4, <4>5
    <3>7. /\ FreeList([f EXCEPT ![z] = e])
          /\ \A d : (\E k \in DOMAIN [f EXCEPT ![z] = e] : [f EXCEPT ![z] = e][k] = d)
                        <=> d = e \/ \E k \in DOMAIN f : k # z /\ f[k] = d
      BY <3>1, <3>5, <3>6, OtherBlock
    <3>8. FreeList(g) /\ \A d : Among(g, d) <=> d = e \/ \E k \in DOMAIN f : k \notin {z} /\ f[k] = d
      BY <3>3, <3>7 DEF Among
    <3>9. \A x \in Nat : InBlock(x, e.offset, e.size) <=>
              InBlock(x, o, n) \/ \E k \in {z} : InBlock(x, f[k].offset, f[k].size)
      BY <2>5, <3>1, <3>4 DEF InBlock
    <3>10. e.offset <= m /\ {z} \in SUBSET DOMAIN f
      BY <2>5, <3>1
    <3> QED  BY <1>5, <3>1, <3>8, <3>9, <3>10 DEF g
  <2> QED  BY <2>10, <2>11, <2>12
<1> QED  BY <1>6, <1>7 DEF g

-----------------------------------------------------------------------------
(* Allocators *)

Chunks == [free : Seq(Blocks), max_size : Nat]

\* The free blocks of every chunk are in order, and its bytes up to the
\* beginning of each have been used.
Allocator(alloc) ==
    /\ alloc \in Seq(Chunks)
    /\ \A c \in DOMAIN alloc : FreeList(alloc[c].free) /\ Begun(alloc[c].free, alloc[c].max_size)

LEMMA ChunkTypes ==
    ASSUME NEW alloc, Allocator(alloc)
    PROVE  /\ Len(alloc) \in Nat /\ DOMAIN alloc = 1 .. Len(alloc)
           /\ \A c \in DOMAIN alloc :
                 /\ c \in Nat /\ alloc[c] \in Chunks
                 /\ alloc[c].free \in Seq(Blocks) /\ alloc[c].max_size \in Nat
                 /\ FreeList(alloc[c].free) /\ Begun(alloc[c].free, alloc[c].max_size)
                 /\ Len(alloc[c].free) \in Nat /\ DOMAIN alloc[c].free = 1 .. Len(alloc[c].free)
                 /\ \A h \in DOMAIN alloc[c].free :
                       /\ alloc[c].free[h].offset \in Nat
                       /\ alloc[c].free[h].size \in Nat /\ alloc[c].free[h].size >= 1
<1>1. alloc \in Seq(Chunks)
  BY DEF Allocator
<1>2. Len(alloc) \in Nat /\ DOMAIN alloc = 1 .. Len(alloc)
      /\ \A c \in DOMAIN alloc : c \in Nat /\ alloc[c] \in Chunks
  BY <1>1
<1>3. \A c \in DOMAIN alloc : alloc[c].free \in Seq(Blocks) /\ alloc[c].max_size \in Nat
  BY <1>2 DEF Chunks
<1>4. \A c \in DOMAIN alloc :
         /\ Len(alloc[c].free) \in Nat /\ DOMAIN alloc[c].free = 1 .. Len(alloc[c].free)
         /\ \A h \in DOMAIN alloc[c].free :
               /\ alloc[c].free[h].offset \in Nat
               /\ alloc[c].free[h].size \in Nat /\ alloc[c].free[h].size >= 1
  BY <1>3, BlockTypes
<1> QED  BY <1>2, <1>3, <1>4 DEF Allocator

\* A block of the allocator that is large enough.
HasRoom(alloc, block, size) ==
    /\ block[1] \in DOMAIN alloc
    /\ block[2] \in DOMAIN alloc[block[1]].free
    /\ size <= alloc[block[1]].free[block[2]].size

LEMMA BestHoleMeans ==
    ASSUME NEW alloc, Allocator(alloc), NEW size \in Nat, BestHole(alloc, size) # <<>>
    PROVE  HasRoom(alloc, BestHole(alloc, size), size)
<1> DEFINE fitting(d) == {k \in Holes(alloc[d]) : Fits(alloc[d].free[k], size)}
           chunks == {d \in DOMAIN alloc : fitting(d) # {}}
           c == Max(chunks)
           least == Min({alloc[c].free[k].size : k \in fitting(c)})
           S == {k \in fitting(c) : alloc[c].free[k].size = least}
<1>1. BestHole(alloc, size) = IF chunks = {} THEN <<>> ELSE <<c, Max(S)>>
  BY DEF BestHole
<1>2. chunks # {} /\ BestHole(alloc, size) = <<c, Max(S)>>
  BY <1>1
<1> HIDE DEF S
<1>3. c \in chunks
  <2>1. chunks \in SUBSET Int /\ \A d \in chunks : d <= Len(alloc)
    BY ChunkTypes
  <2>2. Len(alloc) \in Int
    BY ChunkTypes
  <2> HIDE DEF chunks
  <2> QED  BY <1>2, <2>1, <2>2, MaxMeans
<1>4. c \in DOMAIN alloc /\ fitting(c) # {}
  BY <1>3
<1> HIDE DEF c, chunks
<1>5. \A k \in fitting(c) : /\ k \in 1 .. Len(alloc[c].free) - 1 /\ k \in DOMAIN alloc[c].free
                            /\ k \in Int /\ k <= Len(alloc[c].free)
                            /\ alloc[c].free[k].size \in Nat
                            /\ size <= alloc[c].free[k].size
  BY <1>4, ChunkTypes DEF Holes, Fits
<1> HIDE DEF fitting
<1>6. least \in {alloc[c].free[k].size : k \in fitting(c)}
  <2> DEFINE sizes == {alloc[c].free[k].size : k \in fitting(c)}
  <2>1. sizes \in SUBSET Nat /\ sizes # {}
    BY <1>4, <1>5
  <2> HIDE DEF sizes
  <2>2. Min(sizes) \in sizes
    BY <2>1, MinMeans
  <2> QED  BY <2>2 DEF sizes
<1> HIDE DEF least
<1>7. S # {} /\ S \in SUBSET Int /\ \A k \in S : k \in fitting(c) /\ k <= Len(alloc[c].free)
  BY <1>5, <1>6 DEF S
<1>8. Max(S) \in fitting(c)
  <2>1. Len(alloc[c].free) \in Int
    BY <1>4, ChunkTypes
  <2> QED  BY <1>7, <2>1, MaxMeans
<1> QED  BY <1>2, <1>4, <1>5, <1>8 DEF HasRoom

LEMMA BestLastMeans ==
    ASSUME NEW alloc, Allocator(alloc), NEW size \in Nat, BestLast(alloc, size) # <<>>
    PROVE  HasRoom(alloc, BestLast(alloc, size), size)
<1> DEFINE chunks == {d \in DOMAIN alloc :
                         alloc[d].free # <<>> /\ Fits(Last(alloc[d].free), size)}
           reuse(d) == Reuse(alloc[d], size)
           left == {d \in chunks : reuse(d) >= 0}
           L == {reuse(d) : d \in left}
           R == {reuse(d) : d \in chunks}
           best == IF left # {} THEN Min(L) ELSE Max(R)
           B == {d \in chunks : reuse(d) = best}
           c == Min(B)
<1>1. BestLast(alloc, size) = IF chunks = {} THEN <<>> ELSE <<c, Len(alloc[c].free)>>
  BY DEF BestLast
<1>2. chunks # {} /\ BestLast(alloc, size) = <<c, Len(alloc[c].free)>>
  BY <1>1
<1>3. \A d \in chunks :
         /\ d \in DOMAIN alloc /\ d \in Nat
         /\ Len(alloc[d].free) \in DOMAIN alloc[d].free
         /\ Last(alloc[d].free) = alloc[d].free[Len(alloc[d].free)]
         /\ Last(alloc[d].free).offset \in Nat /\ alloc[d].max_size \in Nat
         /\ size <= Last(alloc[d].free).size
  <2> SUFFICES ASSUME NEW d \in chunks
               PROVE  /\ d \in DOMAIN alloc /\ d \in Nat
                      /\ Len(alloc[d].free) \in DOMAIN alloc[d].free
                      /\ Last(alloc[d].free) = alloc[d].free[Len(alloc[d].free)]
                      /\ Last(alloc[d].free).offset \in Nat /\ alloc[d].max_size \in Nat
                      /\ size <= Last(alloc[d].free).size
    OBVIOUS
  <2>1. d \in DOMAIN alloc /\ d \in Nat /\ alloc[d].free \in Seq(Blocks) /\ alloc[d].max_size \in Nat
    BY ChunkTypes
  <2>2. alloc[d].free # <<>>
    OBVIOUS
  <2>3. Len(alloc[d].free) \in DOMAIN alloc[d].free
    BY <2>1, <2>2
  <2>4. Last(alloc[d].free) = alloc[d].free[Len(alloc[d].free)]
    BY DEF Last
  <2>5. /\ alloc[d].free[Len(alloc[d].free)].offset \in Nat
        /\ alloc[d].free[Len(alloc[d].free)].size \in Nat
    BY <2>1, <2>3, ChunkTypes
  <2>6. Last(alloc[d].free).size >= size
    BY DEF Fits
  <2> QED  BY <2>1, <2>3, <2>4, <2>5, <2>6
<1>4. \A d \in chunks : reuse(d) \in Int
  <2> SUFFICES ASSUME NEW d \in chunks
               PROVE  reuse(d) \in Int
    OBVIOUS
  <2> HIDE DEF chunks
  <2>1. Last(alloc[d].free).offset \in Nat /\ alloc[d].max_size \in Nat
    BY <1>3
  <2> QED  BY <2>1 DEF Reuse
<1> HIDE DEF chunks, reuse
<1>5. best \in R
  <2>1. CASE left # {}
    <3>1. L \in SUBSET Nat /\ L # {}
      BY <1>4, <2>1
    <3>2. L \subseteq R
      OBVIOUS
    <3> HIDE DEF L, left
    <3>3. Min(L) \in L
      BY <3>1, MinMeans
    <3>4. best = Min(L)
      BY <2>1
    <3> QED  BY <3>2, <3>3, <3>4
  <2>2. CASE left = {}
    <3>1. R \in SUBSET Int /\ R # {} /\ \A r \in R : r <= 0
      BY <1>2, <1>4, <2>2
    <3>2. best = Max(R)
      BY <2>2
    <3> HIDE DEF R, best
    <3>3. Max(R) \in R
      BY <3>1, MaxMeans
    <3> QED  BY <3>2, <3>3
  <2> QED  BY <2>1, <2>2
<1>6. PICK d \in chunks : reuse(d) = best
  BY <1>5
<1> HIDE DEF best
<1>7. B # {} /\ B \in SUBSET Nat /\ B \subseteq chunks
  BY <1>3, <1>6
<1> HIDE DEF B
<1>8. c \in chunks
  BY <1>7, MinMeans
<1> HIDE DEF c
<1> QED  BY <1>2, <1>3, <1>8 DEF HasRoom

\* If there is no best block, then no block is large enough.
LEMMA NoRoom ==
    ASSUME NEW alloc, Allocator(alloc), NEW size \in Nat,
           BestHole(alloc, size) = <<>>, BestLast(alloc, size) = <<>>
    PROVE  \A d \in DOMAIN alloc : \A k \in DOMAIN alloc[d].free : alloc[d].free[k].size < size
<1>1. \A d \in DOMAIN alloc : {k \in Holes(alloc[d]) : Fits(alloc[d].free[k], size)} = {}
  <2> DEFINE fitting(d) == {k \in Holes(alloc[d]) : Fits(alloc[d].free[k], size)}
             chunks == {d \in DOMAIN alloc : fitting(d) # {}}
             c == Max(chunks)
             least == Min({alloc[c].free[k].size : k \in fitting(c)})
             S == {k \in fitting(c) : alloc[c].free[k].size = least}
  <2>1. BestHole(alloc, size) = IF chunks = {} THEN <<>> ELSE <<c, Max(S)>>
    BY DEF BestHole
  <2>2. <<c, Max(S)>> # <<>>
    OBVIOUS
  <2> HIDE DEF c, S
  <2>3. chunks = {}
    BY <2>1, <2>2
  <2> QED  BY <2>3
<1>2. {d \in DOMAIN alloc : alloc[d].free # <<>> /\ Fits(Last(alloc[d].free), size)} = {}
  <2> DEFINE chunks == {d \in DOMAIN alloc :
                           alloc[d].free # <<>> /\ Fits(Last(alloc[d].free), size)}
             reuse(d) == Reuse(alloc[d], size)
             left == {d \in chunks : reuse(d) >= 0}
             best == IF left # {} THEN Min({reuse(d) : d \in left})
                     ELSE Max({reuse(d) : d \in chunks})
             c == Min({d \in chunks : reuse(d) = best})
  <2>1. BestLast(alloc, size) = IF chunks = {} THEN <<>> ELSE <<c, Len(alloc[c].free)>>
    BY DEF BestLast
  <2>2. <<c, Len(alloc[c].free)>> # <<>>
    OBVIOUS
  <2> HIDE DEF c
  <2>3. chunks = {}
    BY <2>1, <2>2
  <2> QED  BY <2>3
<1> SUFFICES ASSUME NEW d \in DOMAIN alloc, NEW k \in DOMAIN alloc[d].free
             PROVE  alloc[d].free[k].size < size
  OBVIOUS
<1>3. PICK f, l : f = alloc[d].free /\ l = Len(f)
  OBVIOUS
<1>4. /\ l \in Nat /\ k \in 1 .. l /\ f[k].size \in Nat
  BY <1>3, ChunkTypes
<1>5. ~(f[k].size >= size)
  <2>1. CASE k = l
    <3>1. f # <<>> /\ Last(f) = f[k]
      BY <1>3, <1>4, <2>1 DEF Last
    <3> QED  BY <1>2, <1>3, <3>1 DEF Fits
  <2>2. CASE k # l
    <3>1. k \in Holes(alloc[d])
      BY <1>3, <1>4, <2>2 DEF Holes
    <3> QED  BY <1>1, <1>3, <3>1 DEF Fits
  <2> QED  BY <2>1, <2>2
<1> QED  BY <1>3, <1>4, <1>5

\* There is room for every tensor, in a chunk that was there or, if there is no
\* room in any, in a new one.
LEMMA ChosenMeans ==
    ASSUME NEW alloc, Allocator(alloc), NEW size \in Nat \ {0}, size <= Endless
    PROVE  LET ch == Chosen(alloc, size)
           IN  /\ Allocator(ch.alloc)
               /\ HasRoom(ch.alloc, ch.block, size)
               /\ \/ ch.alloc = alloc
                  \/ /\ Len(ch.alloc) = Len(alloc) + 1
                     /\ \A d \in DOMAIN alloc : ch.alloc[d] = alloc[d]
                     /\ ch.block[1] = Len(alloc) + 1
                     /\ ch.alloc[Len(alloc) + 1].max_size = 0
                     /\ ch.alloc[Len(alloc) + 1].free[ch.block[2]].offset = 0
                     /\ ch.alloc[Len(alloc) + 1] = NewChunk(Len(alloc) + 1, size)
                     /\ \A d \in DOMAIN alloc : \A k \in DOMAIN alloc[d].free :
                           alloc[d].free[k].size < size
<1> DEFINE ch == Chosen(alloc, size)
           hole == BestHole(alloc, size)
           last == BestLast(alloc, size)
           n == Len(alloc) + 1
<1>1. ch = IF hole # <<>> THEN [alloc |-> alloc, block |-> hole]
           ELSE IF last # <<>> THEN [alloc |-> alloc, block |-> last]
           ELSE [alloc |-> Append(alloc, NewChunk(n, size)), block |-> <<n, 1>>]
  BY DEF Chosen
<1> HIDE DEF ch
<1>2. CASE hole # <<>>
  <2>1. HasRoom(alloc, hole, size)
    BY <1>2, BestHoleMeans
  <2>2. ch.alloc = alloc /\ ch.block = hole
    BY <1>1, <1>2
  <2> QED  BY <2>1, <2>2 DEF ch
<1>3. CASE hole = <<>> /\ last # <<>>
  <2>1. HasRoom(alloc, last, size)
    BY <1>3, BestLastMeans
  <2>2. ch.alloc = alloc /\ ch.block = last
    BY <1>1, <1>3
  <2> QED  BY <2>1, <2>2 DEF ch
<1>4. CASE hole = <<>> /\ last = <<>>
  <2> DEFINE room == IF n = MaxChunks THEN Endless ELSE Max({size, MaxChunkSize})
             e == [offset |-> 0, size |-> room]
             new == [free |-> <<e>>, max_size |-> 0]
             b == Append(alloc, new)
  <2>1. NewChunk(n, size) = new
    BY DEF NewChunk
  <2>2. room \in Nat /\ size <= room /\ room >= 1
    <3>1. Max({size, MaxChunkSize}) \in Nat /\ size <= Max({size, MaxChunkSize})
      BY ChunkAssumption, MaxOfTwo
    <3> QED  BY <3>1, ChunkAssumption
  <2> HIDE DEF room
  <2>3. e \in Blocks /\ e.offset = 0 /\ e.size = room
    BY <2>2 DEF Blocks
  <2> HIDE DEF e
  <2>4. <<e>> \in Seq(Blocks) /\ DOMAIN <<e>> = {1} /\ <<e>>[1] = e /\ Len(<<e>>) = 1
    BY <2>3
  <2>5. new \in Chunks /\ new.free = <<e>> /\ new.max_size = 0
    BY <2>4 DEF Chunks
  <2>6. FreeList(new.free) /\ Begun(new.free, 0)
    <3>1. \A k, l \in {1} : ~(k < l)
      OBVIOUS
    <3> QED  BY <2>3, <2>4, <2>5, <3>1 DEF FreeList, Begun
  <2>7. ch.alloc = b /\ ch.block = <<n, 1>>
    BY <1>1, <1>4, <2>1
  <2> HIDE DEF new
  <2>8. alloc \in Seq(Chunks) /\ Len(alloc) \in Nat /\ DOMAIN alloc = 1 .. Len(alloc)
    BY ChunkTypes DEF Allocator
  <2>9. /\ b \in Seq(Chunks) /\ Len(b) = n /\ DOMAIN b = 1 .. n /\ b[n] = new
        /\ \A d \in DOMAIN alloc : b[d] = alloc[d]
    BY <2>5, <2>8
  <2> HIDE DEF b
  <2>10. Allocator(b)
    <3>1. \A d \in DOMAIN b : d = n \/ d \in DOMAIN alloc
      BY <2>8, <2>9
    <3> QED  BY <2>5, <2>6, <2>9, <3>1 DEF Allocator
  <2>11. HasRoom(b, <<n, 1>>, size)
    <3>1. n \in DOMAIN b /\ 1 \in DOMAIN b[n].free /\ b[n].free[1] = e
      BY <2>4, <2>5, <2>8, <2>9
    <3> QED  BY <2>2, <2>3, <3>1 DEF HasRoom
  <2>12. b[n].max_size = 0 /\ b[n].free[1].offset = 0
    BY <2>3, <2>4, <2>5, <2>9
  <2>13. b[n] = NewChunk(n, size)
    BY <2>1, <2>9
  <2>14. \A d \in DOMAIN alloc : \A k \in DOMAIN alloc[d].free : alloc[d].free[k].size < size
    BY <1>4, NoRoom
  <2> QED  BY <2>7, <2>9, <2>10, <2>11, <2>12, <2>13, <2>14 DEF ch
<1> QED  BY <1>2, <1>3, <1>4


-----------------------------------------------------------------------------
(* The inductive invariant *)

\* Bytes of the chunks that are free, and that tensors have used.
FreeByte(B, b, c, x) ==
    b \in DOMAIN B /\ c \in DOMAIN B[b] /\ IsFree(B[b][c].free, x)
UsedByte(B, b, c, x) ==
    b \in DOMAIN B /\ c \in DOMAIN B[b] /\ x < B[b][c].max_size

\* The bytes of a chunk that are reserved for t.
Owns(g, at, t, b, c, x) ==
    /\ at[t].buffer = b /\ at[t].chunk = c
    /\ InBlock(x, at[t].offset, Aligned(AllocSize(g[t])))

\* t has an address in a chunk that is large enough.
Placed(g, B, at, t) ==
    /\ at[t].buffer \in DOMAIN B /\ at[t].chunk \in DOMAIN B[at[t].buffer]
    /\ at[t].offset \in Nat
    /\ at[t].offset + Aligned(AllocSize(g[t])) <= B[at[t].buffer][at[t].chunk].max_size

\* Every byte that has been used is free or belongs to one of the tensors in own.
Shared(g, B, own, at) ==
    /\ \A b \in DOMAIN B : Allocator(B[b])
    /\ \A t \in own : Placed(g, B, at, t)
    /\ \A t \in own : \A b, c : \A x \in Nat :
           Owns(g, at, t, b, c, x) => ~FreeByte(B, b, c, x)
    /\ \A t, u \in own : \A b, c : \A x \in Nat :
           Owns(g, at, t, b, c, x) /\ Owns(g, at, u, b, c, x) => t = u
    /\ \A b, c : \A x \in Nat :
           UsedByte(B, b, c, x) =>
               FreeByte(B, b, c, x) \/ \E t \in own : Owns(g, at, t, b, c, x)

NeedsMemory(g, t) == ~IsView(g[t]) /\ ~g[t].external

\* The tensors up to this one have been given their address.
Done == IF pc = "update" THEN i ELSE i - 1

Source(g, u) == g[u[1]].src[u[2]]

\* The uses that have not been taken off the counters yet.
Pending == {u \in Uses(graph) : u[1] > i \/ (u[1] = i /\ (pc = "update" => u[2] >= j))}

UsesOf(g, U, t) == {u \in U : Source(g, u) = t}

\* The views of t that are counted while the uses U are pending: those that are
\* or have never been used.
OpenViews(g, U, t) ==
    {n \in Nodes(g) : g[n].view_src = t /\
        (UsesOf(g, Uses(g), n) = {} \/ UsesOf(g, U, n) # {})}

\* The counters are those of the uses U.
Counts(g, U, children, views) ==
    /\ DOMAIN children = DOMAIN g /\ DOMAIN views = DOMAIN g
    /\ \A t \in DOMAIN g : /\ children[t] = Cardinality(UsesOf(g, U, t))
                               /\ views[t] = Cardinality(OpenViews(g, U, t))

\* Harmless, for all that is reserved for a tensor.
Spares(g, at, n) ==
    \A t \in 1 .. n - 1 :
        NeedsMemory(g, t) /\ Overlap(at[t], AllocSize(g[t]), at[n], AllocSize(g[n]))
        => /\ ~NeededAfter(g, t, n)
           /\ ReadBy(g, t, n) =>
                  /\ g[n].op = "inplace"
                  /\ at[t] = at[n]
                  /\ g[t].nbytes = g[n].nbytes

\* The memory when the tensors of g up to n have got their addresses: the
\* tensors that own some, what is still needed among them, have addresses in
\* the chunks of B, and no node up to n has taken what it should not.
Memory(g, n, B, own, at) ==
    /\ own \subseteq {t \in 1 .. n : NeedsMemory(g, t)}
    /\ Shared(g, B, own, at)
    /\ \A t \in 1 .. n : NeedsMemory(g, t) /\ NeededAfter(g, t, n) => t \in own
    /\ DOMAIN at = DOMAIN g
    /\ \A t \in DOMAIN g :
          IF t <= n /\ NeedsMemory(g, t) THEN Placed(g, B, at, t) ELSE at[t] = Invalid
    /\ \A m \in Nodes(g) : m <= n /\ ~IsView(g[m]) => Spares(g, at, m)

Known(h) == \E g \in Graphs : h \in {g} \cup Later(g)

Planning == pc \in {"allocate", "update", "buffers"}

AtTensor ==
    /\ pc = "allocate" => i \in DOMAIN graph
    /\ pc = "update" => i \in Nodes(graph) /\ j \in Nat \ {0}
    /\ pc = "buffers" => i = Len(graph) + 1

WhilePlanning ==
    /\ Known(graph)
    /\ \A t \in DOMAIN graph : graph[t].buffer \in Buffers
    /\ AtTensor
    /\ Counts(graph, Pending, n_children, n_views)
    /\ Memory(graph, Done, buf_tallocs, allocated, addr)

\* The plan is good for the graph it was made for.
PlanHolds ==
    /\ Known(planned)
    /\ \A n \in Nodes(planned) : ~IsView(planned[n]) => Spares(planned, plan, n)
    /\ \A t \in DOMAIN planned :
          IF NeedsMemory(planned, t)
          THEN /\ plan[t].buffer \in Buffers
               /\ plan[t].chunk \in DOMAIN buffers[plan[t].buffer]
               /\ plan[t].offset \in Nat
               /\ plan[t].offset + AllocSize(planned[t])
                      <= buffers[plan[t].buffer][plan[t].chunk]
          ELSE plan[t] = Invalid

IInv ==
    /\ n_buffers \in Nat
    /\ DOMAIN buf_tallocs = Buffers
    /\ DOMAIN buffers = Buffers
    /\ \A b \in Buffers : buffers[b] \in Seq(Nat)
    /\ pc \in {"idle", "allocate", "update", "buffers", "ready"}
    /\ Planning => WhilePlanning
    /\ planned # <<>> => PlanHolds
    /\ pc = "ready" => planned # <<>> /\ Known(graph)

-----------------------------------------------------------------------------
(* Alloc and FreeBytes *)

\* The allocator A has become C, which has n bytes at offset o of its chunk c
\* reserved.
Reserved(A, C, c, o, n) ==
    /\ Allocator(C)
    /\ o \in Nat /\ c \in DOMAIN C
    /\ DOMAIN A \subseteq DOMAIN C /\ DOMAIN C \subseteq DOMAIN A \cup {c}
    /\ o + n <= C[c].max_size
    /\ \A x \in Nat : IsFree(C[c].free, x) => ~InBlock(x, o, n)
    /\ \A d \in DOMAIN A : \A x \in Nat : IsFree(C[d].free, x) => IsFree(A[d].free, x)
    /\ \A d \in DOMAIN A : \A x \in Nat :
          IsFree(A[d].free, x) => IsFree(C[d].free, x) \/ (d = c /\ InBlock(x, o, n))
    /\ c \in DOMAIN A => \A x \in Nat : InBlock(x, o, n) => IsFree(A[c].free, x)
    /\ \A d \in DOMAIN A : A[d].max_size <= C[d].max_size
    /\ \A d \in DOMAIN C : \A x \in Nat : x < C[d].max_size =>
          (d \in DOMAIN A /\ x < A[d].max_size) \/ (d = c /\ InBlock(x, o, n))

\* The chunk c grows by no more than n bytes; it is a new one if there was no room.
Grown(A, C, c, o, n) ==
    /\ C[c].max_size <= (IF c \in DOMAIN A THEN A[c].max_size ELSE 0) + n
    /\ \A d \in DOMAIN A : d # c => C[d].max_size = A[d].max_size
    /\ c \notin DOMAIN A =>
          /\ c = Len(A) + 1
          /\ \A d \in DOMAIN A : \A k \in DOMAIN A[d].free : A[d].free[k].size < n
          /\ \A x \in Nat : IsFree(NewChunk(c, n).free, x) /\ ~InBlock(x, o, n)
                               => IsFree(C[c].free, x)

LEMMA AllocMeans ==
    ASSUME NEW A, Allocator(A), NEW s \in Nat, s >= 1, Aligned(s) <= Endless
    PROVE  \E c, o : /\ Alloc(A, s).addr = [chunk |-> c, offset |-> o]
                     /\ Reserved(A, Alloc(A, s).alloc, c, o, Aligned(s))
                     /\ Grown(A, Alloc(A, s).alloc, c, o, Aligned(s))
<1> DEFINE n == Aligned(s)
           ch == Chosen(A, n)
           D == ch.alloc
           c == ch.block[1]
           h == ch.block[2]
           f == D[c].free
           m == D[c].max_size
           o == f[h].offset
           mm == Max({m, o + n})
           e == [free |-> Shrunk(f, h, n), max_size |-> mm]
           C == [D EXCEPT ![c] = e]
<1>1. Alloc(A, s).alloc = C /\ Alloc(A, s).addr = [chunk |-> c, offset |-> o]
  BY DEF Alloc
<1>2. n \in Nat \ {0} /\ n <= Endless
  BY AlignedType
<1> HIDE DEF n
<1>3. /\ Allocator(D) /\ HasRoom(D, ch.block, n)
      /\ \/ D = A
         \/ /\ Len(D) = Len(A) + 1
            /\ \A d \in DOMAIN A : D[d] = A[d]
            /\ c = Len(A) + 1
            /\ D[Len(A) + 1].max_size = 0
            /\ D[Len(A) + 1].free[h].offset = 0
            /\ D[Len(A) + 1] = NewChunk(Len(A) + 1, n)
            /\ \A d \in DOMAIN A : \A k \in DOMAIN A[d].free : A[d].free[k].size < n
  BY <1>2, ChosenMeans
<1>4. c \in DOMAIN D /\ h \in DOMAIN f /\ n <= f[h].size
  BY <1>3 DEF HasRoom
<1>5. /\ DOMAIN A \subseteq DOMAIN D /\ DOMAIN D \subseteq DOMAIN A \cup {c}
      /\ \A d \in DOMAIN A : D[d] = A[d]
      /\ c \notin DOMAIN A =>
            /\ m = 0 /\ c = Len(A) + 1 /\ D[c] = NewChunk(c, n)
            /\ \A d \in DOMAIN A : \A k \in DOMAIN A[d].free : A[d].free[k].size < n
  <2>1. /\ Len(A) \in Nat /\ DOMAIN A = 1 .. Len(A)
        /\ Len(D) \in Nat /\ DOMAIN D = 1 .. Len(D)
    BY <1>3, ChunkTypes
  <2>2. CASE D = A
    BY <1>4, <2>2
  <2>3. CASE D # A
    <3>1. /\ Len(D) = Len(A) + 1 /\ c = Len(A) + 1 /\ D[c].max_size = 0
          /\ \A d \in DOMAIN A : D[d] = A[d]
          /\ D[c] = NewChunk(c, n)
          /\ \A d \in DOMAIN A : \A k \in DOMAIN A[d].free : A[d].free[k].size < n
      BY <1>3, <2>3
    <3> HIDE DEF D, c
    <3>2. DOMAIN A \subseteq DOMAIN D /\ DOMAIN D \subseteq DOMAIN A \cup {c}
      BY <2>1, <3>1
    <3> QED  BY <3>1, <3>2
  <2> QED  BY <2>2, <2>3
<1> HIDE DEF ch, D, c, h
<1>6. /\ D \in Seq(Chunks) /\ FreeList(f) /\ Begun(f, m) /\ m \in Nat /\ f \in Seq(Blocks)
      /\ o \in Nat /\ f[h].size \in Nat
  BY <1>3, <1>4, ChunkTypes DEF Allocator
<1>7. o <= m
  BY <1>4, <1>6 DEF Begun
<1>8. mm \in Nat /\ m <= mm /\ o + n <= mm /\ mm \in {m, o + n}
  <2> HIDE DEF o, m
  <2>1. o + n \in Nat
    BY <1>2, <1>6
  <2> QED  BY <1>6, <2>1, MaxOfTwo
<1> HIDE DEF mm
<1>9. /\ FreeList(Shrunk(f, h, n)) /\ Begun(Shrunk(f, h, n), mm)
      /\ \A x \in Nat : IsFree(Shrunk(f, h, n), x) <=> IsFree(f, x) /\ ~InBlock(x, o, n)
  BY <1>2, <1>4, <1>6, <1>8, ShrunkMeans
<1>10. e \in Chunks /\ e.free = Shrunk(f, h, n) /\ e.max_size = mm
  BY <1>8, <1>9 DEF Chunks, FreeList
<1> HIDE DEF e
<1>11. /\ C \in Seq(Chunks) /\ DOMAIN C = DOMAIN D /\ C[c] = e
       /\ \A d \in DOMAIN D : d # c => C[d] = D[d]
  BY <1>4, <1>6, <1>10
<1> HIDE DEF C
<1>12. Allocator(C)
  <2> SUFFICES ASSUME NEW d \in DOMAIN C
               PROVE  FreeList(C[d].free) /\ Begun(C[d].free, C[d].max_size)
    BY <1>11 DEF Allocator
  <2>1. CASE d = c
    BY <1>9, <1>10, <1>11, <2>1
  <2>2. CASE d # c
    BY <1>3, <1>11, <2>2 DEF Allocator
  <2> QED  BY <2>1, <2>2
<1>13. ASSUME NEW x \in Nat, InBlock(x, o, n)
       PROVE  IsFree(f, x)
  <2>1. InBlock(x, o, f[h].size)
    BY <1>2, <1>4, <1>6, <1>13 DEF InBlock
  <2> QED  BY <1>4, <2>1 DEF IsFree
<1>14. ASSUME NEW d \in DOMAIN A, NEW x \in Nat
       PROVE  /\ IsFree(C[d].free, x) => IsFree(A[d].free, x)
              /\ IsFree(A[d].free, x) => IsFree(C[d].free, x) \/ (d = c /\ InBlock(x, o, n))
              /\ A[d].max_size <= C[d].max_size
  <2>1. CASE d = c
    <3>1. C[d] = e /\ A[d].free = f /\ A[d].max_size = m
      BY <1>5, <1>11, <2>1
    <3> QED  BY <1>8, <1>9, <1>10, <2>1, <3>1
  <2>2. CASE d # c
    <3>1. C[d] = A[d] /\ A[d].max_size \in Nat
      BY <1>5, <1>11, <2>2, ChunkTypes
    <3> QED  BY <3>1
  <2> QED  BY <2>1, <2>2
<1>15. ASSUME NEW d \in DOMAIN C, NEW x \in Nat, x < C[d].max_size
       PROVE  (d \in DOMAIN A /\ x < A[d].max_size) \/ (d = c /\ InBlock(x, o, n))
  <2>1. CASE d = c
    <3>1. x < mm
      BY <1>10, <1>11, <1>15, <2>1
    <3>2. x < m \/ InBlock(x, o, n)
      <4> HIDE DEF o, m
      <4> QED  BY <1>2, <1>6, <1>7, <1>8, <3>1 DEF InBlock
    <3>3. CASE x < m
      <4>1. c \in DOMAIN A
        BY <1>5, <3>3
      <4> QED  BY <1>5, <2>1, <3>3, <4>1
    <3> QED  BY <2>1, <3>2, <3>3
  <2>2. CASE d # c
    BY <1>5, <1>11, <1>15, <2>2
  <2> QED  BY <2>1, <2>2
<1>16. \A x \in Nat : IsFree(C[c].free, x) => ~InBlock(x, o, n)
  BY <1>9, <1>10, <1>11
<1>17. c \in DOMAIN A => \A x \in Nat : InBlock(x, o, n) => IsFree(A[c].free, x)
  BY <1>5, <1>13
<1>18. c \in DOMAIN C /\ o + n <= C[c].max_size
  BY <1>4, <1>8, <1>10, <1>11
<1>19. Grown(A, C, c, o, n)
  <2>1. C[c].max_size <= (IF c \in DOMAIN A THEN A[c].max_size ELSE 0) + n
    <3>1. C[c].max_size = mm /\ m = (IF c \in DOMAIN A THEN A[c].max_size ELSE 0)
      BY <1>5, <1>10, <1>11
    <3> HIDE DEF m, o
    <3>2. mm <= m + n
      BY <1>2, <1>6, <1>7, <1>8
    <3> QED  BY <3>1, <3>2
  <2>2. \A d \in DOMAIN A : d # c => C[d].max_size = A[d].max_size
    BY <1>5, <1>11
  <2>3. c \notin DOMAIN A =>
           \A x \in Nat : IsFree(NewChunk(c, n).free, x) /\ ~InBlock(x, o, n)
                                => IsFree(C[c].free, x)
    BY <1>5, <1>9, <1>10, <1>11
  <2> QED  BY <1>5, <2>1, <2>2, <2>3 DEF Grown
<1> HIDE DEF o
<1>20. Reserved(A, C, c, o, n)
  BY <1>5, <1>6, <1>11, <1>12, <1>14, <1>15, <1>16, <1>17, <1>18 DEF Reserved
<1> QED  BY <1>1, <1>19, <1>20 DEF n

\* n bytes at offset o of the chunk c have become free.
Released(A, C, c, o, n) ==
    /\ Allocator(C) /\ DOMAIN C = DOMAIN A
    /\ \A d \in DOMAIN A : C[d].max_size = A[d].max_size
    /\ \A d \in DOMAIN A : \A x \in Nat :
          IsFree(C[d].free, x) <=> IsFree(A[d].free, x) \/ (d = c /\ InBlock(x, o, n))

LEMMA FreeBytesMeans ==
    ASSUME NEW A, Allocator(A), NEW at, at.chunk \in DOMAIN A, at.offset \in Nat,
           NEW s \in Nat, s >= 1, at.offset + Aligned(s) <= A[at.chunk].max_size,
           \A x \in Nat : InBlock(x, at.offset, Aligned(s)) => ~IsFree(A[at.chunk].free, x)
    PROVE  Released(A, FreeBytes(A, at, s), at.chunk, at.offset, Aligned(s))
<1> DEFINE n == Aligned(s)
           c == at.chunk
           o == at.offset
           f == A[c].free
           m == A[c].max_size
           g == Freed(f, o, n)
           e == [A[c] EXCEPT !.free = g]
           C == [A EXCEPT ![c] = e]
<1>1. FreeBytes(A, at, s) = C
  BY DEF FreeBytes
<1>2. n \in Nat \ {0}
  BY AlignedType
<1>3. /\ A \in Seq(Chunks) /\ FreeList(f) /\ Begun(f, m) /\ m \in Nat /\ A[c] \in Chunks
      /\ o \in Nat /\ o + n <= m /\ c \in DOMAIN A
  BY ChunkTypes DEF Allocator
<1>4. \A x \in Nat : InBlock(x, o, n) => ~IsFree(f, x)
  OBVIOUS
<1> HIDE DEF n, c, o
<1>5. o <= m
  BY <1>2, <1>3
<1>6. /\ FreeList(g) /\ Begun(g, m)
      /\ \A x \in Nat : IsFree(g, x) <=> IsFree(f, x) \/ InBlock(x, o, n)
  BY <1>2, <1>3, <1>4, <1>5, FreedMeans
<1> HIDE DEF g
<1>7. e \in Chunks /\ e.free = g /\ e.max_size = m
  BY <1>3, <1>6 DEF Chunks, FreeList
<1> HIDE DEF e
<1>8. /\ C \in Seq(Chunks) /\ DOMAIN C = DOMAIN A /\ C[c] = e
      /\ \A d \in DOMAIN A : d # c => C[d] = A[d]
  BY <1>3, <1>7
<1> HIDE DEF C
<1>9. Allocator(C)
  <2> SUFFICES ASSUME NEW d \in DOMAIN C
               PROVE  FreeList(C[d].free) /\ Begun(C[d].free, C[d].max_size)
    BY <1>8 DEF Allocator
  <2>1. CASE d = c
    BY <1>6, <1>7, <1>8, <2>1
  <2>2. CASE d # c
    BY <1>8, <2>2 DEF Allocator
  <2> QED  BY <2>1, <2>2
<1>10. \A d \in DOMAIN A : C[d].max_size = A[d].max_size
  BY <1>7, <1>8
<1>11. \A d \in DOMAIN A : \A x \in Nat :
          IsFree(C[d].free, x) <=> IsFree(A[d].free, x) \/ (d = c /\ InBlock(x, o, n))
  BY <1>6, <1>7, <1>8
<1>12. Released(A, C, c, o, n)
  BY <1>8, <1>9, <1>10, <1>11 DEF Released
<1> QED  BY <1>1, <1>12 DEF n, c, o

-----------------------------------------------------------------------------
(* How the bytes are shared *)

Sized(g, t) == AllocSize(g[t]) \in Nat \ {0}

\* The bytes x of chunk e of buffer d that are among n bytes at offset o of c in b.
Within(d, e, x, b, c, o, n) == d = b /\ e = c /\ InBlock(x, o, n)

\* The allocators B have become C, where n bytes are reserved.
Taken(B, C, b, c, o, n) ==
    /\ DOMAIN C = DOMAIN B /\ \A d \in DOMAIN B : Allocator(C[d])
    /\ b \in DOMAIN C /\ c \in DOMAIN C[b] /\ o \in Nat /\ o + n <= C[b][c].max_size
    /\ \A d \in DOMAIN B : \A e \in DOMAIN B[d] :
          e \in DOMAIN C[d] /\ B[d][e].max_size <= C[d][e].max_size
    /\ \A d, e : \A x \in Nat :
          /\ FreeByte(C, d, e, x) => ~Within(d, e, x, b, c, o, n)
          /\ UsedByte(B, d, e, x) /\ FreeByte(C, d, e, x) => FreeByte(B, d, e, x)
          /\ UsedByte(B, d, e, x) /\ Within(d, e, x, b, c, o, n) => FreeByte(B, d, e, x)
          /\ UsedByte(C, d, e, x) => UsedByte(B, d, e, x) \/ Within(d, e, x, b, c, o, n)
          /\ FreeByte(B, d, e, x) => FreeByte(C, d, e, x) \/ Within(d, e, x, b, c, o, n)

LEMMA ReservedTaken ==
    ASSUME NEW B, \A d \in DOMAIN B : Allocator(B[d]), NEW b \in DOMAIN B,
           NEW D, NEW c, NEW o, NEW n, Reserved(B[b], D, c, o, n)
    PROVE  Taken(B, [B EXCEPT ![b] = D], b, c, o, n)
<1> DEFINE C == [B EXCEPT ![b] = D]
<1>1. DOMAIN C = DOMAIN B /\ C[b] = D /\ \A d \in DOMAIN B : d # b => C[d] = B[d]
  OBVIOUS
<1> HIDE DEF C
<1>2. \A d \in DOMAIN B : Allocator(C[d])
  BY <1>1 DEF Reserved
<1>3. c \in DOMAIN C[b] /\ o \in Nat /\ o + n <= C[b][c].max_size
  BY <1>1 DEF Reserved
<1>4. ASSUME NEW d \in DOMAIN B, NEW e \in DOMAIN B[d]
      PROVE  e \in DOMAIN C[d] /\ B[d][e].max_size <= C[d][e].max_size
  <2>1. CASE d = b
    BY <1>1, <2>1 DEF Reserved
  <2>2. CASE d # b
    <3>1. B[d][e].max_size \in Nat /\ C[d] = B[d]
      BY <1>1, <2>2, ChunkTypes
    <3> QED  BY <3>1
  <2> QED  BY <2>1, <2>2
<1>5. ASSUME NEW d, NEW e, NEW x \in Nat
      PROVE  /\ FreeByte(C, d, e, x) => ~Within(d, e, x, b, c, o, n)
             /\ UsedByte(B, d, e, x) /\ FreeByte(C, d, e, x) => FreeByte(B, d, e, x)
             /\ UsedByte(B, d, e, x) /\ Within(d, e, x, b, c, o, n) => FreeByte(B, d, e, x)
             /\ UsedByte(C, d, e, x) => UsedByte(B, d, e, x) \/ Within(d, e, x, b, c, o, n)
             /\ FreeByte(B, d, e, x) => FreeByte(C, d, e, x) \/ Within(d, e, x, b, c, o, n)
  <2>1. CASE d = b
    <3>1. FreeByte(C, d, e, x) <=> e \in DOMAIN D /\ IsFree(D[e].free, x)
      BY <1>1, <2>1 DEF FreeByte
    <3>2. FreeByte(B, d, e, x) <=> e \in DOMAIN B[b] /\ IsFree(B[b][e].free, x)
      BY <1>1, <2>1 DEF FreeByte
    <3>3. UsedByte(C, d, e, x) <=> e \in DOMAIN D /\ x < D[e].max_size
      BY <1>1, <2>1 DEF UsedByte
    <3>4. UsedByte(B, d, e, x) <=> e \in DOMAIN B[b] /\ x < B[b][e].max_size
      BY <1>1, <2>1 DEF UsedByte
    <3>5. Within(d, e, x, b, c, o, n) <=> e = c /\ InBlock(x, o, n)
      BY <2>1 DEF Within
    <3> QED  BY <3>1, <3>2, <3>3, <3>4, <3>5 DEF Reserved
  <2>2. CASE d # b
    BY <1>1, <2>2 DEF FreeByte, UsedByte, Within
  <2> QED  BY <2>1, <2>2
<1> QED  BY <1>1, <1>2, <1>3, <1>4, <1>5 DEF Taken, C

\* The bytes of a tensor with an address have been used.
LEMMA OwnedUsed ==
    ASSUME NEW g, NEW B, NEW at, NEW t, Placed(g, B, at, t), Sized(g, t),
           \A d \in DOMAIN B : Allocator(B[d]),
           NEW b, NEW c, NEW x \in Nat, Owns(g, at, t, b, c, x)
    PROVE  UsedByte(B, b, c, x)
<1>1. /\ b = at[t].buffer /\ c = at[t].chunk /\ b \in DOMAIN B /\ c \in DOMAIN B[b]
      /\ at[t].offset \in Nat
  BY DEF Owns, Placed
<1>2. Aligned(AllocSize(g[t])) \in Nat
  BY AlignedType DEF Sized
<1>3. B[b][c].max_size \in Nat
  BY <1>1, ChunkTypes
<1>4. at[t].offset + Aligned(AllocSize(g[t])) <= B[b][c].max_size
  BY <1>1 DEF Placed
<1>5. x < at[t].offset + Aligned(AllocSize(g[t]))
  BY DEF Owns, InBlock
<1> QED  BY <1>1, <1>2, <1>3, <1>4, <1>5 DEF UsedByte

\* t gets the bytes that have been reserved.
LEMMA SharedTaken ==
    ASSUME NEW g, NEW B, NEW own, NEW at, Shared(g, B, own, at),
           \A u \in own : Sized(g, u),
           NEW t, t \notin own, Sized(g, t), NEW C, NEW new,
           \A u : u # t => new[u] = at[u],
           Taken(B, C, new[t].buffer, new[t].chunk, new[t].offset, Aligned(AllocSize(g[t])))
    PROVE  /\ Shared(g, C, own \cup {t}, new)
           /\ Placed(g, C, new, t)
           /\ \A u : u # t /\ Sized(g, u) /\ Placed(g, B, at, u) => Placed(g, C, new, u)
<1> DEFINE n == Aligned(AllocSize(g[t]))
           W(d, e, x) == Within(d, e, x, new[t].buffer, new[t].chunk, new[t].offset, n)
<1>1. /\ \A d \in DOMAIN B : Allocator(B[d])
      /\ \A u \in own : Placed(g, B, at, u)
      /\ \A u \in own : \A d, e : \A x \in Nat : Owns(g, at, u, d, e, x) => ~FreeByte(B, d, e, x)
      /\ \A u, v \in own : \A d, e : \A x \in Nat :
            Owns(g, at, u, d, e, x) /\ Owns(g, at, v, d, e, x) => u = v
      /\ \A d, e : \A x \in Nat : UsedByte(B, d, e, x) =>
            FreeByte(B, d, e, x) \/ \E u \in own : Owns(g, at, u, d, e, x)
  BY DEF Shared
<1>2. DOMAIN C = DOMAIN B /\ \A d \in DOMAIN C : Allocator(C[d])
  BY DEF Taken
<1>3. Placed(g, C, new, t)
  BY DEF Taken, Placed
<1>4. ASSUME NEW u, u # t, Sized(g, u), Placed(g, B, at, u)
      PROVE  Placed(g, C, new, u)
  <2>1. new[u] = at[u]
    BY <1>4
  <2>2. PICK d, e : d = at[u].buffer /\ e = at[u].chunk
    OBVIOUS
  <2>3. /\ d \in DOMAIN B /\ e \in DOMAIN B[d] /\ at[u].offset \in Nat
        /\ at[u].offset + Aligned(AllocSize(g[u])) <= B[d][e].max_size
    BY <1>4, <2>2 DEF Placed
  <2>4. e \in DOMAIN C[d] /\ B[d][e].max_size <= C[d][e].max_size
    BY <2>3 DEF Taken
  <2>5. B[d][e].max_size \in Nat /\ C[d][e].max_size \in Nat
    BY <1>1, <1>2, <2>3, <2>4, ChunkTypes
  <2>6. Aligned(AllocSize(g[u])) \in Nat
    BY <1>4, AlignedType DEF Sized
  <2>7. at[u].offset + Aligned(AllocSize(g[u])) <= C[d][e].max_size
    BY <2>3, <2>4, <2>5, <2>6
  <2> QED  BY <1>2, <2>1, <2>2, <2>3, <2>4, <2>7 DEF Placed
<1>5. \A d, e : \A x \in Nat :
         /\ FreeByte(C, d, e, x) => ~W(d, e, x)
         /\ UsedByte(B, d, e, x) /\ FreeByte(C, d, e, x) => FreeByte(B, d, e, x)
         /\ UsedByte(B, d, e, x) /\ W(d, e, x) => FreeByte(B, d, e, x)
         /\ UsedByte(C, d, e, x) => UsedByte(B, d, e, x) \/ W(d, e, x)
         /\ FreeByte(B, d, e, x) => FreeByte(C, d, e, x) \/ W(d, e, x)
  BY DEF Taken
<1>6. \A u \in own : \A d, e, x : Owns(g, new, u, d, e, x) <=> Owns(g, at, u, d, e, x)
  BY DEF Owns
<1>7. \A d, e, x : Owns(g, new, t, d, e, x) <=> W(d, e, x)
  BY DEF Owns, Within
<1>8. \A u \in own : \A d, e : \A x \in Nat : Owns(g, at, u, d, e, x) => UsedByte(B, d, e, x)
  BY <1>1, OwnedUsed
<1> HIDE DEF W, n
<1>9. \A u \in own \cup {t} : \A d, e : \A x \in Nat :
         Owns(g, new, u, d, e, x) => ~FreeByte(C, d, e, x)
  BY <1>1, <1>5, <1>6, <1>7, <1>8
<1>10. ASSUME NEW u \in own \cup {t}, NEW v \in own \cup {t}, NEW d, NEW e, NEW x \in Nat,
              Owns(g, new, u, d, e, x), Owns(g, new, v, d, e, x)
       PROVE  u = v
  <2>1. CASE u \in own /\ v \in own
    BY <1>1, <1>6, <1>10, <2>1
  <2>2. CASE u \in own /\ v = t
    BY <1>1, <1>5, <1>6, <1>7, <1>8, <1>10, <2>2
  <2>3. CASE u = t /\ v \in own
    BY <1>1, <1>5, <1>6, <1>7, <1>8, <1>10, <2>3
  <2> QED  BY <2>1, <2>2, <2>3
<1>11. ASSUME NEW d, NEW e, NEW x \in Nat, UsedByte(C, d, e, x)
       PROVE  FreeByte(C, d, e, x) \/ \E u \in own \cup {t} : Owns(g, new, u, d, e, x)
  <2>1. CASE W(d, e, x)
    BY <1>7, <2>1
  <2>2. CASE ~W(d, e, x)
    <3>1. UsedByte(B, d, e, x)
      BY <1>5, <1>11, <2>2
    <3>2. CASE FreeByte(B, d, e, x)
      BY <1>5, <2>2, <3>2
    <3>3. CASE ~FreeByte(B, d, e, x)
      <4>1. PICK u \in own : Owns(g, at, u, d, e, x)
        BY <1>1, <3>1, <3>3
      <4> QED  BY <1>6, <4>1
    <3> QED  BY <3>2, <3>3
  <2> QED  BY <2>1, <2>2
<1>12. \A u \in own \cup {t} : Placed(g, C, new, u)
  BY <1>1, <1>3, <1>4
<1> QED  BY <1>2, <1>3, <1>4, <1>9, <1>10, <1>11, <1>12 DEF Shared

\* The allocators B have become C, where n bytes are free again.
Given(B, C, b, c, o, n) ==
    /\ DOMAIN C = DOMAIN B /\ \A d \in DOMAIN B : Allocator(C[d])
    /\ \A d \in DOMAIN B : DOMAIN C[d] = DOMAIN B[d]
    /\ \A d \in DOMAIN B : \A e \in DOMAIN B[d] : C[d][e].max_size = B[d][e].max_size
    /\ \A d, e : \A x \in Nat :
          FreeByte(C, d, e, x) <=>
              FreeByte(B, d, e, x) \/ (c \in DOMAIN B[b] /\ Within(d, e, x, b, c, o, n))

LEMMA ReleasedGiven ==
    ASSUME NEW B, \A d \in DOMAIN B : Allocator(B[d]), NEW b \in DOMAIN B,
           NEW D, NEW c, NEW o, NEW n, c \in DOMAIN B[b], Released(B[b], D, c, o, n)
    PROVE  Given(B, [B EXCEPT ![b] = D], b, c, o, n)
<1> DEFINE C == [B EXCEPT ![b] = D]
<1>1. DOMAIN C = DOMAIN B /\ C[b] = D /\ \A d \in DOMAIN B : d # b => C[d] = B[d]
  OBVIOUS
<1> HIDE DEF C
<1>2. \A d \in DOMAIN B : Allocator(C[d]) /\ DOMAIN C[d] = DOMAIN B[d]
  BY <1>1 DEF Released
<1>3. \A d \in DOMAIN B : \A e \in DOMAIN B[d] : C[d][e].max_size = B[d][e].max_size
  BY <1>1 DEF Released
<1>4. ASSUME NEW d, NEW e, NEW x \in Nat
      PROVE  FreeByte(C, d, e, x) <=>
                 FreeByte(B, d, e, x) \/ (c \in DOMAIN B[b] /\ Within(d, e, x, b, c, o, n))
  <2>1. CASE d = b
    <3>1. FreeByte(C, d, e, x) <=> e \in DOMAIN D /\ IsFree(D[e].free, x)
      BY <1>1, <2>1 DEF FreeByte
    <3>2. FreeByte(B, d, e, x) <=> e \in DOMAIN B[b] /\ IsFree(B[b][e].free, x)
      BY <1>1, <2>1 DEF FreeByte
    <3>3. Within(d, e, x, b, c, o, n) <=> e = c /\ InBlock(x, o, n)
      BY <2>1 DEF Within
    <3> QED  BY <3>1, <3>2, <3>3 DEF Released
  <2>2. CASE d # b
    BY <1>1, <2>2 DEF FreeByte, Within
  <2> QED  BY <2>1, <2>2
<1> QED  BY <1>1, <1>2, <1>3, <1>4 DEF Given, C

LEMMA GivenUsed ==
    ASSUME NEW B, NEW C, NEW b, NEW c, NEW o, NEW n, Given(B, C, b, c, o, n)
    PROVE  /\ \A d, e, x : UsedByte(C, d, e, x) <=> UsedByte(B, d, e, x)
           /\ \A g, at, t : Placed(g, C, at, t) <=> Placed(g, B, at, t)
<1>1. \A d, e, x : UsedByte(C, d, e, x) <=> UsedByte(B, d, e, x)
  BY DEF Given, UsedByte
<1>2. \A g, at, t : Placed(g, C, at, t) <=> Placed(g, B, at, t)
  BY DEF Given, Placed
<1> QED  BY <1>1, <1>2

\* t gives its bytes back.
LEMMA SharedFreed ==
    ASSUME NEW g, NEW B, NEW own, NEW at, Shared(g, B, own, at), NEW t \in own, NEW C,
           Given(B, C, at[t].buffer, at[t].chunk, at[t].offset, Aligned(AllocSize(g[t])))
    PROVE  Shared(g, C, own \ {t}, at)
<1> DEFINE n == Aligned(AllocSize(g[t]))
           W(d, e, x) == Within(d, e, x, at[t].buffer, at[t].chunk, at[t].offset, n)
<1>1. /\ \A d \in DOMAIN B : Allocator(B[d])
      /\ \A u \in own : Placed(g, B, at, u)
      /\ \A u \in own : \A d, e : \A x \in Nat : Owns(g, at, u, d, e, x) => ~FreeByte(B, d, e, x)
      /\ \A u, v \in own : \A d, e : \A x \in Nat :
            Owns(g, at, u, d, e, x) /\ Owns(g, at, v, d, e, x) => u = v
      /\ \A d, e : \A x \in Nat : UsedByte(B, d, e, x) =>
            FreeByte(B, d, e, x) \/ \E u \in own : Owns(g, at, u, d, e, x)
  BY DEF Shared
<1>2. DOMAIN C = DOMAIN B /\ \A d \in DOMAIN C : Allocator(C[d])
  BY DEF Given
<1>3. \A d, e, x : Owns(g, at, t, d, e, x) <=> W(d, e, x)
  BY DEF Owns, Within
<1>4. at[t].chunk \in DOMAIN B[at[t].buffer]
  BY <1>1 DEF Placed
<1>5. \A d, e : \A x \in Nat : FreeByte(C, d, e, x) <=> FreeByte(B, d, e, x) \/ W(d, e, x)
  BY <1>4 DEF Given
<1>6. /\ \A d, e, x : UsedByte(C, d, e, x) <=> UsedByte(B, d, e, x)
      /\ \A u : Placed(g, C, at, u) <=> Placed(g, B, at, u)
  BY GivenUsed
<1> HIDE DEF W, n
<1>7. \A u \in own \ {t} : Placed(g, C, at, u)
  BY <1>1, <1>6
<1>8. \A u \in own \ {t} : \A d, e : \A x \in Nat :
         Owns(g, at, u, d, e, x) => ~FreeByte(C, d, e, x)
  BY <1>1, <1>3, <1>5
<1>9. \A d, e : \A x \in Nat : UsedByte(C, d, e, x) =>
         FreeByte(C, d, e, x) \/ \E u \in own \ {t} : Owns(g, at, u, d, e, x)
  BY <1>1, <1>3, <1>5, <1>6
<1> QED  BY <1>1, <1>2, <1>7, <1>8, <1>9 DEF Shared

\* t takes the place of p; what it does not need is free if it has been given back.
LEMMA SharedPlace ==
    ASSUME NEW g, NEW B, NEW own, NEW at, Shared(g, B, own, at), NEW p \in own,
           NEW t, t \notin own, NEW new, new[t] = at[p], \A u : u # t => new[u] = at[u],
           Sized(g, t), Sized(g, p), AllocSize(g[t]) <= AllocSize(g[p]), NEW C,
           LET kept == Aligned(AllocSize(g[t]))
               rest == Aligned(AllocSize(g[p])) - kept
           IN  \/ rest = 0 /\ C = B
               \/ Given(B, C, at[p].buffer, at[p].chunk, at[p].offset + kept, rest)
    PROVE  /\ Shared(g, C, (own \ {p}) \cup {t}, new)
           /\ Placed(g, C, new, t)
           /\ \A u : u # t /\ Placed(g, B, at, u) => Placed(g, C, new, u)
<1> DEFINE kept == Aligned(AllocSize(g[t]))
           rest == Aligned(AllocSize(g[p])) - kept
           W(d, e, x) == Within(d, e, x, at[p].buffer, at[p].chunk, at[p].offset + kept, rest)
<1>1. /\ \A d \in DOMAIN B : Allocator(B[d])
      /\ \A u \in own : Placed(g, B, at, u)
      /\ \A u \in own : \A d, e : \A x \in Nat : Owns(g, at, u, d, e, x) => ~FreeByte(B, d, e, x)
      /\ \A u, v \in own : \A d, e : \A x \in Nat :
            Owns(g, at, u, d, e, x) /\ Owns(g, at, v, d, e, x) => u = v
      /\ \A d, e : \A x \in Nat : UsedByte(B, d, e, x) =>
            FreeByte(B, d, e, x) \/ \E u \in own : Owns(g, at, u, d, e, x)
  BY DEF Shared
<1>2. /\ kept \in Nat /\ rest \in Nat /\ kept <= Aligned(AllocSize(g[p]))
      /\ Aligned(AllocSize(g[p])) = kept + rest
  <2>1. /\ AllocSize(g[t]) \in Nat /\ AllocSize(g[p]) \in Nat
    BY DEF Sized
  <2>2. /\ kept \in Nat /\ kept <= Aligned(AllocSize(g[p])) /\ Aligned(AllocSize(g[p])) \in Nat
        /\ rest \in Nat
    BY <2>1, AlignedRest, AlignedType
  <2> HIDE DEF kept
  <2> QED  BY <2>2
<1>3. /\ at[p].chunk \in DOMAIN B[at[p].buffer] /\ at[p].offset \in Nat
  BY <1>1 DEF Placed
<1> HIDE DEF kept, rest
<1>4. \A d, e : \A x \in Nat : Owns(g, new, t, d, e, x) \/ W(d, e, x) <=> Owns(g, at, p, d, e, x)
  BY <1>2, <1>3 DEF Owns, Within, InBlock, kept
<1>5. \A d, e : \A x \in Nat : ~(Owns(g, new, t, d, e, x) /\ W(d, e, x))
  BY <1>2, <1>3 DEF Owns, Within, InBlock, kept
<1>6. \A u \in own : \A d, e, x : Owns(g, new, u, d, e, x) <=> Owns(g, at, u, d, e, x)
  BY DEF Owns
<1>7. /\ DOMAIN C = DOMAIN B /\ \A d \in DOMAIN C : Allocator(C[d])
      /\ \A d, e : \A x \in Nat : FreeByte(C, d, e, x) <=> FreeByte(B, d, e, x) \/ W(d, e, x)
      /\ \A d, e, x : UsedByte(C, d, e, x) <=> UsedByte(B, d, e, x)
      /\ \A u : Placed(g, C, at, u) <=> Placed(g, B, at, u)
  <2>1. CASE rest = 0 /\ C = B
    <3>1. \A d, e : \A x \in Nat : ~W(d, e, x)
      BY <1>2, <1>3, <2>1 DEF Within, InBlock
    <3> QED  BY <1>1, <2>1, <3>1
  <2>2. CASE Given(B, C, at[p].buffer, at[p].chunk, at[p].offset + kept, rest)
    <3>1. /\ DOMAIN C = DOMAIN B /\ \A d \in DOMAIN C : Allocator(C[d])
          /\ \A d, e : \A x \in Nat : FreeByte(C, d, e, x) <=> FreeByte(B, d, e, x) \/ W(d, e, x)
      BY <1>3, <2>2 DEF Given
    <3>2. /\ \A d, e, x : UsedByte(C, d, e, x) <=> UsedByte(B, d, e, x)
          /\ \A u : Placed(g, C, at, u) <=> Placed(g, B, at, u)
      BY <2>2, GivenUsed
    <3> QED  BY <3>1, <3>2
  <2> QED  BY <2>1, <2>2 DEF kept, rest
<1> HIDE DEF W
<1>8. \A u : u # t /\ Placed(g, B, at, u) => Placed(g, C, new, u)
  <2> SUFFICES ASSUME NEW u, u # t, Placed(g, B, at, u)
               PROVE  Placed(g, C, new, u)
    OBVIOUS
  <2>1. new[u] = at[u] /\ Placed(g, C, at, u)
    BY <1>7
  <2> QED  BY <2>1 DEF Placed
<1>9. Placed(g, C, new, t)
  <2>1. Placed(g, C, at, p)
    BY <1>1, <1>7
  <2>2. PICK d, e : d = at[p].buffer /\ e = at[p].chunk
    OBVIOUS
  <2>3. /\ d \in DOMAIN C /\ e \in DOMAIN C[d] /\ at[p].offset \in Nat
        /\ at[p].offset + (kept + rest) <= C[d][e].max_size
    BY <1>2, <2>1, <2>2 DEF Placed
  <2>4. C[d][e].max_size \in Nat
    BY <1>7, <2>3, ChunkTypes
  <2>5. at[p].offset + kept <= C[d][e].max_size
    BY <1>2, <2>3, <2>4
  <2> QED  BY <2>2, <2>3, <2>5 DEF Placed, kept
<1>10. \A u \in (own \ {p}) \cup {t} : Placed(g, C, new, u)
  BY <1>1, <1>8, <1>9
<1>11. \A u \in (own \ {p}) \cup {t} : \A d, e : \A x \in Nat :
          Owns(g, new, u, d, e, x) => ~FreeByte(C, d, e, x)
  <2> SUFFICES ASSUME NEW u \in (own \ {p}) \cup {t}, NEW d, NEW e, NEW x \in Nat,
                      Owns(g, new, u, d, e, x)
               PROVE  ~FreeByte(C, d, e, x)
    OBVIOUS
  <2>1. CASE u = t
    BY <1>1, <1>4, <1>5, <1>7, <2>1
  <2>2. CASE u \in own \ {p}
    <3>1. Owns(g, at, u, d, e, x) /\ ~Owns(g, at, p, d, e, x)
      BY <1>1, <1>6, <2>2
    <3> QED  BY <1>1, <1>4, <1>7, <2>2, <3>1
  <2> QED  BY <2>1, <2>2
<1>12. ASSUME NEW u \in (own \ {p}) \cup {t}, NEW v \in (own \ {p}) \cup {t},
              NEW d, NEW e, NEW x \in Nat,
              Owns(g, new, u, d, e, x), Owns(g, new, v, d, e, x)
       PROVE  u = v
  <2>1. CASE u \in own \ {p} /\ v \in own \ {p}
    BY <1>1, <1>6, <1>12, <2>1
  <2>2. CASE u \in own \ {p} /\ v = t
    BY <1>1, <1>4, <1>6, <1>12, <2>2
  <2>3. CASE u = t /\ v \in own \ {p}
    BY <1>1, <1>4, <1>6, <1>12, <2>3
  <2> QED  BY <2>1, <2>2, <2>3
<1>13. ASSUME NEW d, NEW e, NEW x \in Nat, UsedByte(C, d, e, x)
       PROVE  FreeByte(C, d, e, x) \/ \E u \in (own \ {p}) \cup {t} : Owns(g, new, u, d, e, x)
  <2>1. CASE FreeByte(B, d, e, x)
    BY <1>7, <2>1
  <2>2. CASE ~FreeByte(B, d, e, x)
    <3>1. PICK u \in own : Owns(g, at, u, d, e, x)
      BY <1>1, <1>7, <1>13, <2>2
    <3>2. CASE u = p
      BY <1>4, <1>7, <3>1, <3>2
    <3>3. CASE u # p
      BY <1>6, <3>1, <3>3
    <3> QED  BY <3>2, <3>3
  <2> QED  BY <2>1, <2>2
<1> QED  BY <1>7, <1>8, <1>9, <1>10, <1>11, <1>12, <1>13 DEF Shared

-----------------------------------------------------------------------------
(* Graphs *)

LEMMA TensorTypes ==
    ASSUME NEW g, IsGraph(g), NEW t \in DOMAIN g
    PROVE  /\ t \in Nat \ {0} /\ t <= Len(g) /\ Len(g) \in Nat /\ DOMAIN g = 1 .. Len(g)
           /\ g[t].op \in {"none", "view", "inplace", "other"}
           /\ g[t].src \in Seq(Nat) /\ g[t].view_src \in Nat
           /\ g[t].nbytes \in Nat \ {0} /\ g[t].extra \in Nat /\ g[t].buffer \in Nat
           /\ AllocSize(g[t]) \in Nat \ {0} /\ g[t].nbytes <= AllocSize(g[t])
           /\ Aligned(AllocSize(g[t])) \in Nat /\ AllocSize(g[t]) <= Aligned(AllocSize(g[t]))
<1>1. g \in Seq(Tensors)
  BY DEF IsGraph
<1>2. /\ t \in Nat \ {0} /\ t <= Len(g) /\ Len(g) \in Nat /\ DOMAIN g = 1 .. Len(g)
      /\ g[t] \in Tensors
  BY <1>1
<1>3. /\ g[t].op \in {"none", "view", "inplace", "other"}
      /\ g[t].src \in Seq(Nat) /\ g[t].view_src \in Nat
      /\ g[t].nbytes \in Nat \ {0} /\ g[t].extra \in Nat /\ g[t].buffer \in Nat
  BY <1>2 DEF Tensors
<1>4. AllocSize(g[t]) \in Nat \ {0} /\ g[t].nbytes <= AllocSize(g[t])
  BY <1>3 DEF AllocSize
<1>5. Aligned(AllocSize(g[t])) \in Nat /\ AllocSize(g[t]) <= Aligned(AllocSize(g[t]))
  BY <1>4, AlignedType
<1> QED  BY <1>2, <1>3, <1>4, <1>5

\* The last chunk has room for the tensor.
LEMMA EndlessMeans ==
    ASSUME NEW g, IsGraph(g), NEW t \in DOMAIN g
    PROVE  Aligned(AllocSize(g[t])) <= Endless
<1>1. PICK l, s : l = Len(g) /\ s = Aligned(AllocSize(g[t]))
  OBVIOUS
<1>2. l \in Nat /\ l >= 1 /\ s \in Nat
  BY <1>1, TensorTypes
<1>3. l * s <= Endless
  BY <1>1 DEF IsGraph
<1>4. s <= l * s
  BY <1>2
<1>5. l * s \in Nat
  BY <1>2
<1> QED  BY <1>1, <1>2, <1>3, <1>4, <1>5, ChunkAssumption

\* Sources and what they are views of come before the node.
LEMMA SourceTypes ==
    ASSUME NEW g, IsGraph(g), NEW t \in DOMAIN g, NEW k \in DOMAIN g[t].src
    PROVE  /\ t \in Nodes(g)
           /\ g[t].src[k] \in 1 .. t - 1 /\ g[t].src[k] \in DOMAIN g /\ g[t].src[k] \in Nat
           /\ Holder(g, g[t].src[k]) \in 1 .. t - 1 /\ Holder(g, g[t].src[k]) \in DOMAIN g
           /\ ~IsView(g[Holder(g, g[t].src[k])])
<1> DEFINE p == g[t].src[k]
<1>1. p \in 1 .. t - 1
  BY DEF IsGraph
<1>2. t \in Nat /\ DOMAIN g = 1 .. Len(g) /\ t <= Len(g) /\ Len(g) \in Nat
  BY TensorTypes
<1>3. t \in Nodes(g)
  <2>1. g[t].src # <<>>
    OBVIOUS
  <2> QED  BY <2>1 DEF Nodes, Leafs, IsGraph
<1> HIDE DEF p
<1>4. p \in DOMAIN g /\ p \in Nat /\ p <= t - 1
  BY <1>1, <1>2
<1>5. CASE IsView(g[p])
  <2>1. Holder(g, p) = g[p].view_src
    BY <1>5 DEF Holder
  <2>2. g[p].view_src \in 1 .. p - 1 /\ ~IsView(g[g[p].view_src])
    BY <1>4, <1>5 DEF IsGraph
  <2>3. g[p].view_src \in 1 .. t - 1 /\ g[p].view_src \in DOMAIN g
    BY <1>2, <1>4, <2>2
  <2> QED  BY <1>1, <1>3, <1>4, <2>1, <2>2, <2>3 DEF p
<1>6. CASE ~IsView(g[p])
  <2>1. Holder(g, p) = p
    BY <1>6 DEF Holder
  <2> QED  BY <1>1, <1>3, <1>4, <1>6, <2>1 DEF p
<1> QED  BY <1>5, <1>6

LEMMA UseTypes ==
    ASSUME NEW g, IsGraph(g)
    PROVE  /\ \A u \in Uses(g) : /\ u = <<u[1], u[2]>> /\ u[1] \in Nodes(g) /\ u[1] \in DOMAIN g
                                 /\ u[2] \in DOMAIN g[u[1]].src /\ u[1] \in Nat /\ u[2] \in Nat
                                 /\ u[2] >= 1 /\ u[2] <= Len(g[u[1]].src)
           /\ \A t \in DOMAIN g : \A k \in DOMAIN g[t].src : <<t, k>> \in Uses(g)
<1>1. ASSUME NEW u \in Uses(g)
      PROVE  /\ u = <<u[1], u[2]>> /\ u[1] \in Nodes(g) /\ u[1] \in DOMAIN g
             /\ u[2] \in DOMAIN g[u[1]].src /\ u[1] \in Nat /\ u[2] \in Nat
             /\ u[2] >= 1 /\ u[2] <= Len(g[u[1]].src)
  <2>1. PICK n \in Nodes(g) : \E k \in DOMAIN g[n].src : u = <<n, k>>
    BY DEF Uses
  <2> PICK k \in DOMAIN g[n].src : u = <<n, k>>
    BY <2>1
  <2>2. n \in DOMAIN g /\ u = <<n, k>> /\ u[1] = n /\ u[2] = k
    BY <2>1 DEF Nodes
  <2>3. n \in Nat /\ g[n].src \in Seq(Nat)
    BY <2>2, TensorTypes
  <2>4. k \in 1 .. Len(g[n].src) /\ Len(g[n].src) \in Nat
    BY <2>3
  <2> QED  BY <2>1, <2>2, <2>3, <2>4
<1>2. ASSUME NEW t \in DOMAIN g, NEW k \in DOMAIN g[t].src
      PROVE  <<t, k>> \in Uses(g)
  <2>1. t \in Nodes(g)
    BY SourceTypes
  <2> QED  BY <2>1 DEF Uses
<1> QED  BY <1>1, <1>2

LEMMA NodesFinite ==
    ASSUME NEW g, IsGraph(g)
    PROVE  IsFiniteSet(Nodes(g))
<1>1. g \in Seq(Tensors)
  BY DEF IsGraph
<1>2. DOMAIN g = 1 .. Len(g) /\ Len(g) \in Int
  BY <1>1
<1>3. IsFiniteSet(DOMAIN g)
  BY <1>2, FS_Interval
<1> QED  BY <1>3, FS_Subset DEF Nodes

LEMMA UsesFinite ==
    ASSUME NEW g, IsGraph(g)
    PROVE  IsFiniteSet(Uses(g))
<1> DEFINE Of(n) == {<<n, k>> : k \in DOMAIN g[n].src}
           S == {Of(n) : n \in Nodes(g)}
<1>1. IsFiniteSet(Nodes(g))
  BY NodesFinite
<1>2. ASSUME NEW n \in Nodes(g)
      PROVE  IsFiniteSet(Of(n))
  <2> DEFINE D == DOMAIN g[n].src
             f == [k \in D |-> <<n, k>>]
  <2>1. g[n].src \in Seq(Nat)
    BY TensorTypes DEF Nodes
  <2>2. D = 1 .. Len(g[n].src) /\ Len(g[n].src) \in Int
    BY <2>1
  <2>3. IsFiniteSet(D)
    BY <2>2, FS_Interval
  <2> HIDE DEF D
  <2>4. f \in [D -> Of(n)] /\ \A e \in Of(n) : \E k \in D : f[k] = e
    BY DEF D
  <2>5. f \in Surjection(D, Of(n))
    BY <2>4 DEF Surjection
  <2> HIDE DEF f, Of
  <2> QED  BY <2>3, <2>5, FS_Surjection
<1> HIDE DEF Of
<1>3. IsFiniteSet(S)
  <2> DEFINE f == [n \in Nodes(g) |-> Of(n)]
  <2>1. f \in [Nodes(g) -> S] /\ \A e \in S : \E n \in Nodes(g) : f[n] = e
    OBVIOUS
  <2>2. f \in Surjection(Nodes(g), S)
    BY <2>1 DEF Surjection
  <2> HIDE DEF f, S
  <2> QED  BY <1>1, <2>2, FS_Surjection
<1>4. \A T \in S : IsFiniteSet(T)
  BY <1>2
<1>5. Uses(g) = UNION S
  BY DEF Uses, Of
<1> HIDE DEF S
<1> QED  BY <1>3, <1>4, <1>5, FS_UNION

\* What is needed after the node before n is needed after n or read by n.
LEMMA NeededNext ==
    ASSUME NEW g, IsGraph(g), NEW n \in DOMAIN g, NEW t
    PROVE  NeededAfter(g, t, n - 1) <=> NeededAfter(g, t, n) \/ ReadBy(g, t, n)
<1>1. n \in Nat /\ n >= 1 /\ n <= Len(g) /\ Len(g) \in Nat
  BY TensorTypes
<1>2. \A m : m \in n - 1 + 1 .. Len(g) <=> m = n \/ m \in n + 1 .. Len(g)
  BY <1>1
<1> QED  BY <1>2 DEF NeededAfter, ReadBy

LEMMA NeededUse ==
    ASSUME NEW g, IsGraph(g), NEW n \in Nat, NEW t, NeededAfter(g, t, n), ~g[t].output
    PROVE  \E u \in Uses(g) : u[1] > n /\ Holder(g, Source(g, u)) = t
<1>0. PICK m \in n + 1 .. Len(g) : \E k \in DOMAIN g[m].src : Holder(g, g[m].src[k]) = t
  BY DEF NeededAfter
<1>1. PICK k \in DOMAIN g[m].src : Holder(g, g[m].src[k]) = t
  BY <1>0
<1>2. g \in Seq(Tensors)
  BY DEF IsGraph
<1>3. DOMAIN g = 1 .. Len(g) /\ Len(g) \in Nat
  BY <1>2
<1>4. m \in DOMAIN g /\ m > n
  BY <1>1, <1>3
<1>5. <<m, k>> \in Uses(g)
  BY <1>1, <1>4, UseTypes
<1>6. <<m, k>>[1] = m /\ <<m, k>>[2] = k
  OBVIOUS
<1> QED  BY <1>1, <1>4, <1>5, <1>6 DEF Source

\* A tensor that is no output, whose own uses and the uses of whose views are all
\* over at n, is not needed after n.
LEMMA Unneeded ==
    ASSUME IsGraph(graph), NEW n \in Nat, NEW U, NEW t, ~graph[t].output,
           \A u \in Uses(graph) : u[1] > n => u \in U,
           \A u \in UsesOf(graph, U, t) : ~(u[1] > n),
           OpenViews(graph, U, t) = {}
    PROVE  ~NeededAfter(graph, t, n)
<1> SUFFICES ASSUME NeededAfter(graph, t, n)
             PROVE  FALSE
  OBVIOUS
<1>1. PICK u \in Uses(graph) : u[1] > n /\ Holder(graph, Source(graph, u)) = t
  BY NeededUse
<1>2. u \in U
  BY <1>1
<1> DEFINE p == Source(graph, u)
<1>3. CASE ~IsView(graph[p])
  <2>1. p = t
    BY <1>1, <1>3 DEF Holder
  <2> QED  BY <1>1, <1>2, <2>1 DEF UsesOf
<1>4. CASE IsView(graph[p])
  <2>1. graph[p].view_src = t
    BY <1>1, <1>4 DEF Holder
  <2>2. p \in DOMAIN graph
    BY UseTypes, SourceTypes DEF Source
  <2>3. p \in Nodes(graph)
    BY <1>4, <2>2 DEF Nodes, Leafs, IsGraph
  <2>4. u \in UsesOf(graph, U, p)
    BY <1>2 DEF UsesOf
  <2> HIDE DEF p
  <2> QED  BY <2>1, <2>3, <2>4 DEF OpenViews
<1> QED  BY <1>3, <1>4

\* Only the addresses up to n matter.
LEMMA SparesSame ==
    ASSUME NEW g, NEW at, NEW new, NEW n \in Nat, n >= 1,
           \A t \in 1 .. n : new[t] = at[t], Spares(g, at, n)
    PROVE  Spares(g, new, n)
<1>1. n \in 1 .. n /\ \A t \in 1 .. n - 1 : t \in 1 .. n
  OBVIOUS
<1>2. new[n] = at[n] /\ \A t \in 1 .. n - 1 : new[t] = at[t]
  BY <1>1
<1> QED  BY <1>2 DEF Spares

\* Bytes that overlap are reserved for both tensors.
LEMMA OverlapOwned ==
    ASSUME NEW g, NEW at, NEW t, NEW u, NEW B, NEW s,
           Sized(g, t), Sized(g, u), Placed(g, B, at, t), at[u].offset \in Nat,
           s \in Nat, s <= Aligned(AllocSize(g[u])),
           Overlap(at[t], AllocSize(g[t]), at[u], s)
    PROVE  \E b, c : \E x \in Nat : Owns(g, at, t, b, c, x) /\ Owns(g, at, u, b, c, x)
<1>1. PICK b, c : b = at[t].buffer /\ c = at[t].chunk
  OBVIOUS
<1>2. /\ at[u].buffer = b /\ at[u].chunk = c
      /\ Bytes(at[t].offset, AllocSize(g[t])) \cap Bytes(at[u].offset, s) # {}
  BY <1>1 DEF Overlap
<1>3. PICK x \in Bytes(at[t].offset, AllocSize(g[t])) : x \in Bytes(at[u].offset, s)
  BY <1>2
<1>4. /\ AllocSize(g[t]) \in Nat /\ AllocSize(g[t]) <= Aligned(AllocSize(g[t]))
      /\ Aligned(AllocSize(g[t])) \in Nat
      /\ Aligned(AllocSize(g[u])) \in Nat
  BY AlignedType DEF Sized
<1>5. at[t].offset \in Nat
  BY DEF Placed
<1>6. x \in Nat /\ at[t].offset <= x /\ x < at[t].offset + AllocSize(g[t])
      /\ at[u].offset <= x /\ x < at[u].offset + s
  BY <1>3, <1>4, <1>5 DEF Bytes
<1>7. InBlock(x, at[t].offset, Aligned(AllocSize(g[t])))
  BY <1>4, <1>5, <1>6 DEF InBlock
<1>8. InBlock(x, at[u].offset, Aligned(AllocSize(g[u])))
  BY <1>4, <1>6 DEF InBlock
<1> QED  BY <1>1, <1>2, <1>6, <1>7, <1>8 DEF Owns

-----------------------------------------------------------------------------
(* Memory *)

\* The parts of Memory that do not depend on who owns what after n.
LEMMA MemoryParts ==
    ASSUME NEW g, NEW n, NEW B, NEW own, NEW at, Memory(g, n, B, own, at)
    PROVE  /\ \A t \in own : t \in 1 .. n /\ NeedsMemory(g, t)
           /\ Shared(g, B, own, at) /\ \A d \in DOMAIN B : Allocator(B[d])
           /\ \A t \in 1 .. n : NeedsMemory(g, t) /\ NeededAfter(g, t, n) => t \in own
           /\ DOMAIN at = DOMAIN g
           /\ \A t \in DOMAIN g : t <= n /\ NeedsMemory(g, t) => Placed(g, B, at, t)
           /\ \A t \in DOMAIN g : ~(t <= n /\ NeedsMemory(g, t)) => at[t] = Invalid
           /\ \A m \in Nodes(g) : m <= n /\ ~IsView(g[m]) => Spares(g, at, m)
BY DEF Memory, Shared

\* The tensor n needs no memory of its own.
LEMMA MemoryKept ==
    ASSUME NEW g, IsGraph(g), NEW n \in DOMAIN g, NEW B, -1 \notin DOMAIN B, NEW own, NEW at,
           Memory(g, n - 1, B, own, at), ~NeedsMemory(g, n)
    PROVE  Memory(g, n, B, own, at)
<1>1. n \in Nat /\ n >= 1 /\ DOMAIN g = 1 .. Len(g) /\ Len(g) \in Nat /\ n <= Len(g)
  BY TensorTypes
<1>2. \A t \in DOMAIN g : t <= n <=> t <= n - 1 \/ t = n
  BY <1>1
<1>3. own \subseteq {t \in 1 .. n : NeedsMemory(g, t)}
  BY <1>1, MemoryParts
<1>4. ASSUME NEW t \in 1 .. n, NeedsMemory(g, t), NeededAfter(g, t, n)
      PROVE  t \in own
  <2>1. t \in 1 .. n - 1
    BY <1>1, <1>4
  <2>2. NeededAfter(g, t, n - 1)
    BY <1>4, NeededNext
  <2> QED  BY <1>4, <2>1, <2>2, MemoryParts
<1>5. ASSUME NEW t \in DOMAIN g
      PROVE  IF t <= n /\ NeedsMemory(g, t) THEN Placed(g, B, at, t) ELSE at[t] = Invalid
  BY <1>2, MemoryParts
<1>6. ASSUME NEW m \in Nodes(g), m <= n, ~IsView(g[m])
      PROVE  Spares(g, at, m)
  <2>1. m \in DOMAIN g
    BY DEF Nodes
  <2>2. CASE m <= n - 1
    BY <1>6, <2>2, MemoryParts
  <2>3. CASE m = n
    <3>1. at[n] = Invalid
      BY <1>1, MemoryParts
    <3>2. at[n].buffer = -1
      BY <3>1 DEF Invalid
    <3>3. ASSUME NEW t \in 1 .. n - 1, NeedsMemory(g, t)
          PROVE  at[t].buffer # -1
      <4>1. t \in DOMAIN g /\ t <= n - 1
        BY <1>1
      <4>2. Placed(g, B, at, t)
        BY <3>3, <4>1, MemoryParts
      <4> QED  BY <4>2 DEF Placed
    <3> QED  BY <2>3, <3>2, <3>3 DEF Spares, Overlap
  <2> QED  BY <1>2, <1>6, <2>1, <2>2, <2>3
<1> QED  BY <1>3, <1>4, <1>5, <1>6, MemoryParts DEF Memory

\* Reserved bytes and the place of another tensor: what both cases have in common.
LEMMA MemoryMore ==
    ASSUME NEW g, IsGraph(g), NEW n \in DOMAIN g, NEW B, NEW own, NEW at,
           Memory(g, n - 1, B, own, at), NeedsMemory(g, n),
           NEW C, NEW new, DOMAIN new = DOMAIN at, \A u : u # n => new[u] = at[u],
           NEW Own, Own \subseteq own \cup {n}, n \in Own,
           \A t \in own : NeededAfter(g, t, n) => t \in Own,
           Shared(g, C, Own, new), Placed(g, C, new, n),
           \A u : u # n /\ Sized(g, u) /\ Placed(g, B, at, u) => Placed(g, C, new, u),
           Spares(g, new, n)
    PROVE  Memory(g, n, C, Own, new)
<1>1. n \in Nat /\ n >= 1 /\ DOMAIN g = 1 .. Len(g) /\ Len(g) \in Nat /\ n <= Len(g)
  BY TensorTypes
<1>2. \A t \in DOMAIN g : t <= n <=> t <= n - 1 \/ t = n
  BY <1>1
<1>3. Own \subseteq {t \in 1 .. n : NeedsMemory(g, t)}
  BY <1>1, MemoryParts
<1>4. ASSUME NEW t \in 1 .. n, NeedsMemory(g, t), NeededAfter(g, t, n)
      PROVE  t \in Own
  <2>1. CASE t = n
    BY <2>1
  <2>2. CASE t # n
    <3>1. t \in 1 .. n - 1
      BY <1>1, <2>2
    <3>2. NeededAfter(g, t, n - 1)
      BY <1>4, NeededNext
    <3> QED  BY <1>4, <3>1, <3>2, MemoryParts
  <2> QED  BY <2>1, <2>2
<1>5. ASSUME NEW t \in DOMAIN g
      PROVE  IF t <= n /\ NeedsMemory(g, t) THEN Placed(g, C, new, t) ELSE new[t] = Invalid
  <2>1. CASE t = n
    BY <1>1, <2>1
  <2>2. CASE t # n
    <3>1. Sized(g, t)
      BY TensorTypes DEF Sized
    <3> QED  BY <1>2, <2>2, <3>1, MemoryParts
  <2> QED  BY <2>1, <2>2
<1>6. ASSUME NEW m \in Nodes(g), m <= n, ~IsView(g[m])
      PROVE  Spares(g, new, m)
  <2>1. m \in DOMAIN g /\ m \in Nat /\ m >= 1
    BY <1>1 DEF Nodes
  <2>2. CASE m <= n - 1
    <3>1. Spares(g, at, m)
      BY <1>6, <2>2, MemoryParts
    <3>2. \A t \in 1 .. m : new[t] = at[t]
      BY <1>1, <2>1, <2>2
    <3> QED  BY <2>1, <3>1, <3>2, SparesSame
  <2>3. CASE m = n
    BY <2>3
  <2> QED  BY <1>2, <1>6, <2>1, <2>2, <2>3
<1>7. DOMAIN new = DOMAIN g
  BY MemoryParts
<1> QED  BY <1>3, <1>4, <1>5, <1>6, <1>7 DEF Memory

\* The tensor n gets bytes that were free.
LEMMA MemoryTaken ==
    ASSUME NEW g, IsGraph(g), NEW n \in DOMAIN g, NEW B, NEW own, NEW at,
           Memory(g, n - 1, B, own, at), NeedsMemory(g, n),
           NEW C, NEW new, DOMAIN new = DOMAIN at, \A u : u # n => new[u] = at[u],
           Taken(B, C, new[n].buffer, new[n].chunk, new[n].offset, Aligned(AllocSize(g[n])))
    PROVE  Memory(g, n, C, own \cup {n}, new)
<1>1. n \in Nat /\ n >= 1 /\ DOMAIN g = 1 .. Len(g) /\ Len(g) \in Nat /\ n <= Len(g)
  BY TensorTypes
<1>2. \A t \in DOMAIN g : Sized(g, t)
  BY TensorTypes DEF Sized
<1>3. n \notin own /\ own \subseteq 1 .. n - 1 /\ own \subseteq DOMAIN g
  BY <1>1, MemoryParts
<1>4. Shared(g, B, own, at)
  BY MemoryParts
<1>5. /\ Shared(g, C, own \cup {n}, new)
      /\ Placed(g, C, new, n)
      /\ \A u : u # n /\ Sized(g, u) /\ Placed(g, B, at, u) => Placed(g, C, new, u)
  BY <1>2, <1>3, <1>4, SharedTaken
<1>6. Spares(g, new, n)
  <2> SUFFICES ASSUME NEW t \in 1 .. n - 1, NeedsMemory(g, t),
                      Overlap(new[t], AllocSize(g[t]), new[n], AllocSize(g[n])),
                      NeededAfter(g, t, n) \/ ReadBy(g, t, n)
               PROVE  FALSE
    BY DEF Spares
  <2>1. t \in own
    <3>1. NeededAfter(g, t, n - 1)
      BY NeededNext
    <3> QED  BY <3>1, MemoryParts
  <2>2. t # n /\ t \in DOMAIN g
    BY <1>1
  <2>3. Placed(g, C, new, t) /\ new[n].offset \in Nat
    BY <1>5, <2>1 DEF Shared, Placed
  <2>4. AllocSize(g[n]) \in Nat /\ AllocSize(g[n]) <= Aligned(AllocSize(g[n]))
    BY TensorTypes
  <2>5. \E b, c : \E x \in Nat : Owns(g, new, t, b, c, x) /\ Owns(g, new, n, b, c, x)
    BY <1>2, <2>2, <2>3, <2>4, OverlapOwned
  <2>6. t \in own \cup {n} /\ n \in own \cup {n}
    BY <2>1
  <2>7. \A u, v \in own \cup {n} : \A b, c : \A x \in Nat :
           Owns(g, new, u, b, c, x) /\ Owns(g, new, v, b, c, x) => u = v
    BY <1>5 DEF Shared
  <2> QED  BY <2>2, <2>5, <2>6, <2>7
<1> QED  BY <1>5, <1>6, MemoryMore

\* The tensor n takes the place of its source p, which is not needed any more.
LEMMA MemoryPlace ==
    ASSUME NEW g, IsGraph(g), NEW n \in DOMAIN g, NEW B, NEW own, NEW at,
           Memory(g, n - 1, B, own, at), NeedsMemory(g, n), NEW p \in own,
           ~NeededAfter(g, p, n), g[n].op = "inplace", g[n].nbytes = g[p].nbytes,
           AllocSize(g[n]) <= AllocSize(g[p]),
           NEW new, DOMAIN new = DOMAIN at, new[n] = at[p], \A u : u # n => new[u] = at[u],
           NEW C,
           LET kept == Aligned(AllocSize(g[n]))
               rest == Aligned(AllocSize(g[p])) - kept
           IN  \/ rest = 0 /\ C = B
               \/ Given(B, C, at[p].buffer, at[p].chunk, at[p].offset + kept, rest)
    PROVE  Memory(g, n, C, (own \ {p}) \cup {n}, new)
<1>1. n \in Nat /\ n >= 1 /\ DOMAIN g = 1 .. Len(g) /\ Len(g) \in Nat /\ n <= Len(g)
  BY TensorTypes
<1>2. \A t \in DOMAIN g : Sized(g, t)
  BY TensorTypes DEF Sized
<1>3. n \notin own /\ own \subseteq 1 .. n - 1 /\ own \subseteq DOMAIN g
  BY <1>1, MemoryParts
<1>4. Shared(g, B, own, at)
  BY MemoryParts
<1>5. Sized(g, n) /\ Sized(g, p)
  BY <1>2, <1>3
<1>6. /\ Shared(g, C, (own \ {p}) \cup {n}, new)
      /\ Placed(g, C, new, n)
      /\ \A u : u # n /\ Placed(g, B, at, u) => Placed(g, C, new, u)
  BY <1>3, <1>4, <1>5, SharedPlace
<1>7. Spares(g, new, n)
  <2> SUFFICES ASSUME NEW t \in 1 .. n - 1, NeedsMemory(g, t),
                      Overlap(new[t], AllocSize(g[t]), new[n], AllocSize(g[n]))
               PROVE  /\ ~NeededAfter(g, t, n)
                      /\ ReadBy(g, t, n) => /\ g[n].op = "inplace"
                                            /\ new[t] = new[n]
                                            /\ g[t].nbytes = g[n].nbytes
    BY DEF Spares
  <2>1. t # n /\ t \in DOMAIN g
    BY <1>1
  <2>2. CASE t = p
    BY <2>1, <2>2
  <2>3. CASE t # p
    <3> SUFFICES ASSUME NeededAfter(g, t, n) \/ ReadBy(g, t, n)
                 PROVE  FALSE
      OBVIOUS
    <3>1. t \in own
      <4>1. NeededAfter(g, t, n - 1)
        BY NeededNext
      <4> QED  BY <4>1, MemoryParts
    <3>2. Placed(g, B, at, t) /\ Placed(g, B, at, p)
      BY <1>4, <3>1 DEF Shared
    <3>3. Overlap(at[t], AllocSize(g[t]), at[p], AllocSize(g[n]))
      BY <2>1
    <3>4. AllocSize(g[n]) \in Nat /\ AllocSize(g[n]) <= Aligned(AllocSize(g[p]))
      <4>1. /\ AllocSize(g[n]) \in Nat /\ AllocSize(g[p]) \in Nat
            /\ Aligned(AllocSize(g[p])) \in Nat /\ AllocSize(g[p]) <= Aligned(AllocSize(g[p]))
        BY <1>5, AlignedType DEF Sized
      <4> QED  BY <4>1
    <3>5. at[p].offset \in Nat /\ Sized(g, t)
      BY <1>2, <2>1, <3>2 DEF Placed
    <3>6. \E b, c : \E x \in Nat : Owns(g, at, t, b, c, x) /\ Owns(g, at, p, b, c, x)
      BY <1>5, <3>2, <3>3, <3>4, <3>5, OverlapOwned
    <3>7. \A u, v \in own : \A b, c : \A x \in Nat :
             Owns(g, at, u, b, c, x) /\ Owns(g, at, v, b, c, x) => u = v
      BY <1>4 DEF Shared
    <3> QED  BY <2>3, <3>1, <3>6, <3>7
  <2> QED  BY <2>2, <2>3
<1>8. (own \ {p}) \cup {n} \subseteq own \cup {n} /\ n \in (own \ {p}) \cup {n}
      /\ \A t \in own : NeededAfter(g, t, n) => t \in (own \ {p}) \cup {n}
  OBVIOUS
<1>9. \A u : u # n /\ Sized(g, u) /\ Placed(g, B, at, u) => Placed(g, C, new, u)
  BY <1>6
<1> QED  BY <1>6, <1>7, <1>8, <1>9, MemoryMore

\* A tensor that is not needed gives its bytes back.
LEMMA MemoryFreed ==
    ASSUME NEW g, NEW n, NEW B, NEW own, NEW at, Memory(g, n, B, own, at), NEW t \in own,
           ~NeededAfter(g, t, n), NEW C,
           Given(B, C, at[t].buffer, at[t].chunk, at[t].offset, Aligned(AllocSize(g[t])))
    PROVE  Memory(g, n, C, own \ {t}, at)
<1>1. Shared(g, C, own \ {t}, at)
  BY SharedFreed, MemoryParts
<1>2. \A u : Placed(g, C, at, u) <=> Placed(g, B, at, u)
  BY GivenUsed
<1> QED  BY <1>1, <1>2 DEF Memory

-----------------------------------------------------------------------------
(* The counters *)

LEMMA CountTypes ==
    ASSUME IsGraph(graph), NEW U \in SUBSET Uses(graph), NEW t
    PROVE  /\ IsFiniteSet(UsesOf(graph, U, t)) /\ Cardinality(UsesOf(graph, U, t)) \in Nat
           /\ Cardinality(UsesOf(graph, U, t)) = 0 <=> UsesOf(graph, U, t) = {}
           /\ IsFiniteSet(OpenViews(graph, U, t)) /\ Cardinality(OpenViews(graph, U, t)) \in Nat
           /\ Cardinality(OpenViews(graph, U, t)) = 0 <=> OpenViews(graph, U, t) = {}
<1>1. IsFiniteSet(UsesOf(graph, U, t))
  <2>1. IsFiniteSet(Uses(graph)) /\ UsesOf(graph, U, t) \subseteq Uses(graph)
    BY UsesFinite DEF UsesOf
  <2> QED  BY <2>1, FS_Subset
<1>2. IsFiniteSet(OpenViews(graph, U, t))
  <2>1. IsFiniteSet(Nodes(graph)) /\ OpenViews(graph, U, t) \subseteq Nodes(graph)
    BY NodesFinite DEF OpenViews
  <2> QED  BY <2>1, FS_Subset
<1> QED  BY <1>1, <1>2, FS_CardinalityType, FS_EmptySet

\* A tensor with no use left and no view that is counted is not needed.
LEMMA UncountedUnneeded ==
    ASSUME IsGraph(graph), NEW U \in SUBSET Uses(graph), NEW children, NEW views,
           Counts(graph, U, children, views), NEW n \in Nat,
           \A u \in Uses(graph) : u[1] > n => u \in U,
           NEW t \in DOMAIN graph, ~graph[t].output, children[t] = 0, views[t] = 0
    PROVE  ~NeededAfter(graph, t, n)
<1>1. UsesOf(graph, U, t) = {} /\ OpenViews(graph, U, t) = {}
  BY CountTypes DEF Counts
<1>2. \A u \in UsesOf(graph, U, t) : ~(u[1] > n)
  BY <1>1
<1> QED  BY <1>1, <1>2, Unneeded

\* The last use of a tensor.
LEMMA LastUse ==
    ASSUME IsGraph(graph), NEW U \in SUBSET Uses(graph), NEW children, NEW views,
           Counts(graph, U, children, views), NEW u \in U, NEW t \in DOMAIN graph,
           Source(graph, u) = t, children[t] = 1
    PROVE  UsesOf(graph, U, t) = {u}
<1>1. u \in UsesOf(graph, U, t)
  BY DEF UsesOf
<1>2. IsFiniteSet(UsesOf(graph, U, t)) /\ Cardinality(UsesOf(graph, U, t)) = 1
  BY CountTypes DEF Counts
<1>3. PICK e : UsesOf(graph, U, t) = {e}
  BY <1>2, FS_Singleton
<1> QED  BY <1>1, <1>3

\* What a use less makes of the counters.
OneUseLess(p, children, views, children2, views2) ==
    LET v == graph[p].view_src
    IN  /\ children2 = [children EXCEPT ![p] = @ - 1]
        /\ views2 = IF children[p] = 1 /\ views[p] = 0 /\ v # 0
                    THEN [views EXCEPT ![v] = @ - 1] ELSE views

LEMMA UsesLess ==
    ASSUME NEW U \in SUBSET Uses(graph), NEW u \in U
    PROVE  /\ UsesOf(graph, U \ {u}, Source(graph, u)) = UsesOf(graph, U, Source(graph, u)) \ {u}
           /\ u \in UsesOf(graph, U, Source(graph, u))
           /\ \A t : t # Source(graph, u) => UsesOf(graph, U \ {u}, t) = UsesOf(graph, U, t)
BY DEF UsesOf

LEMMA CountsLess ==
    ASSUME IsGraph(graph), NEW U \in SUBSET Uses(graph), NEW children, NEW views,
           Counts(graph, U, children, views), NEW u \in U, NEW children2, NEW views2,
           OneUseLess(Source(graph, u), children, views, children2, views2)
    PROVE  Counts(graph, U \ {u}, children2, views2)
<1> DEFINE p == Source(graph, u)
           v == graph[p].view_src
           P == U \ {u}
<1>1. p \in DOMAIN graph /\ p \in Nat /\ u \in Uses(graph)
  BY UseTypes, SourceTypes DEF Source
<1>2. /\ UsesOf(graph, P, p) = UsesOf(graph, U, p) \ {u} /\ u \in UsesOf(graph, U, p)
      /\ \A t : t # p => UsesOf(graph, P, t) = UsesOf(graph, U, t)
  BY UsesLess
<1> HIDE DEF P
<1>3. P \in SUBSET Uses(graph)
  BY DEF P
<1>4. children2 = [children EXCEPT ![p] = @ - 1]
      /\ views2 = IF children[p] = 1 /\ views[p] = 0 /\ v # 0
                  THEN [views EXCEPT ![v] = @ - 1] ELSE views
  BY DEF OneUseLess
<1>5. /\ DOMAIN children = DOMAIN graph /\ DOMAIN views = DOMAIN graph
      /\ \A t \in DOMAIN graph : /\ children[t] = Cardinality(UsesOf(graph, U, t))
                                 /\ views[t] = Cardinality(OpenViews(graph, U, t))
  BY DEF Counts
<1> HIDE DEF p, v
<1>6. \A t \in DOMAIN graph : children2[t] = Cardinality(UsesOf(graph, P, t))
  <2> SUFFICES ASSUME NEW t \in DOMAIN graph
               PROVE  children2[t] = Cardinality(UsesOf(graph, P, t))
    OBVIOUS
  <2>1. CASE t = p
    <3>1. Cardinality(UsesOf(graph, P, p)) = Cardinality(UsesOf(graph, U, p)) - 1
      <4>1. IsFiniteSet(UsesOf(graph, U, p))
        BY CountTypes
      <4>2. PICK S : S = UsesOf(graph, U, p)
        OBVIOUS
      <4>3. Cardinality(S \ {u}) = Cardinality(S) - 1
        BY <1>2, <4>1, <4>2, FS_RemoveElement
      <4> QED  BY <1>2, <4>2, <4>3
    <3> QED  BY <1>1, <1>4, <1>5, <2>1, <3>1
  <2>2. CASE t # p
    BY <1>2, <1>4, <1>5, <2>2
  <2> QED  BY <2>1, <2>2
<1>7. \A n : n # p => UsesOf(graph, P, n) = UsesOf(graph, U, n)
  BY <1>2
<1>8. CASE children[p] = 1 /\ views[p] = 0 /\ v # 0
  <2>1. IsView(graph[p]) /\ v \in DOMAIN graph /\ p \in Nodes(graph)
    <3>1. IsView(graph[p])
      BY <1>8 DEF IsView, v
    <3>2. v \in 1 .. p - 1
      BY <1>1, <3>1 DEF IsGraph, v
    <3>3. DOMAIN graph = 1 .. Len(graph) /\ Len(graph) \in Nat /\ p <= Len(graph)
      BY <1>1, TensorTypes
    <3>4. p \in Nodes(graph)
      BY <1>1, <3>1 DEF Nodes, Leafs, IsGraph
    <3> QED  BY <1>1, <3>1, <3>2, <3>3, <3>4
  <2>2. UsesOf(graph, U, p) = {u} /\ UsesOf(graph, P, p) = {}
    <3>1. UsesOf(graph, U, p) = {u}
      BY <1>1, <1>8, LastUse DEF p
    <3> QED  BY <1>2, <3>1
  <2>3. UsesOf(graph, Uses(graph), p) # {}
    BY <1>1 DEF UsesOf, p
  <2>4. OpenViews(graph, P, v) = OpenViews(graph, U, v) \ {p} /\ p \in OpenViews(graph, U, v)
    BY <1>7, <2>1, <2>2, <2>3 DEF OpenViews, v
  <2>5. \A t : t # v => OpenViews(graph, P, t) = OpenViews(graph, U, t)
    BY <1>7 DEF OpenViews, v
  <2>6. Cardinality(OpenViews(graph, P, v)) = Cardinality(OpenViews(graph, U, v)) - 1
    <3>1. IsFiniteSet(OpenViews(graph, U, v))
      BY CountTypes
    <3>2. PICK S : S = OpenViews(graph, U, v)
      OBVIOUS
    <3>3. Cardinality(S \ {p}) = Cardinality(S) - 1
      BY <2>4, <3>1, <3>2, FS_RemoveElement
    <3> QED  BY <2>4, <3>2, <3>3
  <2>7. views2 = [views EXCEPT ![v] = @ - 1]
    BY <1>4, <1>8
  <2>8. \A t \in DOMAIN graph : views2[t] = Cardinality(OpenViews(graph, P, t))
    BY <1>5, <2>1, <2>5, <2>6, <2>7
  <2> QED  BY <1>4, <1>5, <1>6, <2>7, <2>8 DEF Counts, P
<1>9. CASE ~(children[p] = 1 /\ views[p] = 0 /\ v # 0)
  <2>1. ASSUME NEW t \in DOMAIN graph
        PROVE  OpenViews(graph, P, t) = OpenViews(graph, U, t)
    <3>1. CASE v # t
      BY <1>7, <3>1 DEF OpenViews, v
    <3>2. CASE v = t
      <4>1. v # 0 /\ IsView(graph[p])
        <5>1. t # 0
          BY TensorTypes
        <5> QED  BY <3>2, <5>1 DEF IsView, v
      <4>2. OpenViews(graph, U, p) = {}
        <5> SUFFICES ASSUME NEW n \in Nodes(graph), graph[n].view_src = p
                     PROVE  FALSE
          BY DEF OpenViews
        <5>1. n \in DOMAIN graph /\ p # 0
          BY <1>1, TensorTypes DEF Nodes
        <5>2. IsView(graph[n])
          BY <5>1 DEF IsView
        <5> QED  BY <4>1, <5>1, <5>2 DEF IsGraph
      <4>3. views[p] = 0
        BY <1>1, <1>5, <4>2, FS_EmptySet
      <4>4. children[p] # 1
        BY <1>9, <4>1, <4>3
      <4>5. UsesOf(graph, U, p) # {u}
        BY <1>1, <1>5, <4>4, FS_Singleton
      <4>6. UsesOf(graph, P, p) # {} /\ UsesOf(graph, U, p) # {}
        BY <1>2, <4>5
      <4> QED  BY <1>7, <4>6 DEF OpenViews
    <3> QED  BY <3>1, <3>2
  <2>2. views2 = views
    BY <1>4, <1>9
  <2> QED  BY <1>4, <1>5, <1>6, <2>1, <2>2 DEF Counts, P
<1> QED  BY <1>8, <1>9

-----------------------------------------------------------------------------
(* ggml_gallocr_allocate_node and ggml_gallocr_free_node *)

\* A tensor gives back its last bytes, or all of them.
LEMMA GiveBack ==
    ASSUME NEW g, NEW B, NEW own, NEW at, Shared(g, B, own, at), NEW t \in own, Sized(g, t),
           NEW kept \in Nat, NEW s \in Nat, s >= 1,
           kept + Aligned(s) <= Aligned(AllocSize(g[t])),
           NEW a, a.chunk = at[t].chunk, a.offset = at[t].offset + kept
    PROVE  Given(B, [B EXCEPT ![at[t].buffer] = FreeBytes(@, a, s)],
                 at[t].buffer, at[t].chunk, at[t].offset + kept, Aligned(s))
<1>1. PICK b, c, o, n, m : /\ b = at[t].buffer /\ c = at[t].chunk /\ o = at[t].offset
                           /\ n = Aligned(AllocSize(g[t])) /\ m = Aligned(s)
  OBVIOUS
<1>2. n \in Nat /\ m \in Nat
  BY <1>1, AlignedType DEF Sized
<1>3. /\ \A d \in DOMAIN B : Allocator(B[d])
      /\ b \in DOMAIN B /\ c \in DOMAIN B[b] /\ o \in Nat
      /\ o + n <= B[b][c].max_size
  BY <1>1 DEF Shared, Placed
<1>4. B[b][c].max_size \in Nat
  BY <1>3, ChunkTypes
<1>5. kept + m <= n
  BY <1>1
<1>6. o + kept \in Nat /\ (o + kept) + m <= B[b][c].max_size
  BY <1>2, <1>3, <1>4, <1>5
<1>7. ASSUME NEW x \in Nat, InBlock(x, o + kept, m)
      PROVE  ~IsFree(B[b][c].free, x)
  <2>1. InBlock(x, o, n)
    BY <1>2, <1>3, <1>5, <1>7 DEF InBlock
  <2>2. Owns(g, at, t, b, c, x)
    BY <1>1, <2>1 DEF Owns
  <2>3. ~FreeByte(B, b, c, x)
    BY <2>2 DEF Shared
  <2> QED  BY <1>3, <2>3 DEF FreeByte
<1>8. a.chunk = c /\ a.offset = o + kept
  BY <1>1
<1>9. Released(B[b], FreeBytes(B[b], a, s), c, o + kept, m)
  <2>1. PICK A : A = B[b]
    OBVIOUS
  <2>2. /\ Allocator(A) /\ a.chunk \in DOMAIN A /\ a.offset \in Nat
        /\ a.offset + Aligned(s) <= A[a.chunk].max_size
        /\ \A x \in Nat : InBlock(x, a.offset, Aligned(s)) => ~IsFree(A[a.chunk].free, x)
    BY <1>1, <1>3, <1>6, <1>7, <1>8, <2>1
  <2>3. Released(A, FreeBytes(A, a, s), a.chunk, a.offset, Aligned(s))
    BY <2>2, FreeBytesMeans
  <2> QED  BY <1>1, <1>8, <2>1, <2>3
<1>10. Given(B, [B EXCEPT ![b] = FreeBytes(B[b], a, s)], b, c, o + kept, m)
  BY <1>3, <1>9, ReleasedGiven
<1> QED  BY <1>1, <1>10

\* Memory is given back, if any.
GivesBack ==
    \/ buf_tallocs' = buf_tallocs
    \/ \E b, c, o, n : Given(buf_tallocs, buf_tallocs', b, c, o, n)

\* A tensor takes the place of one of its sources.
LEMMA TakePlaceMemory ==
    ASSUME IsGraph(graph), NEW n \in DOMAIN graph,
           Memory(graph, n - 1, buf_tallocs, allocated, addr), NeedsMemory(graph, n),
           NEW p \in allocated, ~NeededAfter(graph, p, n), graph[n].op = "inplace",
           graph[n].nbytes = graph[p].nbytes, AllocSize(graph[n]) <= AllocSize(graph[p]),
           TakePlace(n, p)
    PROVE  /\ Memory(graph, n, buf_tallocs', allocated', addr')
           /\ DOMAIN buf_tallocs' = DOMAIN buf_tallocs
           /\ GivesBack
<1> DEFINE kept == Aligned(AllocSize(graph[n]))
           size == Aligned(AllocSize(graph[p]))
           b == addr[p].buffer
           a == [chunk |-> addr[p].chunk, offset |-> addr[p].offset + kept]
<1>1. PICK new, own, C : new = addr' /\ own = allocated' /\ C = buf_tallocs'
  OBVIOUS
<1>2. /\ new = [addr EXCEPT ![n] = addr[p]]
      /\ own = (allocated \ {p}) \cup {n}
      /\ C = IF size > kept
             THEN [buf_tallocs EXCEPT ![b] = FreeBytes(@, a, size - kept)] ELSE buf_tallocs
  BY <1>1 DEF TakePlace, ExtraFreed
<1>3. Shared(graph, buf_tallocs, allocated, addr) /\ DOMAIN addr = DOMAIN graph
      /\ p \in 1 .. n - 1
  BY MemoryParts
<1>4. p \in DOMAIN graph
  BY <1>3, TensorTypes
<1>5. Sized(graph, p) /\ AllocSize(graph[n]) \in Nat /\ AllocSize(graph[p]) \in Nat
  BY <1>4, TensorTypes DEF Sized
<1>6. kept \in Nat /\ size \in Nat /\ kept <= size /\ size - kept \in Nat
      /\ Aligned(size - kept) = size - kept
  BY <1>5, AlignedRest, AlignedType
<1>7. new[n] = addr[p] /\ DOMAIN new = DOMAIN addr /\ \A u : u # n => new[u] = addr[u]
  BY <1>2, <1>3
<1>8. \/ size - kept = 0 /\ C = buf_tallocs
      \/ Given(buf_tallocs, C, addr[p].buffer, addr[p].chunk, addr[p].offset + kept, size - kept)
  <2>1. CASE size > kept
    <3>1. C = [buf_tallocs EXCEPT ![b] = FreeBytes(@, a, size - kept)]
      BY <1>2, <2>1
    <3>2. a.chunk = addr[p].chunk /\ a.offset = addr[p].offset + kept
      OBVIOUS
    <3> HIDE DEF a
    <3>3. PICK s : s = size - kept
      OBVIOUS
    <3>4. s \in Nat /\ s >= 1 /\ kept + Aligned(s) <= size
      <4> HIDE DEF kept, size
      <4> QED  BY <1>6, <2>1, <3>3
    <3>5. Given(buf_tallocs, [buf_tallocs EXCEPT ![addr[p].buffer] = FreeBytes(@, a, s)],
                addr[p].buffer, addr[p].chunk, addr[p].offset + kept, Aligned(s))
      <4> HIDE DEF kept
      <4> QED  BY <1>3, <1>5, <1>6, <3>2, <3>4, GiveBack
    <3> QED  BY <1>6, <3>1, <3>3, <3>5
  <2>2. CASE ~(size > kept)
    <3>1. size - kept = 0
      <4> HIDE DEF kept, size
      <4> QED  BY <1>6, <2>2
    <3> QED  BY <1>2, <2>2, <3>1
  <2> QED  BY <2>1, <2>2
<1>9. Memory(graph, n, C, (allocated \ {p}) \cup {n}, new)
  BY <1>7, <1>8, MemoryPlace
<1>10. DOMAIN C = DOMAIN buf_tallocs
  BY <1>2
<1>11. C = buf_tallocs \/ \E d, c, o, m : Given(buf_tallocs, C, d, c, o, m)
  BY <1>8
<1>12. GivesBack
  BY <1>1, <1>11 DEF GivesBack
<1> QED  BY <1>1, <1>2, <1>9, <1>10, <1>12

\* A tensor gets memory of its own.
LEMMA TakeMemoryMemory ==
    ASSUME IsGraph(graph), NEW n \in DOMAIN graph, graph[n].buffer \in DOMAIN buf_tallocs,
           Memory(graph, n - 1, buf_tallocs, allocated, addr), NeedsMemory(graph, n),
           TakeMemory(n)
    PROVE  /\ Memory(graph, n, buf_tallocs', allocated', addr')
           /\ DOMAIN buf_tallocs' = DOMAIN buf_tallocs
<1> DEFINE b == graph[n].buffer
           s == AllocSize(graph[n])
           r == Alloc(buf_tallocs[b], s)
<1>1. PICK new, own, C : new = addr' /\ own = allocated' /\ C = buf_tallocs'
  OBVIOUS
<1>2. /\ new = [addr EXCEPT ![n] = [buffer |-> b, chunk |-> r.addr.chunk, offset |-> r.addr.offset]]
      /\ own = allocated \cup {n}
      /\ C = [buf_tallocs EXCEPT ![b] = r.alloc]
  BY <1>1 DEF TakeMemory
<1>3. \A d \in DOMAIN buf_tallocs : Allocator(buf_tallocs[d])
  BY MemoryParts
<1>4. s \in Nat /\ s >= 1
  BY TensorTypes
<1>5. Aligned(s) <= Endless
  BY EndlessMeans
<1>6. PICK c, o : /\ r.addr = [chunk |-> c, offset |-> o]
                  /\ Reserved(buf_tallocs[b], r.alloc, c, o, Aligned(s))
  BY <1>3, <1>4, <1>5, AllocMeans
<1>7. /\ DOMAIN addr = DOMAIN graph
  BY MemoryParts
<1>8. DOMAIN new = DOMAIN addr /\ (\A u : u # n => new[u] = addr[u])
      /\ new[n] = [buffer |-> b, chunk |-> c, offset |-> o]
  BY <1>2, <1>6, <1>7
<1>9. new[n].buffer = b /\ new[n].chunk = c /\ new[n].offset = o
  BY <1>8
<1>10. Taken(buf_tallocs, C, b, c, o, Aligned(s))
  BY <1>2, <1>3, <1>6, ReservedTaken
<1> HIDE DEF b, s, r
<1>11. Taken(buf_tallocs, C, new[n].buffer, new[n].chunk, new[n].offset,
             Aligned(AllocSize(graph[n])))
  BY <1>9, <1>10 DEF s
<1>12. Memory(graph, n, C, allocated \cup {n}, new)
  BY <1>8, <1>11, MemoryTaken
<1> QED  BY <1>1, <1>2, <1>12

\* ggml_gallocr_free_node
LEMMA FreeNodeMemory ==
    ASSUME IsGraph(graph), NEW n, Memory(graph, n, buf_tallocs, allocated, addr),
           n \in Nat, n <= Len(graph),
           NEW t \in DOMAIN graph, graph[t].output \/ ~NeededAfter(graph, t, n), FreeNode(t)
    PROVE  /\ Memory(graph, n, buf_tallocs', allocated', addr)
           /\ DOMAIN buf_tallocs' = DOMAIN buf_tallocs
           /\ GivesBack
<1>1. CASE graph[t].output \/ t \notin allocated
  BY <1>1 DEF FreeNode, GivesBack
<1>2. CASE ~graph[t].output /\ t \in allocated
  <2>1. PICK own, C : own = allocated' /\ C = buf_tallocs'
    OBVIOUS
  <2>2. /\ own = allocated \ {t}
        /\ C = [buf_tallocs EXCEPT ![addr[t].buffer] =
                   FreeBytes(@, addr[t], AllocSize(graph[t]))]
    BY <1>2, <2>1 DEF FreeNode
  <2>3. Shared(graph, buf_tallocs, allocated, addr)
    BY MemoryParts
  <2>4. addr[t].offset \in Nat
    BY <1>2, <2>3 DEF Shared, Placed
  <2>5. /\ Sized(graph, t) /\ AllocSize(graph[t]) \in Nat /\ AllocSize(graph[t]) >= 1
        /\ Aligned(AllocSize(graph[t])) \in Nat
    BY TensorTypes DEF Sized
  <2>6. addr[t].offset + 0 = addr[t].offset
        /\ 0 + Aligned(AllocSize(graph[t])) <= Aligned(AllocSize(graph[t]))
    BY <2>4, <2>5
  <2>7. Given(buf_tallocs, C, addr[t].buffer, addr[t].chunk, addr[t].offset + 0,
              Aligned(AllocSize(graph[t])))
    BY <1>2, <2>2, <2>3, <2>5, <2>6, GiveBack
  <2>8. Memory(graph, n, C, allocated \ {t}, addr)
    BY <1>2, <2>6, <2>7, MemoryFreed
  <2>9. DOMAIN C = DOMAIN buf_tallocs
    BY <2>2
  <2>10. GivesBack
    BY <2>1, <2>7 DEF GivesBack
  <2> QED  BY <2>1, <2>2, <2>8, <2>9, <2>10
<1> QED  BY <1>1, <1>2

-----------------------------------------------------------------------------
(* The steps *)

LEMMA KnownGraph ==
    ASSUME NEW g, Known(g)
    PROVE  IsGraph(g) /\ \A h \in Later(g) : Known(h)
BY GraphsAssumption DEF Known

\* The graphs that may come are known.
LEMMA ComingKnown ==
    ASSUME IInv, NEW g \in Coming
    PROVE  Known(g) /\ \A t \in DOMAIN g : g[t].buffer \in Buffers
<1>1. CASE planned = <<>>
  BY <1>1 DEF Coming, Known
<1>2. CASE planned # <<>>
  <2>1. Known(planned)
    BY <1>2 DEF IInv, PlanHolds
  <2> QED  BY <1>2, <2>1, KnownGraph DEF Coming
<1> QED  BY <1>1, <1>2

LEMMA BufferNumbers ==
    ASSUME IInv
    PROVE  -1 \notin DOMAIN buf_tallocs /\ DOMAIN buf_tallocs = Buffers
BY DEF IInv, Buffers

\* What is left when the plan does not change.
LEMMA SamePlan ==
    ASSUME IInv, UNCHANGED <<n_buffers, planVars>>, DOMAIN buf_tallocs' = Buffers,
           pc' \in {"allocate", "update", "buffers"}, WhilePlanning'
    PROVE  IInv'
<1>1. Buffers' = Buffers
  BY DEF Buffers
<1>2. planned' = planned /\ plan' = plan /\ buffers' = buffers /\ n_buffers' = n_buffers
  BY DEF planVars
<1>3. planned # <<>> => PlanHolds
  BY DEF IInv
<1>4. (planned # <<>> => PlanHolds)'
  BY <1>1, <1>2, <1>3 DEF PlanHolds
<1>5. (pc = "ready" => planned # <<>> /\ Known(graph))'
  OBVIOUS
<1> QED  BY <1>1, <1>2, <1>4, <1>5 DEF IInv, Planning

LEMMA CountsFirst ==
    ASSUME NEW g, IsGraph(g)
    PROVE  Counts(g, Uses(g), [t \in DOMAIN g |-> Children(g, t)], [t \in DOMAIN g |-> Views(g, t)])
<1>1. \A t : UsesOf(g, Uses(g), t) = {u \in Uses(g) : g[u[1]].src[u[2]] = t}
  BY DEF UsesOf, Source
<1>2. \A t : OpenViews(g, Uses(g), t) = {n \in Nodes(g) : g[n].view_src = t}
  BY DEF OpenViews
<1> QED  BY <1>1, <1>2 DEF Counts, Children, Views

LEMMA BeginStep ==
    ASSUME IInv, NEW g \in Coming, NEW operation, Begin(g, operation)
    PROVE  IInv'
<1>1. Known(g) /\ IsGraph(g) /\ \A t \in DOMAIN g : g[t].buffer \in Buffers
  BY ComingKnown, KnownGraph
<1>2. /\ graph' = g /\ pc' = "allocate" /\ i' = 1 /\ j' = 1
      /\ UNCHANGED <<n_buffers, planVars>>
      /\ n_children' = [t \in DOMAIN g |-> Children(g, t)]
      /\ n_views' = [t \in DOMAIN g |-> Views(g, t)]
      /\ allocated' = {} /\ addr' = [t \in DOMAIN g |-> Invalid]
      /\ buf_tallocs' = [b \in Buffers |-> <<>>]
  BY DEF Begin, Clear
<1>3. Done' = 0 /\ Buffers' = Buffers
  BY <1>2 DEF Done, Buffers
<1>4. 1 \in DOMAIN g /\ \A t \in DOMAIN g : t \in Nat /\ t >= 1
  <2>1. g \in Seq(Tensors) /\ g # <<>>
    BY <1>1 DEF IsGraph
  <2> QED  BY <2>1
<1>5. Pending' = Uses(g)
  <2>1. \A u \in Uses(g) : u[1] > 1 \/ u[1] = 1
    BY <1>1, <1>4, UseTypes
  <2>2. Pending' = {u \in Uses(g) : u[1] > 1 \/ (u[1] = 1 /\ (pc' = "update" => u[2] >= 1))}
    BY <1>2 DEF Pending
  <2> QED  BY <1>2, <2>1, <2>2
<1>6. Counts(graph, Pending, n_children, n_views)'
  BY <1>1, <1>2, <1>5, CountsFirst
<1>7. Memory(graph, Done, buf_tallocs, allocated, addr)'
  <2>1. PICK B, at : B = buf_tallocs' /\ at = addr'
    OBVIOUS
  <2>2. B = [b \in Buffers |-> <<>>] /\ at = [t \in DOMAIN g |-> Invalid]
    BY <1>2, <2>1
  <2>3. Allocator(<<>>)
    BY DEF Allocator
  <2>4. \A b, c, x : ~UsedByte(B, b, c, x) /\ ~FreeByte(B, b, c, x)
    BY <2>2 DEF UsedByte, FreeByte
  <2>5. Shared(g, B, {}, at)
    BY <2>2, <2>3, <2>4 DEF Shared
  <2>6. DOMAIN at = DOMAIN g /\ \A t \in DOMAIN g : at[t] = Invalid /\ ~(t <= 0)
    BY <1>4, <2>2
  <2>7. \A m \in Nodes(g) : ~(m <= 0)
    BY <1>4 DEF Nodes
  <2>8. \A t \in 1 .. 0 : FALSE
    OBVIOUS
  <2>9. Memory(g, 0, B, {}, at)
    BY <2>5, <2>6, <2>7, <2>8 DEF Memory
  <2> QED  BY <1>2, <1>3, <2>1, <2>9
<1>8. AtTensor'
  BY <1>2, <1>4 DEF AtTensor
<1>9. WhilePlanning'
  BY <1>1, <1>2, <1>3, <1>6, <1>7, <1>8 DEF WhilePlanning
<1> QED  BY <1>2, <1>9, SamePlan

\* ggml_gallocr_allocate_node
LEMMA AllocateNodeMemory ==
    ASSUME IInv, pc = "allocate", AllocateNode(i)
    PROVE  /\ Memory(graph, i, buf_tallocs', allocated', addr')
           /\ DOMAIN buf_tallocs' = Buffers
           /\ TakeMemory(i) \/ GivesBack
<1>1. /\ Known(graph) /\ IsGraph(graph) /\ i \in DOMAIN graph
      /\ graph[i].buffer \in Buffers
      /\ Counts(graph, Pending, n_children, n_views)
      /\ Memory(graph, i - 1, buf_tallocs, allocated, addr)
  BY KnownGraph DEF IInv, Planning, WhilePlanning, AtTensor, Done
<1>2. -1 \notin DOMAIN buf_tallocs /\ DOMAIN buf_tallocs = Buffers
  BY BufferNumbers
<1>3. i \in Nat /\ i >= 1
  BY <1>1, TensorTypes
<1>4. i \notin allocated /\ \A t \in allocated : t \in DOMAIN graph /\ NeedsMemory(graph, t)
  <2>1. \A t \in allocated : t \in 1 .. i - 1 /\ NeedsMemory(graph, t)
    BY <1>1, MemoryParts
  <2>2. DOMAIN graph = 1 .. Len(graph) /\ Len(graph) \in Nat /\ i <= Len(graph)
    BY <1>1, TensorTypes
  <2> QED  BY <1>3, <2>1, <2>2
<1>5. CASE IsAllocated(i) \/ IsView(graph[i])
  <2>1. UNCHANGED <<addr, allocated, buf_tallocs>>
    BY <1>5 DEF AllocateNode
  <2>2. ~NeedsMemory(graph, i)
    BY <1>4, <1>5 DEF NeedsMemory, IsAllocated
  <2>3. Memory(graph, i, buf_tallocs, allocated, addr)
    BY <1>1, <1>2, <2>2, MemoryKept
  <2> QED  BY <1>2, <2>1, <2>3 DEF GivesBack
<1>6. CASE ~(IsAllocated(i) \/ IsView(graph[i])) /\ Reusable(i) # {}
  <2> DEFINE k == Min(Reusable(i))
             p == graph[i].src[k]
  <2>1. TakePlace(i, p)
    BY <1>6 DEF AllocateNode
  <2>2. NeedsMemory(graph, i)
    BY <1>6 DEF NeedsMemory, IsAllocated
  <2>3. k \in Reusable(i)
    <3>1. graph[i].src \in Seq(Nat)
      BY <1>1, TensorTypes
    <3>2. Reusable(i) \subseteq DOMAIN graph[i].src /\ DOMAIN graph[i].src \subseteq Nat
      BY <3>1 DEF Reusable
    <3> QED  BY <1>6, <3>2, MinMeans
  <2>4. k \in DOMAIN graph[i].src /\ graph[i].op = "inplace" /\ CanReuse(i, p)
    BY <2>3 DEF Reusable
  <2> HIDE DEF k
  <2>5. /\ p \in allocated /\ ~graph[p].output /\ graph[i].nbytes = graph[p].nbytes
        /\ n_children[p] = 1 /\ n_views[p] = 0
    BY <2>4 DEF CanReuse
  <2>6. p \in DOMAIN graph
    BY <1>4, <2>5
  <2>7. AllocSize(graph[i]) <= AllocSize(graph[p])
    BY <1>1, <2>4, <2>5 DEF IsGraph
  <2>8. <<i, k>> \in Uses(graph) /\ Source(graph, <<i, k>>) = p /\ <<i, k>> \in Pending
    <3>1. <<i, k>> \in Uses(graph)
      BY <1>1, <2>4, UseTypes
    <3>2. <<i, k>>[1] = i /\ <<i, k>>[2] = k
      OBVIOUS
    <3> QED  BY <3>1, <3>2 DEF Source, Pending
  <2>9. Pending \in SUBSET Uses(graph)
    BY DEF Pending
  <2> HIDE DEF p
  <2>10. UsesOf(graph, Pending, p) = {<<i, k>>} /\ OpenViews(graph, Pending, p) = {}
    <3>1. UsesOf(graph, Pending, p) = {<<i, k>>}
      BY <1>1, <2>5, <2>6, <2>8, <2>9, LastUse
    <3>2. Cardinality(OpenViews(graph, Pending, p)) = 0
      BY <1>1, <2>5, <2>6 DEF Counts
    <3>3. OpenViews(graph, Pending, p) = {}
      BY <1>1, <2>9, <3>2, CountTypes
    <3> QED  BY <3>1, <3>3
  <2>11. ~NeededAfter(graph, p, i)
    <3>1. \A u \in Uses(graph) : u[1] > i => u \in Pending
      BY DEF Pending
    <3>2. \A u \in UsesOf(graph, Pending, p) : ~(u[1] > i)
      BY <1>3, <2>10
    <3> QED  BY <1>1, <1>3, <2>5, <2>10, <3>1, <3>2, Unneeded
  <2>12. TakePlace(i, p)
    BY <2>1 DEF p
  <2>13. graph[i].op = "inplace"
    BY <2>4
  <2> QED  BY <1>1, <1>2, <2>2, <2>5, <2>7, <2>11, <2>12, <2>13, TakePlaceMemory
<1>7. CASE ~(IsAllocated(i) \/ IsView(graph[i])) /\ Reusable(i) = {}
  <2>1. TakeMemory(i) /\ NeedsMemory(graph, i)
    BY <1>7 DEF AllocateNode, NeedsMemory, IsAllocated
  <2> QED  BY <1>1, <1>2, <2>1, TakeMemoryMemory
<1> QED  BY <1>5, <1>6, <1>7

LEMMA AllocateStep ==
    ASSUME IInv, AllocateTensor
    PROVE  IInv' /\ Done' = i
<1>1. /\ pc = "allocate" /\ AllocateNode(i) /\ j' = 1
      /\ UNCHANGED <<n_buffers, graph, planVars, n_children, n_views>>
  BY DEF AllocateTensor
<1>2. /\ Known(graph) /\ IsGraph(graph) /\ i \in DOMAIN graph
      /\ \A t \in DOMAIN graph : graph[t].buffer \in Buffers
      /\ Counts(graph, Pending, n_children, n_views)
  BY <1>1, KnownGraph DEF IInv, Planning, WhilePlanning, AtTensor
<1>3. i \in Nat /\ i >= 1 /\ DOMAIN graph = 1 .. Len(graph) /\ Len(graph) \in Nat /\ i <= Len(graph)
  BY <1>2, TensorTypes
<1>4. /\ Memory(graph, i, buf_tallocs', allocated', addr')
      /\ DOMAIN buf_tallocs' = Buffers
  BY <1>1, AllocateNodeMemory
<1>5. Buffers' = Buffers
  BY <1>1 DEF Buffers
<1>6. /\ pc' \in {"allocate", "update", "buffers"} /\ Done' = i /\ Pending' = Pending
      /\ AtTensor'
  <2>1. \A u \in Uses(graph) : u[1] \in Nodes(graph) /\ u[1] \in Nat /\ u[2] \in Nat /\ u[2] >= 1
    BY <1>2, UseTypes
  <2>2. CASE i \in Leafs(graph)
    <3>1. i' = i + 1 /\ pc' = IF i = Len(graph) THEN "buffers" ELSE "allocate"
      BY <2>2 DEF AllocateTensor
    <3>2. \A u \in Uses(graph) : u[1] # i
      BY <2>1, <2>2 DEF Nodes
    <3>3. pc' \in {"buffers", "allocate"} /\ (pc' = "buffers" <=> i = Len(graph))
      BY <3>1
    <3> PICK m, l : m = i' /\ l = Len(graph)
      OBVIOUS
    <3>0. m = i + 1 /\ i \in Nat /\ l \in Nat /\ i <= l
      BY <1>3, <3>1
    <3>4. ASSUME NEW u \in Uses(graph)
          PROVE  u[1] > m \/ u[1] = m <=> u[1] > i
      <4>1. PICK n : n = u[1]
        OBVIOUS
      <4>2. n \in Nat
        BY <2>1, <4>1
      <4> QED  BY <3>0, <4>1, <4>2
    <3>5. Pending' = Pending
      BY <1>1, <3>2, <3>3, <3>4 DEF Pending
    <3>6. m - 1 = i
      BY <3>0
    <3>7. Done' = i
      BY <3>3, <3>6 DEF Done
    <3>8. i # l => m \in DOMAIN graph
      BY <1>3, <3>0
    <3>9. AtTensor'
      BY <1>1, <3>1, <3>3, <3>8 DEF AtTensor
    <3> QED  BY <3>3, <3>5, <3>7, <3>9
  <2>3. CASE i \notin Leafs(graph)
    <3>1. i' = i /\ pc' = "update" /\ i \in Nodes(graph)
      BY <1>2, <2>3 DEF AllocateTensor, Nodes
    <3>2. Pending' = Pending
      BY <1>1, <2>1, <3>1 DEF Pending
    <3> QED  BY <1>1, <3>1, <3>2 DEF AtTensor, Done
  <2> QED  BY <2>2, <2>3
<1>7. Counts(graph, Pending, n_children, n_views)'
  BY <1>1, <1>2, <1>6
<1>8. Memory(graph, Done, buf_tallocs, allocated, addr)'
  BY <1>1, <1>4, <1>6
<1>9. WhilePlanning'
  BY <1>1, <1>2, <1>5, <1>6, <1>7, <1>8 DEF WhilePlanning
<1> QED  BY <1>1, <1>4, <1>6, <1>9, SamePlan

\* ggml_gallocr_alloc_graph_impl takes a use off the counters and frees what was
\* used last.
LEMMA UpdateStep ==
    ASSUME IInv, UpdateParents
    PROVE  IInv' /\ GivesBack
<1> DEFINE u == <<i, j>>
           p == graph[i].src[j]
           v == graph[p].view_src
           P == Pending \ {u}
<1>1. /\ pc = "update" /\ j <= Len(graph[i].src) /\ UpdateParent(p) /\ j' = j + 1
      /\ UNCHANGED <<n_buffers, graph, planVars, addr, pc, i>>
  BY DEF UpdateParents
<1>2. /\ Known(graph) /\ IsGraph(graph) /\ i \in Nodes(graph) /\ i \in DOMAIN graph
      /\ j \in Nat \ {0}
      /\ \A t \in DOMAIN graph : graph[t].buffer \in Buffers
      /\ Counts(graph, Pending, n_children, n_views)
      /\ Memory(graph, i, buf_tallocs, allocated, addr)
  BY <1>1, KnownGraph DEF IInv, Planning, WhilePlanning, AtTensor, Done, Nodes
<1>3. /\ i \in Nat /\ i >= 1 /\ i <= Len(graph) /\ Len(graph) \in Nat
      /\ DOMAIN graph = 1 .. Len(graph)
      /\ j \in DOMAIN graph[i].src
  <2>1. graph[i].src \in Seq(Nat)
    BY <1>2, TensorTypes
  <2>2. j \in DOMAIN graph[i].src
    BY <1>1, <1>2, <2>1
  <2> QED  BY <1>2, <2>2, TensorTypes
<1>4. p \in 1 .. i - 1 /\ p \in DOMAIN graph
  BY <1>2, <1>3, SourceTypes
<1>5. u \in Uses(graph) /\ u[1] = i /\ u[2] = j /\ Source(graph, u) = p
  <2>1. u \in Uses(graph)
    BY <1>2, <1>3, UseTypes
  <2> QED  BY <2>1 DEF Source
<1>6. Pending \in SUBSET Uses(graph) /\ u \in Pending
  <2>1. j >= j
    BY <1>2
  <2> QED  BY <1>5, <2>1 DEF Pending
<1>7. Pending' = P
  <2>1. Pending' = {w \in Uses(graph) : w[1] > i \/ (w[1] = i /\ w[2] >= j + 1)}
    BY <1>1 DEF Pending
  <2>2. Pending = {w \in Uses(graph) : w[1] > i \/ (w[1] = i /\ w[2] >= j)}
    BY <1>1 DEF Pending
  <2>3. ASSUME NEW w \in Uses(graph)
        PROVE  (w[1] > i \/ (w[1] = i /\ w[2] >= j + 1))
               <=> (w[1] > i \/ (w[1] = i /\ w[2] >= j)) /\ w # u
    <3>1. PICK n, k : n = w[1] /\ k = w[2]
      OBVIOUS
    <3>2. n \in Nat /\ k \in Nat /\ w = <<n, k>>
      BY <1>2, <3>1, UseTypes
    <3>3. w # u <=> n # i \/ k # j
      BY <3>2
    <3>4. k >= j + 1 <=> k >= j /\ k # j
      BY <1>2, <3>2
    <3>5. ~(i > i)
      BY <1>3
    <3> QED  BY <3>1, <3>3, <3>4, <3>5
  <2> HIDE DEF u
  <2> QED  BY <2>1, <2>2, <2>3
<1> HIDE DEF P, u
<1>8. Counts(graph, P, n_children', n_views')
  <2>1. OneUseLess(p, n_children, n_views, n_children', n_views')
    BY <1>1 DEF UpdateParent, OneUseLess
  <2>2. PICK children2, views2 : children2 = n_children' /\ views2 = n_views'
    OBVIOUS
  <2>3. OneUseLess(Source(graph, u), n_children, n_views, children2, views2)
    BY <1>5, <2>1, <2>2
  <2>4. Counts(graph, P, children2, views2)
    BY <1>2, <1>6, <2>3, CountsLess DEF P
  <2> QED  BY <2>2, <2>4
<1>9. P \in SUBSET Uses(graph) /\ \A w \in Uses(graph) : w[1] > i => w \in P
  <2>1. ~(i > i)
    BY <1>3
  <2> QED  BY <1>5, <1>6, <2>1 DEF P, Pending
<1>10. ASSUME NEW t \in DOMAIN graph, n_children'[t] = 0, n_views'[t] = 0
       PROVE  graph[t].output \/ ~NeededAfter(graph, t, i)
  <2>1. PICK children2, views2 : children2 = n_children' /\ views2 = n_views'
    OBVIOUS
  <2>2. Counts(graph, P, children2, views2) /\ children2[t] = 0 /\ views2[t] = 0
    BY <1>8, <1>10, <2>1
  <2> QED  BY <1>2, <1>3, <1>9, <2>2, UncountedUnneeded
<1>11. DOMAIN n_children = DOMAIN graph /\ DOMAIN n_views = DOMAIN graph
  BY <1>2 DEF Counts
<1> HIDE DEF p
<1>12. /\ Memory(graph, i, buf_tallocs', allocated', addr)
       /\ DOMAIN buf_tallocs' = DOMAIN buf_tallocs /\ GivesBack
  <2> DEFINE unused == n_children[p] = 1 /\ n_views[p] = 0
  <2>1. /\ n_children' = [n_children EXCEPT ![p] = @ - 1]
        /\ n_views' = IF unused /\ v # 0 THEN [n_views EXCEPT ![v] = @ - 1] ELSE n_views
        /\ IF ~unused
           THEN UNCHANGED <<allocated, buf_tallocs>>
           ELSE IF v = 0
           THEN FreeNode(p)
           ELSE IF n_views[v] = 1 /\ n_children[v] = 0
           THEN FreeNode(v)
           ELSE UNCHANGED <<allocated, buf_tallocs>>
    BY <1>1 DEF UpdateParent
  <2>2. CASE UNCHANGED <<allocated, buf_tallocs>>
    BY <1>2, <2>2 DEF GivesBack
  <2>3. CASE unused /\ v = 0 /\ FreeNode(p)
    <3>1. n_children'[p] = 0 /\ n_views'[p] = 0
      BY <1>4, <1>11, <2>1, <2>3
    <3> QED  BY <1>2, <1>3, <1>4, <1>10, <2>3, <3>1, FreeNodeMemory
  <2>4. CASE unused /\ v # 0 /\ n_views[v] = 1 /\ n_children[v] = 0 /\ FreeNode(v)
    <3>1. v \in 1 .. p - 1
      BY <1>2, <1>4, <2>4 DEF IsGraph, IsView
    <3>2. v \in DOMAIN graph /\ v # p
      BY <1>3, <1>4, <3>1
    <3>3. n_children'[v] = 0 /\ n_views'[v] = 0
      <4> HIDE DEF v
      <4> QED  BY <1>4, <1>11, <2>1, <2>4, <3>2
    <3> QED  BY <1>2, <1>3, <1>10, <2>4, <3>2, <3>3, FreeNodeMemory
  <2> QED  BY <2>1, <2>2, <2>3, <2>4
<1>13. Counts(graph, Pending, n_children, n_views)'
  BY <1>1, <1>7, <1>8
<1>14. Memory(graph, Done, buf_tallocs, allocated, addr)'
  BY <1>1, <1>12 DEF Done
<1>15. AtTensor'
  <2>1. j + 1 \in Nat \ {0}
    BY <1>2
  <2> QED  BY <1>1, <1>2, <2>1 DEF AtTensor
<1>16. Buffers' = Buffers /\ DOMAIN buf_tallocs' = Buffers
  BY <1>1, <1>12, BufferNumbers DEF Buffers
<1>17. WhilePlanning'
  BY <1>1, <1>2, <1>13, <1>14, <1>15, <1>16 DEF WhilePlanning
<1> QED  BY <1>1, <1>12, <1>16, <1>17, SamePlan

LEMMA NextStep ==
    ASSUME IInv, NextNode
    PROVE  IInv' /\ Done' = i
<1>1. /\ pc = "update" /\ j > Len(graph[i].src) /\ i' = i + 1
      /\ pc' = IF i = Len(graph) THEN "buffers" ELSE "allocate"
      /\ UNCHANGED <<n_buffers, graph, planVars, buf_tallocs, hashVars, j>>
  BY DEF NextNode
<1>2. /\ Known(graph) /\ IsGraph(graph) /\ i \in DOMAIN graph
      /\ \A t \in DOMAIN graph : graph[t].buffer \in Buffers
      /\ Counts(graph, Pending, n_children, n_views)
      /\ Memory(graph, i, buf_tallocs, allocated, addr)
      /\ j \in Nat
  BY <1>1, KnownGraph DEF IInv, Planning, WhilePlanning, AtTensor, Done, Nodes
<1>3. /\ i \in Nat /\ i >= 1 /\ i <= Len(graph) /\ Len(graph) \in Nat
      /\ DOMAIN graph = 1 .. Len(graph) /\ graph[i].src \in Seq(Nat)
  BY <1>2, TensorTypes
<1>4. PICK m, l : m = i' /\ l = Len(graph)
  OBVIOUS
<1>5. m = i + 1 /\ l \in Nat /\ i <= l
  BY <1>1, <1>3, <1>4
<1>6. pc' \in {"buffers", "allocate"} /\ (pc' = "buffers" <=> i = l)
  BY <1>1, <1>4
<1>7. Pending' = Pending
  <2>1. ASSUME NEW u \in Uses(graph)
        PROVE  u[1] > m \/ u[1] = m <=> u[1] > i \/ (u[1] = i /\ u[2] >= j)
    <3>1. PICK n, k : n = u[1] /\ k = u[2]
      OBVIOUS
    <3>2. n \in Nat /\ k \in Nat /\ k <= Len(graph[n].src)
      BY <1>2, <3>1, UseTypes
    <3>3. n > m \/ n = m <=> n > i
      BY <1>3, <1>5, <3>2
    <3>4. ~(n = i /\ k >= j)
      <4> SUFFICES ASSUME n = i, k >= j
                   PROVE  FALSE
        OBVIOUS
      <4>1. PICK s : s = Len(graph[i].src)
        OBVIOUS
      <4>2. s \in Nat
        BY <1>3, <4>1
      <4>3. j > s
        BY <1>1, <4>1
      <4>4. k <= s
        BY <3>2, <4>1
      <4> QED  BY <1>2, <3>2, <4>2, <4>3, <4>4
    <3> QED  BY <3>1, <3>3, <3>4
  <2> QED  BY <1>1, <1>4, <1>6, <2>1 DEF Pending
<1>8. Done' = i
  <2>1. m - 1 = i
    BY <1>3, <1>5
  <2> QED  BY <1>4, <1>6, <2>1 DEF Done
<1>9. AtTensor'
  <2>1. i # l => m \in DOMAIN graph
    <3>1. DOMAIN graph = 1 .. l
      BY <1>3, <1>4
    <3>2. i \in Nat /\ i >= 1
      BY <1>3
    <3>3. i # l => m \in 1 .. l
      BY <1>5, <3>2
    <3> QED  BY <3>1, <3>3
  <2> QED  BY <1>1, <1>4, <1>5, <1>6, <2>1 DEF AtTensor
<1>10. Counts(graph, Pending, n_children, n_views)'
  BY <1>1, <1>2, <1>7 DEF hashVars
<1>11. Memory(graph, Done, buf_tallocs, allocated, addr)'
  BY <1>1, <1>2, <1>8 DEF hashVars
<1>12. Buffers' = Buffers /\ DOMAIN buf_tallocs' = Buffers
  BY <1>1, BufferNumbers DEF Buffers
<1>13. WhilePlanning'
  BY <1>1, <1>2, <1>9, <1>10, <1>11, <1>12 DEF WhilePlanning
<1> QED  BY <1>1, <1>6, <1>8, <1>12, <1>13, SamePlan

\* The new plan is good, and so are the buffers, whether they are kept or not.
LEMMA ReserveStep ==
    ASSUME IInv, ReserveBuffers
    PROVE  IInv'
<1>1. /\ pc = "buffers" /\ planned' = graph /\ plan' = addr
      /\ buffers' = [b \in Buffers |-> IF TooSmall(b) THEN ChunkSizes(b) ELSE buffers[b]]
      /\ pc' = (IF call = "alloc" THEN "ready" ELSE "idle")
      /\ UNCHANGED <<n_buffers, graph, buf_tallocs>>
  BY DEF ReserveBuffers
<1>2. /\ Known(graph) /\ IsGraph(graph) /\ i = Len(graph) + 1
      /\ Memory(graph, i - 1, buf_tallocs, allocated, addr)
  BY <1>1, KnownGraph DEF IInv, Planning, WhilePlanning, AtTensor, Done
<1>3. graph # <<>> /\ Len(graph) \in Nat /\ DOMAIN graph = 1 .. Len(graph) /\ i - 1 = Len(graph)
  <2>1. graph \in Seq(Tensors) /\ graph # <<>>
    BY <1>2 DEF IsGraph
  <2>2. PICK l : l = Len(graph)
    OBVIOUS
  <2>3. l \in Nat /\ DOMAIN graph = 1 .. l /\ i = l + 1
    BY <1>2, <2>1, <2>2
  <2>4. i - 1 = l
    BY <2>3
  <2> QED  BY <2>1, <2>2, <2>3, <2>4
<1>4. Memory(graph, Len(graph), buf_tallocs, allocated, addr)
  BY <1>2, <1>3
<1>5. \A n \in Nodes(graph) : ~IsView(graph[n]) => Spares(graph, addr, n)
  <2>1. \A n \in Nodes(graph) : n <= Len(graph)
    BY <1>3 DEF Nodes
  <2> QED  BY <1>4, <2>1, MemoryParts
<1>6. Buffers' = Buffers /\ DOMAIN buf_tallocs = Buffers
  BY <1>1, BufferNumbers DEF Buffers
<1>7. \A b \in Buffers : Allocator(buf_tallocs[b])
  BY <1>4, <1>6, MemoryParts
<1>8. ASSUME NEW b \in Buffers
      PROVE  buffers'[b] \in Seq(Nat)
  <2>1. buffers[b] \in Seq(Nat)
    BY DEF IInv
  <2>2. ChunkSizes(b) \in Seq(Nat)
    <3>1. PICK A : A = buf_tallocs[b]
      OBVIOUS
    <3>2. Allocator(A)
      BY <1>7, <3>1
    <3>3. /\ Len(A) \in Nat /\ DOMAIN A = 1 .. Len(A)
          /\ \A c \in DOMAIN A : A[c].max_size \in Nat
      BY <3>2, ChunkTypes
    <3>4. [c \in 1 .. Len(A) |-> A[c].max_size] \in Seq(Nat)
      BY <3>3
    <3> QED  BY <3>1, <3>3, <3>4 DEF ChunkSizes
  <2> QED  BY <1>1, <2>1, <2>2
<1>9. ASSUME NEW t \in DOMAIN graph, NeedsMemory(graph, t)
      PROVE  /\ addr[t].buffer \in Buffers
             /\ addr[t].chunk \in DOMAIN buffers'[addr[t].buffer]
             /\ addr[t].offset \in Nat
             /\ addr[t].offset + AllocSize(graph[t]) <= buffers'[addr[t].buffer][addr[t].chunk]
  <2>1. PICK b, c, o, s, n : /\ b = addr[t].buffer /\ c = addr[t].chunk /\ o = addr[t].offset
                             /\ s = AllocSize(graph[t]) /\ n = Aligned(s)
    OBVIOUS
  <2>2. Placed(graph, buf_tallocs, addr, t)
    BY <1>3, <1>4, <1>9, MemoryParts
  <2>3. /\ b \in Buffers /\ c \in DOMAIN buf_tallocs[b] /\ o \in Nat
        /\ o + n <= buf_tallocs[b][c].max_size
    BY <1>6, <2>1, <2>2 DEF Placed
  <2>4. s \in Nat /\ s >= 1 /\ n \in Nat /\ s <= n
    BY <1>2, <2>1, TensorTypes
  <2>5. PICK m : m = buf_tallocs[b][c].max_size
    OBVIOUS
  <2>6. m \in Nat /\ o + s <= m /\ m > 0
    <3>1. m \in Nat
      BY <1>7, <2>3, <2>5, ChunkTypes
    <3> QED  BY <2>3, <2>4, <2>5, <3>1
  <2>7. CASE TooSmall(b)
    <3>1. buffers'[b] = [d \in DOMAIN buf_tallocs[b] |-> buf_tallocs[b][d].max_size]
      BY <1>1, <2>3, <2>7 DEF ChunkSizes
    <3>2. c \in DOMAIN buffers'[b] /\ buffers'[b][c] = m
      BY <2>3, <2>5, <3>1
    <3> QED  BY <2>1, <2>3, <2>6, <3>2
  <2>8. CASE ~TooSmall(b)
    <3>1. buffers'[b] = buffers[b] /\ buffers[b] \in Seq(Nat)
      BY <1>1, <2>3, <2>8 DEF IInv
    <3>2. ~(m > (IF c \in DOMAIN buffers[b] THEN buffers[b][c] ELSE 0))
      BY <2>3, <2>5, <2>8 DEF TooSmall
    <3>3. c \in DOMAIN buffers[b]
      BY <2>6, <3>2
    <3>4. buffers[b][c] \in Nat
      BY <3>1, <3>3
    <3>5. o + s <= buffers[b][c]
      BY <2>3, <2>4, <2>6, <3>2, <3>3, <3>4
    <3> QED  BY <2>1, <2>3, <3>1, <3>3, <3>5
  <2> QED  BY <2>7, <2>8
<1>10. PlanHolds'
  <2>1. \A t \in DOMAIN graph : ~NeedsMemory(graph, t) => addr[t] = Invalid
    BY <1>4, MemoryParts
  <2> QED  BY <1>1, <1>2, <1>5, <1>6, <1>9, <2>1 DEF PlanHolds
<1>11. pc' \in {"idle", "ready"}
  BY <1>1
<1>12. n_buffers' \in Nat /\ DOMAIN buffers' = Buffers' /\ DOMAIN buf_tallocs' = Buffers'
  BY <1>1, <1>6 DEF IInv
<1>13. \A b \in Buffers' : buffers'[b] \in Seq(Nat)
  BY <1>6, <1>8
<1>14. ~Planning'
  BY <1>11 DEF Planning
<1>15. (pc = "ready" => planned # <<>> /\ Known(graph))'
  BY <1>1, <1>2, <1>3
<1> QED  BY <1>10, <1>11, <1>12, <1>13, <1>14, <1>15 DEF IInv

LEMMA AllocGraphStep ==
    ASSUME IInv, AllocGraph
    PROVE  IInv'
<1>1. /\ graph' \in Coming /\ ~NeedsRealloc(graph') /\ pc' = "ready"
      /\ UNCHANGED <<n_buffers, planVars, buf_tallocs>>
  BY DEF AllocGraph
<1>2. PICK g \in Coming : g = graph'
  BY <1>1
<1>3. Known(graph') /\ planned # <<>>
  <2>1. Known(g)
    BY ComingKnown
  <2>2. planned # <<>>
    BY <1>1 DEF NeedsRealloc
  <2> QED  BY <1>2, <2>1, <2>2
<1>4. Buffers' = Buffers /\ planned' = planned /\ plan' = plan /\ buffers' = buffers
  BY <1>1 DEF Buffers, planVars
<1>5. PlanHolds'
  <2>1. PlanHolds
    BY <1>3 DEF IInv
  <2> QED  BY <1>4, <2>1 DEF PlanHolds
<1>6. ~Planning'
  BY <1>1 DEF Planning
<1> QED  BY <1>1, <1>3, <1>4, <1>5, <1>6 DEF IInv
-----------------------------------------------------------------------------
(* The last chunk has room *)

\* No chunk needs more than most bytes, and all bytes of the last chunk that are
\* not needed so far are free.
Roomy(A, most) ==
    /\ Len(A) <= MaxChunks
    /\ \A d \in DOMAIN A : A[d].max_size <= most
    /\ MaxChunks \in DOMAIN A =>
           \A x \in Nat : A[MaxChunks].max_size <= x /\ x < Endless
                              => IsFree(A[MaxChunks].free, x)

\* Where nothing has room and there is no chunk to add, the last chunk is used up.
LEMMA LastChunkHasRoom ==
    ASSUME NEW A, Allocator(A), NEW most \in Nat, NEW n \in Nat, n >= 1,
           most + n <= Endless, Roomy(A, most),
           \A d \in DOMAIN A : \A k \in DOMAIN A[d].free : A[d].free[k].size < n
    PROVE  Len(A) < MaxChunks
<1>1. PICK l, m, e : l = Len(A) /\ m = MaxChunks /\ e = Endless
  OBVIOUS
<1>2. l \in Nat /\ DOMAIN A = 1 .. l /\ m \in Nat /\ m >= 1 /\ e \in Nat /\ l <= m
  BY <1>1, ChunkTypes, ChunkAssumption DEF Roomy
<1> SUFFICES ASSUME l = m
             PROVE  FALSE
  BY <1>1, <1>2
<1>3. m \in DOMAIN A
  BY <1>2
<1>4. PICK f, s : f = A[m].free /\ s = A[m].max_size
  OBVIOUS
<1>5. /\ s \in Nat /\ Begun(f, s)
      /\ \A k \in DOMAIN f : f[k].offset \in Nat /\ f[k].size \in Nat
  BY <1>3, <1>4, ChunkTypes
<1>6. s <= most
  BY <1>3, <1>4 DEF Roomy
<1>7. e - 1 \in Nat /\ s <= e - 1 /\ e - 1 < e
  BY <1>1, <1>2, <1>5, <1>6
<1>8. IsFree(f, e - 1)
  BY <1>1, <1>3, <1>4, <1>7 DEF Roomy
<1>9. PICK k \in DOMAIN f : InBlock(e - 1, f[k].offset, f[k].size)
  BY <1>8 DEF IsFree
<1>10. PICK p, q : p = f[k].offset /\ q = f[k].size
  OBVIOUS
<1>11. p \in Nat /\ q \in Nat /\ p <= s /\ q < n
  BY <1>3, <1>4, <1>5, <1>10 DEF Begun
<1>12. e - 1 < p + q
  BY <1>9, <1>10 DEF InBlock
<1> QED  BY <1>1, <1>2, <1>5, <1>6, <1>11, <1>12

\* Alloc has room, and leaves room.
LEMMA RoomyTaken ==
    ASSUME NEW A, Allocator(A), NEW C, NEW c, NEW o, NEW n \in Nat, n >= 1,
           Reserved(A, C, c, o, n), Grown(A, C, c, o, n),
           NEW most \in Nat, Roomy(A, most), most + n <= Endless
    PROVE  Roomy(C, most + n)
<1>1. PICK la, lc, m : la = Len(A) /\ lc = Len(C) /\ m = MaxChunks
  OBVIOUS
<1>2. /\ la \in Nat /\ DOMAIN A = 1 .. la /\ m \in Nat /\ m >= 1 /\ la <= m
      /\ \A d \in DOMAIN A : A[d].max_size \in Nat
  BY <1>1, ChunkTypes, ChunkAssumption DEF Roomy
<1>3. Allocator(C)
  BY DEF Reserved
<1>4. /\ lc \in Nat /\ DOMAIN C = 1 .. lc
      /\ \A d \in DOMAIN C : C[d].max_size \in Nat
  BY <1>1, <1>3, ChunkTypes
<1>5. /\ o \in Nat /\ c \in DOMAIN C
      /\ DOMAIN A \subseteq DOMAIN C /\ DOMAIN C \subseteq DOMAIN A \cup {c}
      /\ o + n <= C[c].max_size
      /\ \A d \in DOMAIN A : A[d].max_size <= C[d].max_size
      /\ \A d \in DOMAIN A : \A x \in Nat :
            IsFree(A[d].free, x) => IsFree(C[d].free, x) \/ (d = c /\ InBlock(x, o, n))
  BY DEF Reserved
<1>6. lc <= m
  <2>1. CASE c \in DOMAIN A
    <3>1. 1 .. lc = 1 .. la
      BY <1>2, <1>4, <1>5, <2>1
    <3>2. lc \in 1 .. lc \/ lc = 0
      BY <1>4
    <3> QED  BY <1>2, <1>4, <3>1, <3>2
  <2>2. CASE c \notin DOMAIN A
    <3>1. /\ c = la + 1
          /\ \A d \in DOMAIN A : \A k \in DOMAIN A[d].free : A[d].free[k].size < n
      BY <1>1, <2>2 DEF Grown
    <3>2. la < m
      BY <1>1, <3>1, LastChunkHasRoom
    <3>3. lc \in 1 .. la \cup {c} \/ lc = 0
      <4>1. lc \in 1 .. lc \/ lc = 0
        BY <1>4
      <4> QED  BY <1>2, <1>4, <1>5, <4>1
    <3> QED  BY <1>2, <1>4, <3>1, <3>2, <3>3
  <2> QED  BY <2>1, <2>2
<1>7. ASSUME NEW d \in DOMAIN C
      PROVE  C[d].max_size <= most + n
  <2>1. CASE d = c
    <3>1. PICK r : r = IF c \in DOMAIN A THEN A[c].max_size ELSE 0
      OBVIOUS
    <3>2. r \in Nat /\ r <= most
      BY <1>2, <3>1 DEF Roomy
    <3>3. C[c].max_size <= r + n
      BY <3>1 DEF Grown
    <3>4. C[c].max_size \in Nat
      BY <1>4, <1>5
    <3> QED  BY <2>1, <3>2, <3>3, <3>4
  <2>2. CASE d # c
    <3>1. d \in DOMAIN A
      BY <1>5, <2>2
    <3>2. C[d].max_size = A[d].max_size /\ A[d].max_size <= most
      BY <2>2, <3>1 DEF Grown, Roomy
    <3> QED  BY <1>2, <3>1, <3>2
  <2> QED  BY <2>1, <2>2
<1>8. ASSUME m \in DOMAIN C, NEW x \in Nat, C[m].max_size <= x, x < Endless
      PROVE  IsFree(C[m].free, x)
  <2>1. ~(m = c /\ InBlock(x, o, n))
    <3> SUFFICES ASSUME m = c, x < o + n
                 PROVE  FALSE
      BY DEF InBlock
    <3>1. o + n <= C[c].max_size /\ C[c].max_size \in Nat /\ C[c].max_size <= x
      BY <1>4, <1>5, <1>8
    <3> QED  BY <1>5, <3>1
  <2>2. CASE m \in DOMAIN A
    <3>1. A[m].max_size <= x
      <4>1. A[m].max_size \in Nat /\ C[m].max_size \in Nat /\ A[m].max_size <= C[m].max_size
        BY <1>2, <1>4, <1>5, <1>8, <2>2
      <4> QED  BY <1>8, <4>1
    <3>2. IsFree(A[m].free, x)
      BY <1>1, <1>8, <2>2, <3>1 DEF Roomy
    <3> QED  BY <1>5, <2>1, <2>2, <3>2
  <2>3. CASE m \notin DOMAIN A
    <3>1. m = c
      BY <1>5, <1>8, <2>3
    <3>2. PICK f : f = NewChunk(c, n).free
      OBVIOUS
    <3>3. f = <<[offset |-> 0, size |-> Endless]>>
      BY <1>1, <3>1, <3>2 DEF NewChunk
    <3>4. 1 \in DOMAIN f /\ f[1].offset = 0 /\ f[1].size = Endless
      BY <3>3
    <3>5. Endless \in Nat
      BY ChunkAssumption
    <3>6. InBlock(x, f[1].offset, f[1].size)
      BY <1>8, <3>4, <3>5 DEF InBlock
    <3>7. IsFree(f, x)
      BY <3>4, <3>6 DEF IsFree
    <3>8. ~InBlock(x, o, n)
      BY <2>1, <3>1
    <3>9. \A y \in Nat : IsFree(NewChunk(c, n).free, y) /\ ~InBlock(y, o, n)
                            => IsFree(C[c].free, y)
      BY <2>3, <3>1 DEF Grown
    <3> QED  BY <3>1, <3>2, <3>7, <3>8, <3>9
  <2> QED  BY <2>2, <2>3
<1> QED  BY <1>1, <1>6, <1>7, <1>8 DEF Roomy

\* What is given back leaves room too.
LEMMA RoomyGiven ==
    ASSUME NEW B, \A b \in DOMAIN B : Allocator(B[b]),
           NEW C, NEW d, NEW c, NEW o, NEW n, Given(B, C, d, c, o, n),
           NEW b \in DOMAIN B, NEW most, Roomy(B[b], most)
    PROVE  Roomy(C[b], most)
<1>1. /\ DOMAIN C[b] = DOMAIN B[b] /\ DOMAIN C = DOMAIN B
      /\ Allocator(C[b]) /\ Allocator(B[b])
      /\ \A e \in DOMAIN B[b] : C[b][e].max_size = B[b][e].max_size
      /\ \A e : \A x \in Nat : FreeByte(B, b, e, x) => FreeByte(C, b, e, x)
  BY DEF Given
<1>2. Len(C[b]) = Len(B[b])
  <2>1. PICK l, k : l = Len(C[b]) /\ k = Len(B[b])
    OBVIOUS
  <2>2. l \in Nat /\ k \in Nat /\ 1 .. l = 1 .. k
    BY <1>1, <2>1, ChunkTypes
  <2>3. (l \in 1 .. l \/ l = 0) /\ (k \in 1 .. k \/ k = 0)
    BY <2>2
  <2>4. l = k
    BY <2>2, <2>3
  <2> QED  BY <2>1, <2>4
<1>3. ASSUME NEW e \in DOMAIN B[b], NEW x \in Nat, IsFree(B[b][e].free, x)
      PROVE  IsFree(C[b][e].free, x)
  BY <1>1, <1>3 DEF FreeByte
<1> QED  BY <1>1, <1>2, <1>3 DEF Roomy

LEMMA RoomyMore ==
    ASSUME NEW A, Allocator(A), NEW p \in Nat, NEW q \in Nat, p <= q, Roomy(A, p)
    PROVE  Roomy(A, q)
<1>1. ASSUME NEW d \in DOMAIN A
      PROVE  A[d].max_size <= q
  <2>1. A[d].max_size \in Nat /\ A[d].max_size <= p
    BY ChunkTypes DEF Roomy
  <2> QED  BY <2>1
<1> QED  BY <1>1 DEF Roomy

\* A size that none of the tensors exceeds, and that the last chunk has room for
\* as often as there are tensors.
Limits(g, most) ==
    /\ most \in Nat
    /\ \A t \in DOMAIN g : Aligned(AllocSize(g[t])) <= most
    /\ Len(g) * most <= Endless

LEMMA LimitExists ==
    ASSUME NEW g, IsGraph(g)
    PROVE  \E most : Limits(g, most)
<1> DEFINE S == {m \in Nat : \A t \in DOMAIN g : Aligned(AllocSize(g[t])) <= m}
<1>1. Endless \in S
  BY EndlessMeans, ChunkAssumption
<1>2. PICK m \in S : \A k \in S : m <= k
  <2>1. S \in SUBSET Nat /\ S # {}
    BY <1>1
  <2> HIDE DEF S
  <2> QED  BY <2>1, LeastNumber
<1>3. m \in Nat /\ \A t \in DOMAIN g : Aligned(AllocSize(g[t])) <= m
  OBVIOUS
<1>4. PICK u \in DOMAIN g : Aligned(AllocSize(g[u])) = m
  <2> SUFFICES ASSUME \A t \in DOMAIN g : Aligned(AllocSize(g[t])) # m
               PROVE  FALSE
    OBVIOUS
  <2>1. 1 \in DOMAIN g
    BY DEF IsGraph
  <2>2. \A t \in DOMAIN g : Aligned(AllocSize(g[t])) \in Nat
    BY TensorTypes
  <2>3. \A t \in DOMAIN g : Aligned(AllocSize(g[t])) <= m - 1
    BY <1>3, <2>2
  <2>4. m - 1 \in Nat
    BY <1>3, <2>1, <2>2, <2>3
  <2>5. m - 1 \in S
    BY <2>3, <2>4
  <2>6. m <= m - 1
    BY <1>2, <2>5
  <2> QED  BY <1>3, <2>6
<1>5. Len(g) * m <= Endless
  BY <1>4 DEF IsGraph
<1> QED  BY <1>3, <1>5 DEF Limits

\* Every tensor so far has needed no more than the limit.
Room(g, n, B) == \E most : Limits(g, most) /\ \A b \in DOMAIN B : Roomy(B[b], n * most)

RoomInv == NeverOutOfChunks /\ (Planning => Room(graph, Done, buf_tallocs))

\* An allocator that is not changed, or gets memory back, keeps its room.
LEMMA RoomKept ==
    ASSUME IInv, Planning, NEW g, NEW n, Room(g, n, buf_tallocs), GivesBack
    PROVE  Room(g, n, buf_tallocs')
<1>1. CASE buf_tallocs' = buf_tallocs
  BY <1>1
<1>2. CASE \E b, c, o, m : Given(buf_tallocs, buf_tallocs', b, c, o, m)
  <2>1. PICK most : Limits(g, most) /\ \A b \in DOMAIN buf_tallocs : Roomy(buf_tallocs[b], n * most)
    BY DEF Room
  <2>2. PICK C : C = buf_tallocs'
    OBVIOUS
  <2>3. PICK d, c, o, m : Given(buf_tallocs, C, d, c, o, m)
    BY <1>2, <2>2
  <2>4. \A b \in DOMAIN buf_tallocs : Allocator(buf_tallocs[b])
    BY MemoryParts, KnownGraph DEF IInv, WhilePlanning
  <2>5. DOMAIN C = DOMAIN buf_tallocs
    BY <2>3 DEF Given
  <2>6. \A b \in DOMAIN buf_tallocs : Roomy(C[b], n * most)
    BY <2>1, <2>3, <2>4, RoomyGiven
  <2> QED  BY <2>1, <2>2, <2>5, <2>6 DEF Room
<1> QED  BY <1>1, <1>2 DEF GivesBack

\* One more tensor.
LEMMA RoomMore ==
    ASSUME IInv, Planning, NEW n \in Nat \ {0}, Room(graph, n - 1, buf_tallocs)
    PROVE  Room(graph, n, buf_tallocs)
<1>1. PICK most : /\ Limits(graph, most)
                  /\ \A b \in DOMAIN buf_tallocs : Roomy(buf_tallocs[b], (n - 1) * most)
  BY DEF Room
<1>2. \A b \in DOMAIN buf_tallocs : Allocator(buf_tallocs[b])
  BY MemoryParts, KnownGraph DEF IInv, WhilePlanning
<1>3. PICK p, q : p = (n - 1) * most /\ q = n * most
  OBVIOUS
<1>4. p \in Nat /\ q \in Nat /\ p <= q
  <2>1. most \in Nat
    BY <1>1 DEF Limits
  <2>2. q = p + most /\ p \in Nat
    BY <1>3, <2>1
  <2> QED  BY <2>1, <2>2
<1>5. \A b \in DOMAIN buf_tallocs : Roomy(buf_tallocs[b], q)
  BY <1>1, <1>2, <1>3, <1>4, RoomyMore
<1> QED  BY <1>1, <1>3, <1>5 DEF Room

\* ggml_dyn_tallocr_alloc has room for the tensor, and for those to come.
LEMMA RoomTaken ==
    ASSUME IInv, pc = "allocate", TakeMemory(i), Room(graph, i - 1, buf_tallocs)
    PROVE  Room(graph, i, buf_tallocs')
<1>1. PICK t, g, B, C : t = i /\ g = graph /\ B = buf_tallocs /\ C = buf_tallocs'
  OBVIOUS
<1>2. /\ IsGraph(g) /\ t \in DOMAIN g /\ g[t].buffer \in DOMAIN B
      /\ \A b \in DOMAIN B : Allocator(B[b])
  <2>1. /\ IsGraph(graph) /\ i \in DOMAIN graph /\ graph[i].buffer \in Buffers
        /\ Memory(graph, Done, buf_tallocs, allocated, addr)
    BY KnownGraph DEF IInv, Planning, WhilePlanning, AtTensor
  <2> QED  BY <1>1, <2>1, MemoryParts, BufferNumbers
<1>3. PICK most : Limits(g, most) /\ \A b \in DOMAIN B : Roomy(B[b], (t - 1) * most)
  BY <1>1 DEF Room
<1>4. PICK b, s, l : b = g[t].buffer /\ s = AllocSize(g[t]) /\ l = Len(g)
  OBVIOUS
<1>5. C = [B EXCEPT ![b] = Alloc(B[b], s).alloc]
  BY <1>1, <1>4 DEF TakeMemory
<1>6. /\ s \in Nat /\ s >= 1 /\ Aligned(s) \in Nat /\ s <= Aligned(s)
      /\ t \in Nat \ {0} /\ l \in Nat /\ t <= l
  BY <1>2, <1>4, TensorTypes
<1>7. Aligned(s) <= Endless
  BY <1>2, <1>4, EndlessMeans
<1>8. PICK D : D = Alloc(B[b], s).alloc
  OBVIOUS
<1>9. PICK c, o : Reserved(B[b], D, c, o, Aligned(s)) /\ Grown(B[b], D, c, o, Aligned(s))
  BY <1>2, <1>4, <1>6, <1>7, <1>8, AllocMeans
<1>10. PICK n, p, q : n = Aligned(s) /\ p = (t - 1) * most /\ q = t * most
  OBVIOUS
<1>11. /\ most \in Nat /\ n <= most /\ l * most <= Endless
  BY <1>2, <1>3, <1>4, <1>10 DEF Limits
<1>12. p \in Nat /\ q \in Nat /\ q = p + most /\ q <= l * most
  BY <1>6, <1>10, <1>11
<1>13. n \in Nat /\ n >= 1 /\ p + n <= q /\ q <= Endless /\ p + n <= Endless /\ p <= q
  <2>1. n \in Nat /\ n >= 1
    BY <1>6, <1>10
  <2>2. p + n <= q
    BY <1>11, <1>12, <2>1
  <2>3. l * most \in Nat /\ Endless \in Nat
    BY <1>6, <1>11, ChunkAssumption
  <2>4. q <= Endless
    BY <1>11, <1>12, <2>3
  <2> QED  BY <1>12, <2>1, <2>2, <2>3, <2>4
<1>14. Roomy(D, p + n)
  <2>1. Allocator(B[b]) /\ Roomy(B[b], p)
    BY <1>2, <1>3, <1>4, <1>10
  <2>2. Reserved(B[b], D, c, o, n) /\ Grown(B[b], D, c, o, n)
    BY <1>9, <1>10
  <2> QED  BY <1>12, <1>13, <2>1, <2>2, RoomyTaken
<1>15. Roomy(D, q)
  <2>1. Allocator(D)
    BY <1>9 DEF Reserved
  <2>2. p + n \in Nat
    BY <1>12, <1>13
  <2> QED  BY <1>12, <1>13, <1>14, <2>1, <2>2, RoomyMore
<1>16. ASSUME NEW d \in DOMAIN B
       PROVE  Roomy(C[d], q)
  <2>1. CASE d = b
    <3>1. C[d] = D
      BY <1>2, <1>4, <1>5, <1>8, <2>1
    <3> QED  BY <1>15, <3>1
  <2>2. CASE d # b
    <3>1. C[d] = B[d]
      BY <1>5, <2>2
    <3>2. Roomy(B[d], p) /\ Allocator(B[d])
      BY <1>2, <1>3, <1>10
    <3> QED  BY <1>12, <1>13, <3>1, <3>2, RoomyMore
  <2> QED  BY <2>1, <2>2
<1>17. DOMAIN C = DOMAIN B
  BY <1>5
<1> QED  BY <1>1, <1>3, <1>10, <1>16, <1>17 DEF Room

LEMMA InitRoom == Init => RoomInv
<1> SUFFICES ASSUME Init
             PROVE  RoomInv
  OBVIOUS
<1>1. \A b \in Buffers : buf_tallocs[b] = <<>>
  BY DEF Init
<1>2. Len(<<>>) <= MaxChunks
  BY ChunkAssumption
<1>3. ~Planning
  BY DEF Init, Planning
<1> QED  BY <1>1, <1>2, <1>3 DEF RoomInv, NeverOutOfChunks

LEMMA BeginRoom ==
    ASSUME IInv, NEW g \in Coming, NEW operation, Begin(g, operation)
    PROVE  RoomInv'
<1>1. IsGraph(g)
  BY ComingKnown, KnownGraph
<1>2. /\ graph' = g /\ pc' = "allocate" /\ i' = 1 /\ n_buffers' = n_buffers
      /\ buf_tallocs' = [b \in Buffers |-> <<>>]
  BY DEF Begin, Clear
<1>3. Done' = 0 /\ Buffers' = Buffers
  BY <1>2 DEF Done, Buffers
<1>4. PICK most : Limits(g, most)
  BY <1>1, LimitExists
<1>5. 0 * most = 0
  BY <1>4 DEF Limits
<1>6. Roomy(<<>>, 0)
  BY ChunkAssumption DEF Roomy
<1>7. PICK C : C = buf_tallocs'
  OBVIOUS
<1>8. Room(g, 0, C)
  BY <1>2, <1>4, <1>5, <1>6, <1>7 DEF Room
<1>9. NeverOutOfChunks'
  <2>1. \A b \in Buffers : Len(C[b]) <= MaxChunks
    BY <1>2, <1>6, <1>7 DEF Roomy
  <2> QED  BY <1>3, <1>7, <2>1 DEF NeverOutOfChunks
<1> QED  BY <1>2, <1>3, <1>7, <1>8, <1>9 DEF RoomInv

LEMMA AllocateRoom ==
    ASSUME IInv, RoomInv, AllocateTensor
    PROVE  RoomInv'
<1>1. /\ pc = "allocate" /\ AllocateNode(i) /\ n_buffers' = n_buffers /\ graph' = graph
  BY DEF AllocateTensor
<1>2. Planning /\ Done = i - 1
  BY <1>1 DEF Planning, Done
<1>3. Room(graph, i - 1, buf_tallocs)
  BY <1>2 DEF RoomInv
<1>4. i \in Nat \ {0}
  BY <1>1, <1>2, KnownGraph, TensorTypes DEF IInv, WhilePlanning, AtTensor
<1>5. Room(graph, i, buf_tallocs')
  <2>1. CASE TakeMemory(i)
    BY <1>1, <1>3, <2>1, RoomTaken
  <2>2. CASE GivesBack
    <3>1. Room(graph, i, buf_tallocs)
      BY <1>2, <1>3, <1>4, RoomMore
    <3> QED  BY <1>2, <2>2, <3>1, RoomKept
  <2> QED  BY <1>1, <2>1, <2>2, AllocateNodeMemory
<1>6. Done' = i /\ IInv'
  BY AllocateStep
<1>7. DOMAIN buf_tallocs' = Buffers'
  BY <1>6 DEF IInv
<1>8. PICK C : C = buf_tallocs'
  OBVIOUS
<1>9. \A b \in DOMAIN C : Len(C[b]) <= MaxChunks
  BY <1>5, <1>8 DEF Room, Roomy
<1>10. NeverOutOfChunks'
  BY <1>7, <1>8, <1>9 DEF NeverOutOfChunks
<1> QED  BY <1>1, <1>5, <1>6, <1>10 DEF RoomInv

LEMMA UpdateRoom ==
    ASSUME IInv, RoomInv, UpdateParents
    PROVE  RoomInv'
<1>1. pc = "update" /\ pc' = pc /\ i' = i /\ graph' = graph
  BY DEF UpdateParents
<1>2. Planning /\ Done = i /\ Done' = i
  BY <1>1 DEF Planning, Done
<1>3. IInv' /\ GivesBack
  BY UpdateStep
<1>4. Room(graph, i, buf_tallocs')
  BY <1>2, <1>3, RoomKept DEF RoomInv
<1>5. PICK C : C = buf_tallocs'
  OBVIOUS
<1>6. \A b \in DOMAIN C : Len(C[b]) <= MaxChunks
  BY <1>4, <1>5 DEF Room, Roomy
<1>7. NeverOutOfChunks'
  BY <1>3, <1>5, <1>6 DEF IInv, NeverOutOfChunks
<1> QED  BY <1>1, <1>2, <1>4, <1>7 DEF RoomInv

\* The other steps do not change the allocators.
LEMMA SameRoom ==
    ASSUME RoomInv, UNCHANGED <<n_buffers, buf_tallocs>>,
           Planning' => Planning /\ Done' = Done /\ graph' = graph
    PROVE  RoomInv'
<1>1. Buffers' = Buffers
  BY DEF Buffers
<1>2. NeverOutOfChunks'
  BY <1>1 DEF RoomInv, NeverOutOfChunks
<1> QED  BY <1>2 DEF RoomInv

LEMMA NextRoom == IInv /\ RoomInv /\ [Next]_vars => RoomInv'
<1> SUFFICES ASSUME IInv, RoomInv, [Next]_vars
             PROVE  RoomInv'
  OBVIOUS
<1>1. CASE Reserve
  <2>1. PICK g \in Coming : Begin(g, "reserve")
    BY <1>1 DEF Reserve
  <2> QED  BY <2>1, BeginRoom
<1>2. CASE AllocGraphAgain
  <2>1. PICK g \in Coming : Begin(g, "alloc")
    BY <1>2 DEF AllocGraphAgain
  <2> QED  BY <2>1, BeginRoom
<1>3. CASE AllocGraph
  <2>1. UNCHANGED <<n_buffers, buf_tallocs>> /\ pc' = "ready"
    BY <1>3 DEF AllocGraph
  <2> QED  BY <2>1, SameRoom DEF Planning
<1>4. CASE AllocateTensor
  BY <1>4, AllocateRoom
<1>5. CASE UpdateParents
  BY <1>5, UpdateRoom
<1>6. CASE NextNode
  <2>1. UNCHANGED <<n_buffers, buf_tallocs, graph>> /\ pc = "update"
    BY <1>6 DEF NextNode
  <2>2. Planning /\ Done = i
    BY <2>1 DEF Planning, Done
  <2>3. Done' = i
    BY <1>6, NextStep
  <2> QED  BY <2>1, <2>2, <2>3, SameRoom
<1>7. CASE ReserveBuffers
  <2>1. UNCHANGED <<n_buffers, buf_tallocs>> /\ pc' \in {"ready", "idle"}
    BY <1>7 DEF ReserveBuffers
  <2> QED  BY <2>1, SameRoom DEF Planning
<1>8. CASE UNCHANGED vars
  <2>1. UNCHANGED <<n_buffers, buf_tallocs, graph, pc, i>>
    BY <1>8 DEF vars
  <2>2. Done' = Done /\ Planning' = Planning
    BY <2>1 DEF Done, Planning
  <2> QED  BY <2>1, <2>2, SameRoom
<1> QED  BY <1>1, <1>2, <1>3, <1>4, <1>5, <1>6, <1>7, <1>8 DEF Next


-----------------------------------------------------------------------------
(* The theorems *)

LEMMA InitIInv == Init => IInv
<1> SUFFICES ASSUME Init
             PROVE  IInv
  OBVIOUS
<1>1. n_buffers \in Nat
  BY BuffersAssumption DEF Init
<1>2. <<>> \in Seq(Nat)
  OBVIOUS
<1>3. pc = "idle" /\ planned = <<>>
  BY DEF Init
<1>4. DOMAIN buf_tallocs = Buffers /\ buffers = [b \in Buffers |-> <<>>]
  BY DEF Init
<1> QED  BY <1>1, <1>2, <1>3, <1>4 DEF IInv, Planning

LEMMA NextIInv == IInv /\ [Next]_vars => IInv'
<1> SUFFICES ASSUME IInv, [Next]_vars
             PROVE  IInv'
  OBVIOUS
<1>1. CASE Reserve
  <2>1. PICK g \in Coming : Begin(g, "reserve")
    BY <1>1 DEF Reserve
  <2> QED  BY <2>1, BeginStep
<1>2. CASE AllocGraphAgain
  <2>1. PICK g \in Coming : Begin(g, "alloc")
    BY <1>2 DEF AllocGraphAgain
  <2> QED  BY <2>1, BeginStep
<1>3. CASE AllocGraph
  BY <1>3, AllocGraphStep
<1>4. CASE AllocateTensor
  BY <1>4, AllocateStep
<1>5. CASE UpdateParents
  BY <1>5, UpdateStep
<1>6. CASE NextNode
  BY <1>6, NextStep
<1>7. CASE ReserveBuffers
  BY <1>7, ReserveStep
<1>8. CASE UNCHANGED vars
  <2>1. /\ n_buffers' = n_buffers /\ graph' = graph /\ planned' = planned /\ plan' = plan
        /\ buffers' = buffers /\ buf_tallocs' = buf_tallocs /\ n_children' = n_children
        /\ n_views' = n_views /\ allocated' = allocated /\ addr' = addr /\ pc' = pc
        /\ i' = i /\ j' = j
    BY <1>8 DEF vars, planVars, hashVars
  <2>2. Buffers' = Buffers /\ Done' = Done /\ Pending' = Pending /\ Planning' = Planning
        /\ AtTensor' = AtTensor
    BY <2>1 DEF Buffers, Done, Pending, Planning, AtTensor
  <2>3. WhilePlanning' = WhilePlanning
    BY <2>1, <2>2 DEF WhilePlanning
  <2>4. PlanHolds' = PlanHolds
    BY <2>1, <2>2 DEF PlanHolds
  <2> QED  BY <2>1, <2>2, <2>3, <2>4 DEF IInv
<1> QED  BY <1>1, <1>2, <1>3, <1>4, <1>5, <1>6, <1>7, <1>8 DEF Next

\* While a graph is planned its tensors share the memory as Memory says, the
\* counters count the uses that are left, and every plan that is made is good:
\* ggml_gallocr_alloc_graph_impl and ggml_gallocr_reserve_n_impl.
THEOREM AllocatorInvariant == Spec => []IInv
<1>1. Init => IInv
  BY InitIInv
<1>2. IInv /\ [Next]_vars => IInv'
  BY NextIInv
<1> QED  BY <1>1, <1>2, PTL DEF Spec

LEMMA OneOwner == IInv => BytesHaveOneOwner
<1> SUFFICES ASSUME IInv, pc \in {"allocate", "update"},
                    NEW b \in Buffers, NEW c \in DOMAIN buf_tallocs[b]
             PROVE  LET free == buf_tallocs[b][c].free
                        owners == {t \in allocated : addr[t].buffer = b /\ addr[t].chunk = c}
                        FreeBlock(k) == Bytes(free[k].offset, free[k].size)
                        Owned(t) == Bytes(addr[t].offset, Aligned(AllocSize(graph[t])))
                    IN  /\ \A k, l \in DOMAIN free : k < l =>
                               free[k].offset + free[k].size < free[l].offset
                        /\ \A t, u \in owners : t # u => Owned(t) \cap Owned(u) = {}
                        /\ \A t \in owners : \A k \in DOMAIN free :
                               Owned(t) \cap FreeBlock(k) = {}
                        /\ \A x \in Bytes(0, buf_tallocs[b][c].max_size) :
                               \/ \E t \in owners : x \in Owned(t)
                               \/ \E k \in DOMAIN free : x \in FreeBlock(k)
  BY DEF BytesHaveOneOwner
<1> DEFINE free == buf_tallocs[b][c].free
           owners == {t \in allocated : addr[t].buffer = b /\ addr[t].chunk = c}
           FreeBlock(k) == Bytes(free[k].offset, free[k].size)
           Owned(t) == Bytes(addr[t].offset, Aligned(AllocSize(graph[t])))
           max == buf_tallocs[b][c].max_size
<1>1. /\ IsGraph(graph) /\ Memory(graph, Done, buf_tallocs, allocated, addr)
  BY KnownGraph DEF IInv, Planning, WhilePlanning
<1>2. Shared(graph, buf_tallocs, allocated, addr) /\ \A t \in allocated : t \in 1 .. Done
  BY <1>1, MemoryParts
<1>3. b \in DOMAIN buf_tallocs /\ Allocator(buf_tallocs[b])
  BY <1>2, BufferNumbers DEF Shared
<1>4. /\ FreeList(free) /\ max \in Nat
      /\ \A k \in DOMAIN free : free[k].offset \in Nat /\ free[k].size \in Nat
  BY <1>3, ChunkTypes
<1>5. ASSUME NEW t \in owners
      PROVE  /\ t \in DOMAIN graph /\ addr[t].offset \in Nat
             /\ Aligned(AllocSize(graph[t])) \in Nat
             /\ \A x : x \in Owned(t) <=> x \in Nat /\ Owns(graph, addr, t, b, c, x)
  <2>1. t \in DOMAIN graph
    <3>1. PICK m, l, d : m = i /\ l = Len(graph) /\ d = Done
      OBVIOUS
    <3>2. l \in Nat /\ DOMAIN graph = 1 .. l
      BY <1>1, <3>1 DEF IsGraph
    <3>3. m \in 1 .. l
      BY <3>1, <3>2 DEF IInv, Planning, WhilePlanning, AtTensor, Nodes
    <3>4. d = m \/ d = m - 1
      BY <3>1 DEF Done
    <3>5. t \in 1 .. d
      BY <1>2, <3>1
    <3> QED  BY <3>2, <3>3, <3>4, <3>5
  <2>2. addr[t].offset \in Nat
    BY <1>2 DEF Shared, Placed
  <2>3. Aligned(AllocSize(graph[t])) \in Nat
    BY <1>1, <2>1, TensorTypes
  <2>4. \A x : x \in Owned(t) <=> x \in Nat /\ InBlock(x, addr[t].offset, Aligned(AllocSize(graph[t])))
    BY <2>2, <2>3 DEF InBlock, Bytes
  <2> QED  BY <2>1, <2>2, <2>3, <2>4 DEF Owns
<1>6. \A k \in DOMAIN free : \A x : x \in FreeBlock(k) <=> x \in Nat /\ InBlock(x, free[k].offset, free[k].size)
  BY <1>4 DEF InBlock, Bytes
<1>7. \A x : x \in Nat /\ FreeByte(buf_tallocs, b, c, x) <=> \E k \in DOMAIN free : x \in FreeBlock(k)
  BY <1>3, <1>6 DEF FreeByte, IsFree
<1>8. \A x \in Bytes(0, max) : x \in Nat /\ UsedByte(buf_tallocs, b, c, x)
  BY <1>3, <1>4 DEF Bytes, UsedByte
<1> HIDE DEF free, max, FreeBlock, Owned
<1>9. \A k, l \in DOMAIN free : k < l => free[k].offset + free[k].size < free[l].offset
  BY <1>4 DEF FreeList
<1>10. ASSUME NEW t \in owners, NEW u \in owners, t # u
       PROVE  Owned(t) \cap Owned(u) = {}
  BY <1>2, <1>5, <1>10 DEF Shared
<1>11. ASSUME NEW t \in owners, NEW k \in DOMAIN free
       PROVE  Owned(t) \cap FreeBlock(k) = {}
  BY <1>2, <1>5, <1>7 DEF Shared
<1>12. ASSUME NEW x \in Bytes(0, max)
       PROVE  \/ \E t \in owners : x \in Owned(t)
              \/ \E k \in DOMAIN free : x \in FreeBlock(k)
  <2>1. CASE FreeByte(buf_tallocs, b, c, x)
    BY <1>7, <1>8, <2>1
  <2>2. CASE ~FreeByte(buf_tallocs, b, c, x)
    <3>1. PICK t \in allocated : Owns(graph, addr, t, b, c, x)
      BY <1>2, <1>8, <2>2 DEF Shared
    <3>2. t \in owners
      BY <3>1 DEF Owns
    <3> QED  BY <1>5, <1>8, <3>1, <3>2
  <2> QED  BY <2>1, <2>2
<1> QED  BY <1>9, <1>10, <1>11, <1>12 DEF free, max, FreeBlock, Owned

\* While a graph is planned, each byte of a chunk is free or belongs to one
\* tensor: ggml_dyn_tallocr_alloc, ggml_dyn_tallocr_free_bytes and what
\* ggml_gallocr_allocate_node and ggml_gallocr_free_node do with them.
THEOREM BytesOwned == Spec => []BytesHaveOneOwner
BY AllocatorInvariant, OneOwner, PTL

\* Two graphs of the same shape are the same but for the sizes of their tensors.
LEMMA ShapeMeans ==
    ASSUME NEW g, NEW h, IsGraph(g), IsGraph(h), SameShape(g, h)
    PROVE  /\ DOMAIN g = DOMAIN h /\ Len(g) = Len(h) /\ Nodes(g) = Nodes(h)
           /\ \A t \in DOMAIN g :
                 /\ g[t].op = h[t].op /\ g[t].src = h[t].src /\ g[t].output = h[t].output
                 /\ (IsView(g[t]) <=> IsView(h[t])) /\ (NeedsMemory(g, t) <=> NeedsMemory(h, t))
                 /\ Holder(g, t) = Holder(h, t)
                 /\ AllocSize(g[t]) <= AllocSize(h[t])
           /\ \A t, u \in DOMAIN g : h[t].nbytes = h[u].nbytes => g[t].nbytes = g[u].nbytes
           /\ \A t, n \in DOMAIN g : /\ NeededAfter(g, t, n) <=> NeededAfter(h, t, n)
                                     /\ ReadBy(g, t, n) <=> ReadBy(h, t, n)
<1>1. /\ DOMAIN g = DOMAIN h
      /\ \A t \in DOMAIN g :
             /\ [g[t] EXCEPT !.nbytes = h[t].nbytes, !.extra = h[t].extra] = h[t]
             /\ AllocSize(g[t]) <= AllocSize(h[t])
      /\ \A t, u \in DOMAIN g : h[t].nbytes = h[u].nbytes => g[t].nbytes = g[u].nbytes
  BY DEF SameShape
<1>2. g \in Seq(Tensors) /\ h \in Seq(Tensors)
  BY DEF IsGraph
<1>3. Len(g) = Len(h) /\ DOMAIN g = 1 .. Len(g) /\ Len(g) \in Nat
  <2>1. PICK l, m : l = Len(g) /\ m = Len(h)
    OBVIOUS
  <2>2. l \in Nat /\ m \in Nat /\ DOMAIN g = 1 .. l /\ DOMAIN h = 1 .. m
    BY <1>2, <2>1
  <2>3. 1 .. l = 1 .. m
    BY <1>1, <2>2
  <2>4. l <= m /\ m <= l
    BY <2>2, <2>3, l \in 1 .. l \/ l = 0, m \in 1 .. m \/ m = 0
  <2> QED  BY <2>1, <2>2, <2>4
<1>4. ASSUME NEW t \in DOMAIN g
      PROVE  /\ g[t].op = h[t].op /\ g[t].src = h[t].src /\ g[t].output = h[t].output
             /\ g[t].view_src = h[t].view_src /\ g[t].external = h[t].external
  <2>1. g[t] \in Tensors
    BY <1>2
  <2>2. PICK a, e : a = g[t] /\ e = [a EXCEPT !.nbytes = h[t].nbytes, !.extra = h[t].extra]
    OBVIOUS
  <2>3. /\ a.op = e.op /\ a.src = e.src /\ a.output = e.output
        /\ a.view_src = e.view_src /\ a.external = e.external
    BY <2>1, <2>2 DEF Tensors
  <2>4. e = h[t]
    BY <1>1, <2>2
  <2> QED  BY <2>2, <2>3, <2>4
<1>5. Nodes(g) = Nodes(h)
  BY <1>1, <1>4 DEF Nodes, Leafs
<1>6. \A t \in DOMAIN g : /\ IsView(g[t]) <=> IsView(h[t])
                          /\ NeedsMemory(g, t) <=> NeedsMemory(h, t)
                          /\ Holder(g, t) = Holder(h, t)
  BY <1>4 DEF IsView, NeedsMemory, Holder
<1>7. \A t \in DOMAIN g : \A k \in DOMAIN g[t].src : g[t].src[k] \in DOMAIN g
  BY SourceTypes
<1>8. ASSUME NEW n \in DOMAIN g, NEW t
      PROVE  ReadBy(g, t, n) <=> ReadBy(h, t, n)
  BY <1>4, <1>6, <1>7 DEF ReadBy
<1>9. ASSUME NEW n \in DOMAIN g, NEW t \in DOMAIN g
      PROVE  NeededAfter(g, t, n) <=> NeededAfter(h, t, n)
  <2>1. \A m \in n + 1 .. Len(g) : m \in DOMAIN g
    BY <1>3
  <2>2. NeededAfter(g, t, n) <=> g[t].output \/ \E m \in n + 1 .. Len(g) : ReadBy(g, t, m)
    BY DEF NeededAfter, ReadBy
  <2>3. NeededAfter(h, t, n) <=> h[t].output \/ \E m \in n + 1 .. Len(h) : ReadBy(h, t, m)
    BY DEF NeededAfter, ReadBy
  <2> QED  BY <1>3, <1>4, <1>8, <2>1, <2>2, <2>3
<1> QED  BY <1>1, <1>3, <1>4, <1>5, <1>6, <1>8, <1>9

LEMMA OverlapMore ==
    ASSUME NEW a, NEW b, a.offset \in Int, b.offset \in Int,
           NEW s \in Nat, NEW r \in Nat, NEW s2 \in Nat, NEW r2 \in Nat, s <= s2, r <= r2,
           Overlap(a, s, b, r)
    PROVE  Overlap(a, s2, b, r2)
<1>1. PICK x : x \in Bytes(a.offset, s) /\ x \in Bytes(b.offset, r)
  BY DEF Overlap
<1>2. x \in Bytes(a.offset, s2) /\ x \in Bytes(b.offset, r2)
  BY <1>1 DEF Bytes
<1> QED  BY <1>2 DEF Overlap

\* The address of a tensor in the plan.
LEMMA PlanTypes ==
    ASSUME PlanHolds, NEW t \in DOMAIN planned
    PROVE  plan[t].offset \in Int
<1>1. CASE NeedsMemory(planned, t)
  BY <1>1 DEF PlanHolds
<1>2. CASE ~NeedsMemory(planned, t)
  <2>1. plan[t] = Invalid
    BY <1>2 DEF PlanHolds
  <2> QED  BY <2>1 DEF Invalid
<1> QED  BY <1>1, <1>2

LEMMA Unharmed == IInv => NothingOverwritten
<1> SUFFICES ASSUME IInv, pc = "ready", SameShape(graph, planned),
                    NEW n \in Nodes(graph), ~IsView(graph[n])
             PROVE  Harmless(graph, plan, n)
  BY DEF NothingOverwritten, Sound
<1>1. PlanHolds /\ IsGraph(planned) /\ IsGraph(graph)
  BY KnownGraph DEF IInv, PlanHolds
<1>2. /\ DOMAIN graph = DOMAIN planned /\ Nodes(graph) = Nodes(planned)
      /\ \A t \in DOMAIN graph :
            /\ graph[t].op = planned[t].op
            /\ (IsView(graph[t]) <=> IsView(planned[t]))
            /\ (NeedsMemory(graph, t) <=> NeedsMemory(planned, t))
            /\ AllocSize(graph[t]) <= AllocSize(planned[t])
      /\ \A t, u \in DOMAIN graph :
            planned[t].nbytes = planned[u].nbytes => graph[t].nbytes = graph[u].nbytes
      /\ \A t, m \in DOMAIN graph :
            /\ NeededAfter(graph, t, m) <=> NeededAfter(planned, t, m)
            /\ ReadBy(graph, t, m) <=> ReadBy(planned, t, m)
  BY <1>1, ShapeMeans
<1>3. n \in DOMAIN graph /\ Spares(planned, plan, n)
  BY <1>1, <1>2 DEF PlanHolds, Nodes
<1>4. n \in Nat /\ n <= Len(graph) /\ DOMAIN graph = 1 .. Len(graph) /\ Len(graph) \in Nat
  BY <1>1, <1>3, TensorTypes
<1> SUFFICES ASSUME NEW t \in 1 .. n - 1, ~IsView(graph[t]), ~graph[t].external,
                    Overlap(plan[t], graph[t].nbytes, plan[n], AllocSize(graph[n]))
             PROVE  /\ ~NeededAfter(graph, t, n)
                    /\ ReadBy(graph, t, n) => /\ graph[n].op = "inplace"
                                              /\ plan[t] = plan[n]
                                              /\ graph[t].nbytes = graph[n].nbytes
  BY DEF Harmless
<1>5. t \in DOMAIN graph
  BY <1>4
<1>6. NeedsMemory(planned, t)
  BY <1>2, <1>5 DEF NeedsMemory
<1>7. Overlap(plan[t], AllocSize(planned[t]), plan[n], AllocSize(planned[n]))
  <2>1. plan[t].offset \in Int /\ plan[n].offset \in Int
    BY <1>1, <1>2, <1>3, <1>5, PlanTypes
  <2>2. PICK s, r, s2, r2, a : /\ s = graph[t].nbytes /\ r = AllocSize(graph[n])
                               /\ s2 = AllocSize(planned[t]) /\ r2 = AllocSize(planned[n])
                               /\ a = AllocSize(graph[t])
    OBVIOUS
  <2>3. s \in Nat /\ r \in Nat /\ s2 \in Nat /\ r2 \in Nat /\ a \in Nat /\ s <= a
    BY <1>1, <1>2, <1>3, <1>5, <2>2, TensorTypes
  <2>4. a <= s2 /\ r <= r2
    BY <1>2, <1>3, <1>5, <2>2
  <2>5. s <= s2
    BY <2>3, <2>4
  <2> QED  BY <2>1, <2>2, <2>3, <2>4, <2>5, OverlapMore
<1>8. /\ ~NeededAfter(planned, t, n)
      /\ ReadBy(planned, t, n) => /\ planned[n].op = "inplace"
                                  /\ plan[t] = plan[n]
                                  /\ planned[t].nbytes = planned[n].nbytes
  BY <1>3, <1>6, <1>7 DEF Spares
<1> QED  BY <1>2, <1>3, <1>5, <1>8

\* A graph that gets a plan made for its shape computes nothing over what is
\* read later: ggml_gallocr_allocate_node takes the place of a source, and
\* ggml_gallocr_free_node gives memory back, only when no one needs it.
THEOREM GraphUnharmed == Spec => []NothingOverwritten
BY AllocatorInvariant, Unharmed, PTL

LEMMA Inside == IInv => InsideBuffers
<1> SUFFICES ASSUME IInv, pc = "ready", SameShape(graph, planned),
                    NEW t \in DOMAIN graph, ~IsView(graph[t]), ~graph[t].external
             PROVE  /\ plan[t].chunk \in DOMAIN buffers[plan[t].buffer]
                    /\ plan[t].offset + AllocSize(graph[t])
                           <= buffers[plan[t].buffer][plan[t].chunk]
  BY DEF InsideBuffers
<1>1. PlanHolds /\ IsGraph(planned) /\ IsGraph(graph)
  BY KnownGraph DEF IInv, PlanHolds
<1>2. /\ t \in DOMAIN planned /\ NeedsMemory(planned, t)
      /\ AllocSize(graph[t]) <= AllocSize(planned[t])
  <2>1. /\ DOMAIN graph = DOMAIN planned
        /\ NeedsMemory(graph, t) <=> NeedsMemory(planned, t)
        /\ AllocSize(graph[t]) <= AllocSize(planned[t])
    BY <1>1, ShapeMeans
  <2> QED  BY <2>1 DEF NeedsMemory
<1>3. PICK b, c, o, r, s : /\ b = plan[t].buffer /\ c = plan[t].chunk /\ o = plan[t].offset
                           /\ r = AllocSize(graph[t]) /\ s = AllocSize(planned[t])
  OBVIOUS
<1>4. b \in Buffers /\ c \in DOMAIN buffers[b] /\ o \in Nat /\ o + s <= buffers[b][c]
  BY <1>1, <1>2, <1>3 DEF PlanHolds
<1>5. r \in Nat /\ s \in Nat /\ r <= s
  BY <1>1, <1>2, <1>3, TensorTypes
<1>6. buffers[b][c] \in Nat
  <2>1. buffers[b] \in Seq(Nat)
    BY <1>4 DEF IInv
  <2> QED  BY <1>4, <2>1
<1>7. o + r <= buffers[b][c]
  BY <1>4, <1>5, <1>6
<1> QED  BY <1>3, <1>4, <1>7

\* Its tensors lie in the buffers, whether ggml_gallocr_reserve_n_impl has
\* allocated them again or has kept them.
THEOREM TensorsInside == Spec => []InsideBuffers
BY AllocatorInvariant, Inside, PTL

\* The last chunk always has room for another tensor, so that
\* ggml_dyn_tallocr_alloc never needs more than GGML_VBUFFER_MAX_CHUNKS of them,
\* whatever ggml_dyn_tallocr_free_bytes has given back and merged in between.
THEOREM ChunksSuffice == Spec => []NeverOutOfChunks
<1>1. Init => RoomInv
  BY InitRoom
<1>2. IInv /\ RoomInv /\ [Next]_vars => RoomInv'
  BY NextRoom
<1>3. RoomInv => NeverOutOfChunks
  BY DEF RoomInv
<1> QED  BY <1>1, <1>2, <1>3, AllocatorInvariant, PTL DEF Spec

\* What Counts and Memory say of types.
Walk ==
    /\ DOMAIN addr = DOMAIN graph
    /\ DOMAIN n_children = DOMAIN graph /\ DOMAIN n_views = DOMAIN graph
    /\ \A t \in DOMAIN graph : n_children[t] \in Nat /\ n_views[t] \in Nat
    /\ allocated \subseteq DOMAIN graph
    /\ \A t \in allocated : /\ addr[t].buffer \in Buffers
                            /\ addr[t].chunk \in DOMAIN buf_tallocs[addr[t].buffer]
                            /\ addr[t].offset \in Nat
    /\ \A b \in Buffers : DOMAIN buf_tallocs[b] = 1 .. Len(buf_tallocs[b])
                          /\ Len(buf_tallocs[b]) \in Nat
    /\ i \in Nat

LEMMA WalkTypes == IInv /\ Planning => Walk
<1> SUFFICES ASSUME IInv, Planning
             PROVE  Walk
  OBVIOUS
<1>1. /\ IsGraph(graph) /\ AtTensor /\ Counts(graph, Pending, n_children, n_views)
      /\ Memory(graph, Done, buf_tallocs, allocated, addr)
  BY KnownGraph DEF IInv, WhilePlanning
<1>2. DOMAIN buf_tallocs = Buffers
  BY BufferNumbers
<1>3. Pending \in SUBSET Uses(graph)
  BY DEF Pending
<1>4. \A t \in DOMAIN graph : n_children[t] \in Nat /\ n_views[t] \in Nat
  BY <1>1, <1>3, CountTypes DEF Counts
<1>5. PICK m, l, d : m = i /\ l = Len(graph) /\ d = Done
  OBVIOUS
<1>6. /\ l \in Nat /\ DOMAIN graph = 1 .. l
      /\ m \in 1 .. l \/ (pc = "buffers" /\ m = l + 1)
  <2>1. l \in Nat /\ DOMAIN graph = 1 .. l
    BY <1>1, <1>5 DEF IsGraph
  <2> QED  BY <1>1, <1>5, <2>1 DEF Planning, AtTensor, Nodes
<1>7. d \in 0 .. l
  <2>1. d = m - 1 \/ (pc # "buffers" /\ d = m)
    BY <1>5 DEF Done
  <2> QED  BY <1>6, <2>1
<1>8. ASSUME NEW t \in allocated
      PROVE  /\ t \in DOMAIN graph
             /\ addr[t].buffer \in Buffers
             /\ addr[t].chunk \in DOMAIN buf_tallocs[addr[t].buffer]
             /\ addr[t].offset \in Nat
  <2>1. t \in 1 .. d /\ NeedsMemory(graph, t)
    BY <1>1, <1>5, MemoryParts
  <2>2. t \in DOMAIN graph /\ t <= d
    BY <1>6, <1>7, <2>1
  <2>3. Placed(graph, buf_tallocs, addr, t)
    BY <1>1, <1>5, <2>1, <2>2, MemoryParts
  <2> QED  BY <1>2, <2>2, <2>3 DEF Placed
<1>9. \A b \in Buffers : /\ DOMAIN buf_tallocs[b] = 1 .. Len(buf_tallocs[b])
                         /\ Len(buf_tallocs[b]) \in Nat
  BY <1>1, <1>2, MemoryParts, ChunkTypes
<1>10. i \in Nat
  BY <1>5, <1>6
<1> QED  BY <1>1, <1>4, <1>8, <1>9, <1>10, MemoryParts DEF Walk, Counts

LEMMA WalkTypesNext == (IInv /\ Planning => Walk)'
BY WalkTypes, PTL

LEMMA InitTypes == Init => TypeOK
<1> SUFFICES ASSUME Init
             PROVE  TypeOK
  OBVIOUS
<1>1. DOMAIN <<>> = {} /\ <<>> \in Seq(Nat)
  OBVIOUS
<1> QED  BY <1>1, CallsAssumption DEF Init, NewHash, TypeOK

\* The addresses that ggml_gallocr_allocate_node gives.
LEMMA AllocateAddresses ==
    ASSUME IInv, TypeOK, AllocateTensor, Walk', NeverOutOfChunks'
    PROVE  \A t \in DOMAIN addr' : addr'[t] \in Addresses \cup {Invalid}
<1>1. pc = "allocate" /\ AllocateNode(i) /\ n_buffers' = n_buffers
  BY DEF AllocateTensor
<1>2. Walk /\ IsGraph(graph) /\ i \in DOMAIN graph
  BY <1>1, WalkTypes, KnownGraph DEF IInv, Planning, WhilePlanning, AtTensor
<1>3. \A t \in DOMAIN addr : addr[t] \in Addresses \cup {Invalid}
  BY DEF TypeOK
<1>4. CASE addr' = addr
  BY <1>3, <1>4
<1>5. CASE Reusable(i) # {} /\ TakePlace(i, graph[i].src[Min(Reusable(i))])
  <2> DEFINE k == Min(Reusable(i))
             p == graph[i].src[k]
  <2>1. k \in Reusable(i)
    <3>1. graph[i].src \in Seq(Nat)
      BY <1>2, TensorTypes
    <3>2. Reusable(i) \subseteq DOMAIN graph[i].src /\ DOMAIN graph[i].src \subseteq Nat
      BY <3>1 DEF Reusable
    <3> QED  BY <1>5, <3>2, MinMeans
  <2>2. p \in allocated
    BY <2>1 DEF Reusable, CanReuse
  <2>3. p \in DOMAIN addr
    BY <1>2, <2>2 DEF Walk
  <2>4. addr' = [addr EXCEPT ![i] = addr[p]]
    BY <1>5 DEF TakePlace
  <2> HIDE DEF p
  <2> QED  BY <1>3, <2>3, <2>4
<1>6. CASE TakeMemory(i)
  <2> DEFINE b == graph[i].buffer
             a == Alloc(buf_tallocs[b], AllocSize(graph[i])).addr
             r == [buffer |-> b, chunk |-> a.chunk, offset |-> a.offset]
  <2>1. addr' = [addr EXCEPT ![i] = r] /\ allocated' = allocated \cup {i}
    BY <1>6 DEF TakeMemory
  <2>2. DOMAIN addr = DOMAIN graph
    BY <1>2 DEF Walk
  <2>3. addr'[i] = r
    BY <1>2, <2>1, <2>2
  <2>4. Buffers' = Buffers
    BY <1>1 DEF Buffers
  <2>5. PICK C : C = buf_tallocs'
    OBVIOUS
  <2>6. /\ r.buffer \in Buffers /\ r.chunk \in DOMAIN C[r.buffer] /\ r.offset \in Nat
        /\ \A d \in Buffers : DOMAIN C[d] = 1 .. Len(C[d]) /\ Len(C[d]) \in Nat
    <3>1. i \in allocated'
      BY <2>1
    <3> HIDE DEF r
    <3> QED  BY <2>3, <2>4, <2>5, <3>1 DEF Walk
  <2>7. \A d \in Buffers : Len(C[d]) <= MaxChunks
    BY <2>4, <2>5 DEF NeverOutOfChunks
  <2>8. r.chunk \in 1 .. MaxChunks
    <3> HIDE DEF r
    <3> QED  BY <2>6, <2>7, ChunkAssumption
  <2>9. r \in Addresses
    <3>1. r.buffer = b /\ r.chunk = a.chunk /\ r.offset = a.offset
      OBVIOUS
    <3> HIDE DEF a, b
    <3> QED  BY <2>6, <2>8, <3>1 DEF Addresses
  <2> HIDE DEF r
  <2> QED  BY <1>3, <2>1, <2>9
<1> QED  BY <1>1, <1>4, <1>5, <1>6 DEF AllocateNode

LEMMA NextTypes ==
    ASSUME IInv, TypeOK, [Next]_vars, IInv', NeverOutOfChunks'
    PROVE  TypeOK'
<1>1. n_buffers' = n_buffers /\ Buffers' = Buffers /\ Addresses' = Addresses
  BY DEF Next, vars, Reserve, AllocGraphAgain, Begin, AllocGraph, AllocateTensor, UpdateParents,
         NextNode, ReserveBuffers, Buffers, Addresses
<1>2. /\ DOMAIN buf_tallocs' = Buffers' /\ DOMAIN buffers' = Buffers'
      /\ \A b \in Buffers' : buffers'[b] \in Seq(Nat)
      /\ pc' \in {"idle", "allocate", "update", "buffers", "ready"}
  BY DEF IInv
<1>3. /\ call' \in {"none", "reserve", "alloc"} /\ j' \in Nat /\ calls' \in 0 .. MaxCalls
  <2>1. \A g, operation : Begin(g, operation) =>
           call' = operation /\ j' = 1 /\ calls' = calls + 1 /\ calls < MaxCalls
    BY DEF Begin
  <2>2. CASE Reserve \/ AllocGraphAgain
    <3>1. call' \in {"reserve", "alloc"} /\ j' = 1 /\ calls' = calls + 1 /\ calls < MaxCalls
      BY <2>1, <2>2 DEF Reserve, AllocGraphAgain
    <3> QED  BY <3>1, CallsAssumption DEF TypeOK
  <2>3. CASE AllocGraph
    <3>1. call' = "alloc" /\ j' = j /\ calls' = calls + 1 /\ calls < MaxCalls
      BY <2>3 DEF AllocGraph
    <3> QED  BY <3>1, CallsAssumption DEF TypeOK
  <2>4. CASE ~(Reserve \/ AllocGraphAgain \/ AllocGraph)
    <3>1. call' = call /\ calls' = calls /\ j' \in {j, j + 1, 1}
      BY <2>4 DEF Next, vars, AllocateTensor, UpdateParents, NextNode, ReserveBuffers
    <3> QED  BY <3>1 DEF TypeOK
  <2> QED  BY <2>2, <2>3, <2>4
<1>4. DOMAIN plan' = DOMAIN planned' /\ \A t \in DOMAIN plan' : plan'[t] \in Addresses \cup {Invalid}
  <2>1. CASE ReserveBuffers
    <3>1. planned' = graph /\ plan' = addr /\ pc = "buffers"
      BY <2>1 DEF ReserveBuffers
    <3>2. DOMAIN addr = DOMAIN graph
      BY <3>1, WalkTypes DEF Walk, Planning
    <3> QED  BY <3>1, <3>2 DEF TypeOK
  <2>2. CASE ~ReserveBuffers
    <3>1. planned' = planned /\ plan' = plan
      BY <2>2 DEF Next, vars, planVars, Reserve, AllocGraphAgain, Begin, AllocGraph,
                  AllocateTensor, UpdateParents, NextNode
    <3> QED  BY <3>1 DEF TypeOK
  <2> QED  BY <2>1, <2>2
<1>5. /\ DOMAIN n_children' = DOMAIN addr' /\ DOMAIN n_views' = DOMAIN addr'
      /\ \A t \in DOMAIN addr' : n_children'[t] \in Nat /\ n_views'[t] \in Nat
      /\ allocated' \subseteq DOMAIN addr' /\ i' \in Nat
  <2>1. CASE Planning'
    BY <2>1, WalkTypesNext DEF Walk
  <2>2. CASE ~Planning'
    <3>1. UNCHANGED hashVars /\ i' = i
      BY <2>2 DEF Next, vars, Reserve, AllocGraphAgain, Begin, AllocGraph, AllocateTensor,
                  UpdateParents, NextNode, ReserveBuffers, Planning
    <3> QED  BY <3>1 DEF TypeOK, hashVars
  <2> QED  BY <2>1, <2>2
<1>6. \A t \in DOMAIN addr' : addr'[t] \in Addresses \cup {Invalid}
  <2>1. CASE Reserve \/ AllocGraphAgain
    <3>1. \A g, operation : Begin(g, operation) => addr' = [t \in DOMAIN g |-> Invalid]
      BY DEF Begin, Clear
    <3>2. \E g : addr' = [t \in DOMAIN g |-> Invalid]
      BY <2>1, <3>1 DEF Reserve, AllocGraphAgain
    <3> QED  BY <3>2
  <2>2. CASE AllocateTensor
    <3>1. Planning'
      BY <2>2 DEF AllocateTensor, Planning
    <3>2. Walk'
      BY <3>1, WalkTypesNext
    <3> QED  BY <2>2, <3>2, AllocateAddresses
  <2>3. CASE ~(Reserve \/ AllocGraphAgain \/ AllocateTensor)
    <3>1. addr' = addr
      BY <2>3 DEF Next, vars, hashVars, AllocGraph, UpdateParents, NextNode, ReserveBuffers
    <3> QED  BY <3>1 DEF TypeOK
  <2> QED  BY <2>1, <2>2, <2>3
<1> QED  BY <1>1, <1>2, <1>3, <1>4, <1>5, <1>6 DEF TypeOK

\* The type invariant of the graph allocator.
THEOREM TypeCorrect == Spec => []TypeOK
<1>1. Init => TypeOK
  BY InitTypes
<1>2. IInv /\ IInv' /\ NeverOutOfChunks' /\ TypeOK /\ [Next]_vars => TypeOK'
  BY NextTypes
<1> QED  BY <1>1, <1>2, AllocatorInvariant, ChunksSuffice, PTL DEF Spec
=============================================================================
