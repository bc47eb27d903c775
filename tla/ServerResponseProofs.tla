------------------------ MODULE ServerResponseProofs ------------------------
(***************************************************************************)
(* Theorems about ServerResponse, for any readers with finitely many tasks *)
(* each, any bound on the numbers of results and on the results that wait. *)
(* They follow from one inductive invariant, IInv.                         *)
(***************************************************************************)
EXTENDS ServerResponse, FiniteSetTheorems, SequenceTheorems,
        WellFoundedInduction, TLAPS

-----------------------------------------------------------------------------
(* Sequences that are thinned out *)

\* The sequence p consists of the first n elements of q but those at the places
\* R, in their order.
Thinned(p, q, R, n) ==
    \E g \in [1 .. Len(p) -> 1 .. n] :
        /\ \A i, j \in 1 .. Len(p) : i < j => g[i] < g[j]
        /\ \A i \in 1 .. Len(p) : p[i] = q[g[i]] /\ g[i] \notin R
        /\ \A k \in 1 .. n : k \in R \/ \E i \in 1 .. Len(p) : g[i] = k

\* A set of natural numbers that is not empty has a least element.
LEMMA LeastNumber ==
    ASSUME NEW S \in SUBSET Nat, S # {}
    PROVE  \E n \in S : \A m \in S : n <= m
<1>1. PICK n \in S : \A m \in S : ~(<<m, n>> \in OpToRel(<, Nat))
  BY NatLessThanWellFounded, WFMin
<1>2. \A m \in S : <<m, n>> \in OpToRel(<, Nat) <=> m < n
  BY Zenon DEF OpToRel
<1>3. \A m \in S : ~(m < n)
  BY <1>1, <1>2, Zenon
<1> QED  BY <1>3

\* A set of numbers with 0 and with the successors of its elements has them all.
LEMMA Induct ==
    ASSUME NEW T \in SUBSET Nat, 0 \in T, \A n \in Nat : n \in T => n + 1 \in T
    PROVE  T = Nat
<1> DEFINE S == Nat \ T
<1> SUFFICES ASSUME S # {}
             PROVE  FALSE
  OBVIOUS
<1>1. PICK n \in S : \A m \in S : n <= m
  BY LeastNumber
<1>2. n \in Nat /\ n # 0 /\ n \notin T
  OBVIOUS
<1>3. n - 1 \in Nat /\ ~(n <= n - 1)
  BY <1>2
<1>4. n - 1 \in T
  BY <1>1, <1>3
<1>5. (n - 1) + 1 = n
  BY <1>2
<1> QED  BY <1>2, <1>3, <1>4, <1>5

\* RemoveAt thins out a sequence.
LEMMA RemoveAtThins ==
    ASSUME NEW S, NEW q \in Seq(S), NEW k \in 1 .. Len(q)
    PROVE  /\ RemoveAt(q, k) \in Seq(S)
           /\ Thinned(RemoveAt(q, k), q, {k}, Len(q))
<1> DEFINE p == RemoveAt(q, k)
           g == [i \in 1 .. Len(p) |-> IF i < k THEN i ELSE i + 1]
<1>1. Len(q) \in Nat /\ k \in Nat
  OBVIOUS
<1>2. /\ SubSeq(q, 1, k - 1) \in Seq(S)
      /\ Len(SubSeq(q, 1, k - 1)) = k - 1
      /\ \A i \in 1 .. k - 1 : SubSeq(q, 1, k - 1)[i] = q[i]
  <2>1. \A i \in 1 .. k - 1 : q[i] \in S
    BY <1>1
  <2> QED  BY <1>1, <2>1, SubSeqProperties
<1>3. /\ SubSeq(q, k + 1, Len(q)) \in Seq(S)
      /\ Len(SubSeq(q, k + 1, Len(q))) = Len(q) - k
      /\ \A i \in 1 .. Len(q) - k : SubSeq(q, k + 1, Len(q))[i] = q[i + k]
  <2>1. \A i \in k + 1 .. Len(q) : q[i] \in S
    BY <1>1
  <2> QED  BY <1>1, <2>1, SubSeqProperties
<1>4. /\ p \in Seq(S)
      /\ Len(p) = Len(q) - 1
      /\ \A i \in 1 .. Len(p) : p[i] = IF i < k THEN q[i] ELSE q[i + 1]
  <2>1. /\ p \in Seq(S)
        /\ Len(p) = (k - 1) + (Len(q) - k)
        /\ \A i \in 1 .. Len(p) :
              p[i] = IF i <= k - 1 THEN SubSeq(q, 1, k - 1)[i]
                     ELSE SubSeq(q, k + 1, Len(q))[i - (k - 1)]
    <3>1. ASSUME NEW a \in Seq(S), NEW b \in Seq(S)
          PROVE  /\ a \o b \in Seq(S)
                 /\ Len(a \o b) = Len(a) + Len(b)
                 /\ \A i \in 1 .. Len(a) + Len(b) :
                       (a \o b)[i] = IF i <= Len(a) THEN a[i] ELSE b[i - Len(a)]
      BY ConcatProperties
    <3>2. p = SubSeq(q, 1, k - 1) \o SubSeq(q, k + 1, Len(q))
      BY DEF RemoveAt
    <3> HIDE DEF p
    <3>3. ASSUME NEW a \in Seq(S), NEW b \in Seq(S), p = a \o b,
                 Len(a) = k - 1, Len(b) = Len(q) - k
          PROVE  /\ p \in Seq(S)
                 /\ Len(p) = (k - 1) + (Len(q) - k)
                 /\ \A i \in 1 .. Len(p) :
                       p[i] = IF i <= k - 1 THEN a[i] ELSE b[i - (k - 1)]
      <4>1. p \in Seq(S) /\ Len(p) = (k - 1) + (Len(q) - k)
        BY <3>1, <3>3
      <4>2. ASSUME NEW i \in 1 .. Len(p)
            PROVE  p[i] = IF i <= k - 1 THEN a[i] ELSE b[i - (k - 1)]
        <5>1. i \in 1 .. Len(a) + Len(b)
          BY <3>3, <4>1
        <5>2. (a \o b)[i] = IF i <= Len(a) THEN a[i] ELSE b[i - Len(a)]
          BY <3>1, <5>1, Zenon
        <5> QED  BY <3>3, <5>2, Zenon
      <4> QED  BY <4>1, <4>2
    <3> QED  BY <1>2, <1>3, <3>2, <3>3
  <2> HIDE DEF p
  <2>2. Len(p) = Len(q) - 1
    BY <1>1, <2>1
  <2>3. ASSUME NEW i \in 1 .. Len(p)
        PROVE  p[i] = IF i < k THEN q[i] ELSE q[i + 1]
    <3>1. CASE i < k
      <4>1. i <= k - 1 /\ i \in 1 .. k - 1
        BY <1>1, <2>2, <3>1
      <4> QED  BY <1>2, <2>1, <3>1, <4>1
    <3>2. CASE ~(i < k)
      <4>1. ~(i <= k - 1) /\ i - (k - 1) \in 1 .. Len(q) - k /\ i - (k - 1) + k = i + 1
        BY <1>1, <2>2, <3>2
      <4> QED  BY <1>3, <2>1, <3>2, <4>1
    <3> QED  BY <3>1, <3>2
  <2> QED  BY <2>1, <2>2, <2>3
<1> HIDE DEF p
<1>5. /\ g \in [1 .. Len(p) -> 1 .. Len(q)]
      /\ \A i, j \in 1 .. Len(p) : i < j => g[i] < g[j]
      /\ \A i \in 1 .. Len(p) : p[i] = q[g[i]] /\ g[i] \notin {k}
  BY <1>1, <1>4
<1>6. ASSUME NEW j \in 1 .. Len(q), j # k
      PROVE  \E i \in 1 .. Len(p) : g[i] = j
  <2>1. CASE j < k
    BY <1>1, <1>4, <2>1
  <2>2. CASE ~(j < k)
    <3>1. j - 1 \in 1 .. Len(p) /\ g[j - 1] = j
      BY <1>1, <1>4, <1>6, <2>2
    <3> QED  BY <3>1
  <2> QED  BY <2>1, <2>2
<1>7. \A j \in 1 .. Len(q) : j \in {k} \/ \E i \in 1 .. Len(p) : g[i] = j
  BY <1>6
<1> HIDE DEF g
<1>8. Thinned(p, q, {k}, Len(q))
  BY <1>5, <1>7, Zenon DEF Thinned
<1> QED  BY <1>4, <1>8 DEF p

\* The recursive function of Without.
Keeps(q, t, n, f) ==
    f = [i \in 0 .. n |-> IF i = 0 THEN <<>>
                          ELSE IF q[i].id = t THEN f[i - 1]
                          ELSE Append(f[i - 1], q[i])]

\* There is such a function.
LEMMA KeepsExists ==
    ASSUME NEW q, NEW t, NEW n \in Nat
    PROVE  \E f : Keeps(q, t, n, f)
<1> DEFINE T == {m \in Nat : \E f : Keeps(q, t, m, f)}
<1>1. 0 \in T
  <2> DEFINE f == [i \in 0 .. 0 |-> <<>>]
  <2>1. Keeps(q, t, 0, f)
    BY DEF Keeps
  <2> QED  BY <2>1
<1>2. ASSUME NEW m \in Nat, m \in T
      PROVE  m + 1 \in T
  <2>1. PICK f : Keeps(q, t, m, f)
    BY <1>2
  <2> DEFINE g == [i \in 0 .. m + 1 |->
                      IF i = m + 1
                      THEN IF q[i].id = t THEN f[m] ELSE Append(f[m], q[i])
                      ELSE f[i]]
  <2>2. \A i \in 0 .. m : g[i] = f[i]
    OBVIOUS
  <2>3. \A i \in 0 .. m + 1 :
           g[i] = IF i = 0 THEN <<>>
                  ELSE IF q[i].id = t THEN g[i - 1]
                  ELSE Append(g[i - 1], q[i])
    <3> SUFFICES ASSUME NEW i \in 0 .. m + 1
                 PROVE  g[i] = IF i = 0 THEN <<>>
                               ELSE IF q[i].id = t THEN g[i - 1]
                               ELSE Append(g[i - 1], q[i])
      OBVIOUS
    <3>1. CASE i = m + 1
      <4>1. g[i - 1] = f[m] /\ i # 0
        BY <2>2, <3>1
      <4> QED  BY <3>1, <4>1
    <3>2. CASE i # m + 1 /\ i # 0
      <4>1. i \in 0 .. m /\ i - 1 \in 0 .. m
        BY <3>2
      <4>2. g[i] = f[i] /\ g[i - 1] = f[i - 1]
        BY <2>2, <4>1
      <4> QED  BY <2>1, <3>2, <4>1, <4>2 DEF Keeps
    <3>3. CASE i = 0
      <4>1. g[i] = f[0] /\ f[0] = <<>>
        BY <2>1, <2>2, <3>3 DEF Keeps
      <4> QED  BY <3>3, <4>1
    <3> QED  BY <3>1, <3>2, <3>3
  <2> HIDE DEF g
  <2>4. g = [i \in 0 .. m + 1 |-> g[i]]
    BY DEF g
  <2>5. Keeps(q, t, m + 1, g)
    BY <2>3, <2>4 DEF Keeps
  <2> QED  BY <2>5
<1> HIDE DEF T
<1>3. T = Nat
  <2>1. T \in SUBSET Nat
    BY DEF T
  <2> QED  BY <1>1, <1>2, <2>1, Induct
<1> QED  BY <1>3 DEF T

\* Without takes the results of a task out.
LEMMA WithoutThins ==
    ASSUME NEW S, NEW q \in Seq(S), NEW t
    PROVE  /\ Without(q, t) \in Seq(S)
           /\ Thinned(Without(q, t), q, {i \in 1 .. Len(q) : q[i].id = t}, Len(q))
<1> DEFINE R == {i \in 1 .. Len(q) : q[i].id = t}
           N == Len(q)
           kept == CHOOSE f : Keeps(q, t, N, f)
<1>1. N \in Nat
  OBVIOUS
<1>2. Keeps(q, t, N, kept)
  BY <1>1, KeepsExists
<1>3. Without(q, t) = kept[N]
  BY Zenon DEF Without, Keeps
<1>4. /\ kept[0] = <<>>
      /\ \A i \in 1 .. N : kept[i] = IF q[i].id = t THEN kept[i - 1]
                                     ELSE Append(kept[i - 1], q[i])
  <2> HIDE DEF kept
  <2>1. kept = [i \in 0 .. N |-> IF i = 0 THEN <<>>
                                 ELSE IF q[i].id = t THEN kept[i - 1]
                                 ELSE Append(kept[i - 1], q[i])]
    BY <1>2, Zenon DEF Keeps
  <2>2. \A i \in 0 .. N : kept[i] = IF i = 0 THEN <<>>
                                    ELSE IF q[i].id = t THEN kept[i - 1]
                                    ELSE Append(kept[i - 1], q[i])
    BY <2>1, Zenon
  <2> QED  BY <1>1, <2>2
<1> HIDE DEF kept
<1> DEFINE T == {n \in Nat : n <= N => kept[n] \in Seq(S) /\ Thinned(kept[n], q, R, n)}
<1>5. 0 \in T
  <2>1. Thinned(<<>>, q, R, 0)
    <3>1. ASSUME NEW p, Len(p) = 0
          PROVE  Thinned(p, q, R, 0)
      <4> DEFINE g == [i \in 1 .. 0 |-> 0]
      <4> HIDE DEF R
      <4>1. g \in [1 .. 0 -> 1 .. 0] /\ 1 .. 0 = {}
        OBVIOUS
      <4> HIDE DEF g
      <4>2. g \in [1 .. Len(p) -> 1 .. 0] /\ 1 .. Len(p) = {}
        BY <3>1, <4>1
      <4> QED  BY <4>1, <4>2 DEF Thinned
    <3>2. Len(<<>>) = 0
      OBVIOUS
    <3> QED  BY <3>1, <3>2, Zenon
  <2>2. <<>> \in Seq(S)
    OBVIOUS
  <2> HIDE DEF R
  <2> QED  BY <1>4, <2>1, <2>2
<1>6. ASSUME NEW n \in Nat, n \in T
      PROVE  n + 1 \in T
  <2> SUFFICES ASSUME n + 1 <= N
               PROVE  /\ kept[n + 1] \in Seq(S)
                      /\ Thinned(kept[n + 1], q, R, n + 1)
    OBVIOUS
  <2>1. n <= N /\ n + 1 \in 1 .. N /\ (n + 1) - 1 = n
    BY <1>1
  <2>2. kept[n] \in Seq(S) /\ Thinned(kept[n], q, R, n)
    BY <1>6, <2>1
  <2>3. kept[n + 1] = IF q[n + 1].id = t THEN kept[n] ELSE Append(kept[n], q[n + 1])
    BY <1>4, <2>1
  <2>4. q[n + 1] \in S
    BY <2>1
  <2>5. n + 1 \in R <=> q[n + 1].id = t
    BY <2>1
  <2>6. ASSUME NEW p, p = kept[n]
        PROVE  /\ n + 1 \in R => Thinned(p, q, R, n + 1)
               /\ n + 1 \notin R => Thinned(Append(p, q[n + 1]), q, R, n + 1)
    <3>1. p \in Seq(S) /\ Thinned(p, q, R, n)
      BY <2>2, <2>6
    <3> HIDE DEF R
    <3>2. PICK g \in [1 .. Len(p) -> 1 .. n] :
            /\ \A i, j \in 1 .. Len(p) : i < j => g[i] < g[j]
            /\ \A i \in 1 .. Len(p) : p[i] = q[g[i]] /\ g[i] \notin R
            /\ \A k \in 1 .. n : k \in R \/ \E i \in 1 .. Len(p) : g[i] = k
      BY <3>1 DEF Thinned
    <3>3. Len(p) \in Nat
      BY <3>1
    <3>4. ASSUME n + 1 \in R
          PROVE  Thinned(p, q, R, n + 1)
      <4>1. g \in [1 .. Len(p) -> 1 .. n + 1]
        BY <3>2
      <4>2. \A k \in 1 .. n + 1 : k \in R \/ \E i \in 1 .. Len(p) : g[i] = k
        BY <3>2, <3>4
      <4> QED  BY <3>2, <4>1, <4>2 DEF Thinned
    <3>5. ASSUME n + 1 \notin R
          PROVE  Thinned(Append(p, q[n + 1]), q, R, n + 1)
      <4> DEFINE p1 == Append(p, q[n + 1])
                 g1 == [i \in 1 .. Len(p) + 1 |-> IF i = Len(p) + 1 THEN n + 1 ELSE g[i]]
      <4>1. /\ Len(p1) = Len(p) + 1
            /\ \A i \in 1 .. Len(p) : p1[i] = p[i]
            /\ p1[Len(p) + 1] = q[n + 1]
        BY <2>4, <3>1, AppendProperties
      <4> HIDE DEF p1
      <4>2. \A i \in 1 .. Len(p) : g1[i] = g[i] /\ g1[i] \in 1 .. n
        BY <3>2, <3>3
      <4>3. g1[Len(p) + 1] = n + 1
        BY <3>3
      <4>4. g1 \in [1 .. Len(p1) -> 1 .. n + 1]
        BY <3>2, <3>3, <4>1
      <4> HIDE DEF g1
      <4>5. ASSUME NEW i \in 1 .. Len(p1), NEW j \in 1 .. Len(p1), i < j
            PROVE  g1[i] < g1[j]
        <5>1. i \in 1 .. Len(p)
          BY <3>3, <4>1, <4>5
        <5>2. CASE j = Len(p) + 1
          BY <4>2, <4>3, <5>1, <5>2
        <5>3. CASE j \in 1 .. Len(p)
          BY <3>2, <4>2, <4>5, <5>1, <5>3
        <5> QED  BY <3>3, <4>1, <5>2, <5>3
      <4>6. ASSUME NEW i \in 1 .. Len(p1)
            PROVE  p1[i] = q[g1[i]] /\ g1[i] \notin R
        <5>1. CASE i = Len(p) + 1
          BY <3>5, <4>1, <4>3, <5>1
        <5>2. CASE i \in 1 .. Len(p)
          BY <3>2, <4>1, <4>2, <5>2
        <5> QED  BY <3>3, <4>1, <5>1, <5>2
      <4>7. ASSUME NEW k \in 1 .. n + 1
            PROVE  k \in R \/ \E i \in 1 .. Len(p1) : g1[i] = k
        <5>1. CASE k = n + 1
          <6>1. Len(p) + 1 \in 1 .. Len(p1)
            BY <3>3, <4>1
          <6> QED  BY <4>3, <5>1, <6>1
        <5>2. CASE k \in 1 .. n
          <6>1. 1 .. Len(p) \subseteq 1 .. Len(p1)
            BY <3>3, <4>1
          <6> QED  BY <3>2, <4>2, <5>2, <6>1
        <5> QED  BY <5>1, <5>2
      <4>8. Thinned(p1, q, R, n + 1)
        BY <4>4, <4>5, <4>6, <4>7 DEF Thinned
      <4> QED  BY <4>8 DEF p1
    <3> QED  BY <3>4, <3>5
  <2>7. kept[n + 1] \in Seq(S)
    BY <2>2, <2>3, <2>4
  <2> QED  BY <2>3, <2>5, <2>6, <2>7
<1> HIDE DEF T
<1>7. N \in T
  <2>1. T \in SUBSET Nat
    BY DEF T
  <2> QED  BY <1>1, <1>5, <1>6, <2>1, Induct
<1> QED  BY <1>1, <1>3, <1>7 DEF T

-----------------------------------------------------------------------------
(* The results of one task *)

\* Where the results of the task t are in the queue q.
Places(q, t) == {i \in DOMAIN q : q[i].id = t}

\* The results of q at the places P lead, one after another, from the number a
\* to the number b.
Leads(P, q, a, b) ==
    /\ P = {} => a = b
    /\ \A i \in P :
          /\ (\A j \in P : i <= j) => q[i].n = Successor(a)
          /\ (\A j \in P : j <= i) => q[i].n = b
          /\ \A j \in P :
                (i < j /\ \A k \in P : k <= i \/ j <= k) => q[j].n = Successor(q[i].n)

\* The elements of a thinned sequence are in the order of the originals.
LEMMA ThinnedMap ==
    ASSUME NEW S, NEW q \in Seq(S), NEW p \in Seq(S), NEW R, Thinned(p, q, R, Len(q))
    PROVE  \E g \in [DOMAIN p -> DOMAIN q] :
              /\ \A i, j \in DOMAIN p : i <= j <=> g[i] <= g[j]
              /\ \A i, j \in DOMAIN p : i < j <=> g[i] < g[j]
              /\ \A i \in DOMAIN p : p[i] = q[g[i]] /\ g[i] \notin R
              /\ \A k \in DOMAIN q : k \in R \/ \E i \in DOMAIN p : g[i] = k
<1>1. /\ DOMAIN p = 1 .. Len(p) /\ Len(p) \in Nat
      /\ DOMAIN q = 1 .. Len(q) /\ Len(q) \in Nat
  OBVIOUS
<1>2. PICK g \in [1 .. Len(p) -> 1 .. Len(q)] :
        /\ \A i, j \in 1 .. Len(p) : i < j => g[i] < g[j]
        /\ \A i \in 1 .. Len(p) : p[i] = q[g[i]] /\ g[i] \notin R
        /\ \A k \in 1 .. Len(q) : k \in R \/ \E i \in 1 .. Len(p) : g[i] = k
  BY Zenon DEF Thinned
<1>3. ASSUME NEW i \in 1 .. Len(p), NEW j \in 1 .. Len(p)
      PROVE  (i <= j <=> g[i] <= g[j]) /\ (i < j <=> g[i] < g[j])
  <2>1. g[i] \in Nat /\ g[j] \in Nat
    BY <1>1
  <2>2. CASE i < j
    BY <1>1, <1>2, <2>1, <2>2
  <2>3. CASE j < i
    BY <1>1, <1>2, <2>1, <2>3
  <2>4. CASE i = j
    BY <2>1, <2>4
  <2> QED  BY <1>1, <2>2, <2>3, <2>4
<1>4. /\ g \in [DOMAIN p -> DOMAIN q]
      /\ \A i, j \in DOMAIN p : i <= j <=> g[i] <= g[j]
      /\ \A i, j \in DOMAIN p : i < j <=> g[i] < g[j]
  BY <1>1, <1>2, <1>3, Zenon
<1>5. /\ \A i \in DOMAIN p : p[i] = q[g[i]] /\ g[i] \notin R
      /\ \A k \in DOMAIN q : k \in R \/ \E i \in DOMAIN p : g[i] = k
  BY <1>1, <1>2, Zenon
<1> QED  BY <1>4, <1>5, Zenon

\* What remains of the results of a task leads where it led.
LEMMA ThinnedLeads ==
    ASSUME NEW S, NEW q \in Seq(S), NEW p \in Seq(S), NEW R, Thinned(p, q, R, Len(q)),
           NEW t, NEW a, NEW b, Leads(Places(q, t) \ R, q, a, b)
    PROVE  Leads(Places(p, t), p, a, b)
<1> DEFINE P == Places(p, t)
           Q == Places(q, t) \ R
<1>1. PICK g \in [DOMAIN p -> DOMAIN q] :
              /\ \A i, j \in DOMAIN p : i <= j <=> g[i] <= g[j]
              /\ \A i, j \in DOMAIN p : i < j <=> g[i] < g[j]
              /\ \A i \in DOMAIN p : p[i] = q[g[i]] /\ g[i] \notin R
              /\ \A k \in DOMAIN q : k \in R \/ \E i \in DOMAIN p : g[i] = k
  BY ThinnedMap
<1>2. \A i \in P : i \in DOMAIN p /\ g[i] \in Q /\ p[i] = q[g[i]]
  BY <1>1, Zenon DEF Places
<1>3. \A k \in Q : \E i \in P : g[i] = k
  BY <1>1, Zenon DEF Places
<1> HIDE DEF P, Q
<1>4. Leads(Q, q, a, b)
  BY DEF Q
<1>5. P = {} => a = b
  <2>1. P = {} => Q = {}
    BY <1>3, Zenon
  <2> QED  BY <1>4, <2>1, Zenon DEF Leads
<1>6. ASSUME NEW i \in P
      PROVE  /\ (\A j \in P : i <= j) => p[i].n = Successor(a)
             /\ (\A j \in P : j <= i) => p[i].n = b
  <2>1. (\A j \in P : i <= j) => \A k \in Q : g[i] <= k
    <3> SUFFICES ASSUME \A j \in P : i <= j, NEW k \in Q
                 PROVE  g[i] <= k
      OBVIOUS
    <3>1. PICK j \in P : g[j] = k
      BY <1>3
    <3>2. i \in DOMAIN p /\ j \in DOMAIN p /\ i <= j
      BY <1>2
    <3> QED  BY <1>1, <3>1, <3>2
  <2>2. (\A j \in P : j <= i) => \A k \in Q : k <= g[i]
    <3> SUFFICES ASSUME \A j \in P : j <= i, NEW k \in Q
                 PROVE  k <= g[i]
      OBVIOUS
    <3>1. PICK j \in P : g[j] = k
      BY <1>3
    <3>2. i \in DOMAIN p /\ j \in DOMAIN p /\ j <= i
      BY <1>2
    <3> QED  BY <1>1, <3>1, <3>2
  <2>3. g[i] \in Q /\ p[i] = q[g[i]]
    BY <1>2
  <2> HIDE DEF P, Q
  <2> QED  BY <1>4, <2>1, <2>2, <2>3 DEF Leads
<1>7. ASSUME NEW i \in P, NEW j \in P, i < j, \A k \in P : k <= i \/ j <= k
      PROVE  p[j].n = Successor(p[i].n)
  <2>1. \A k \in Q : k <= g[i] \/ g[j] <= k
    <3> SUFFICES ASSUME NEW k \in Q
                 PROVE  k <= g[i] \/ g[j] <= k
      OBVIOUS
    <3>1. PICK l \in P : g[l] = k
      BY <1>3
    <3>2. i \in DOMAIN p /\ j \in DOMAIN p /\ l \in DOMAIN p /\ (l <= i \/ j <= l)
      BY <1>2, <1>7
    <3> QED  BY <1>1, <3>1, <3>2
  <2>2. g[i] < g[j] /\ g[i] \in Q /\ g[j] \in Q
    BY <1>1, <1>2, <1>7, Zenon
  <2>3. q[g[j]].n = Successor(q[g[i]].n)
    BY <1>4, <2>1, <2>2, Zenon DEF Leads
  <2> QED  BY <1>2, <2>3, Zenon
<1>8. Leads(P, p, a, b)
  BY <1>5, <1>6, <1>7, Zenon DEF Leads
<1> QED  BY <1>8 DEF P

\* The results after the first one lead on from its number.
LEMMA RestLeads ==
    ASSUME NEW q, NEW P \in SUBSET Nat, NEW a, NEW b, Leads(P, q, a, b),
           NEW i \in P, \A j \in P : i <= j
    PROVE  Leads(P \ {i}, q, q[i].n, b)
<1>1. P \ {i} = {} => q[i].n = b
  <2>1. P \ {i} = {} => \A j \in P : j <= i
    OBVIOUS
  <2> QED  BY <2>1 DEF Leads
<1>2. ASSUME NEW j \in P \ {i}, \A k \in P \ {i} : j <= k
      PROVE  q[j].n = Successor(q[i].n)
  <2>1. i < j
    OBVIOUS
  <2>2. \A k \in P : k <= i \/ j <= k
    BY <1>2
  <2> QED  BY <2>1, <2>2 DEF Leads
<1>3. ASSUME NEW j \in P \ {i}, \A k \in P \ {i} : k <= j
      PROVE  q[j].n = b
  <2>1. \A k \in P : k <= j
    BY <1>3
  <2> QED  BY <2>1 DEF Leads
<1>4. ASSUME NEW j \in P \ {i}, NEW k \in P \ {i}, j < k,
             \A l \in P \ {i} : l <= j \/ k <= l
      PROVE  q[k].n = Successor(q[j].n)
  <2>1. \A l \in P : l <= j \/ k <= l
    BY <1>4
  <2> QED  BY <1>4, <2>1 DEF Leads
<1> QED  BY <1>1, <1>2, <1>3, <1>4, Zenon DEF Leads

\* Another result leads one further.
LEMMA OneMoreLeads ==
    ASSUME NEW q, NEW p, NEW P \in SUBSET Nat, NEW a, NEW b, Leads(P, q, a, b),
           NEW m \in Nat, \A i \in P : i < m /\ p[i] = q[i], p[m].n = Successor(b)
    PROVE  Leads(P \cup {m}, p, a, Successor(b))
<1> DEFINE Q == P \cup {m}
<1>1. Q # {}
  OBVIOUS
<1>2. ASSUME NEW i \in Q, \A j \in Q : i <= j
      PROVE  p[i].n = Successor(a)
  <2>1. CASE P = {}
    <3>1. i = m /\ a = b
      BY <2>1 DEF Leads
    <3> QED  BY <3>1
  <2>2. CASE P # {}
    <3>1. i \in P /\ \A j \in P : i <= j
      BY <1>2, <2>2
    <3>2. q[i].n = Successor(a)
      BY <3>1, Zenon DEF Leads
    <3> QED  BY <3>1, <3>2
  <2> QED  BY <2>1, <2>2
<1>3. ASSUME NEW i \in Q, \A j \in Q : j <= i
      PROVE  p[i].n = Successor(b)
  <2>1. i = m
    BY <1>3
  <2> QED  BY <2>1
<1>4. ASSUME NEW i \in Q, NEW j \in Q, i < j, \A k \in Q : k <= i \/ j <= k
      PROVE  p[j].n = Successor(p[i].n)
  <2>1. i \in P /\ p[i] = q[i]
    BY <1>4
  <2>2. CASE j = m
    <3>1. \A k \in P : k <= i
      BY <1>4, <2>1, <2>2
    <3>2. q[i].n = b
      BY <2>1, <3>1, Zenon DEF Leads
    <3> QED  BY <2>1, <2>2, <3>2
  <2>3. CASE j \in P
    <3>1. q[j].n = Successor(q[i].n)
      BY <1>4, <2>1, <2>3, Zenon DEF Leads
    <3> QED  BY <2>1, <2>3, <3>1
  <2> QED  BY <2>2, <2>3
<1>5. Leads(Q, p, a, Successor(b))
  BY <1>1, <1>2, <1>3, <1>4, Zenon DEF Leads
<1> QED  BY <1>5

\* Leads only depends on the results at its places.
LEMMA SameLeads ==
    ASSUME NEW q, NEW p, NEW P, NEW a, NEW b, Leads(P, q, a, b), \A i \in P : p[i] = q[i]
    PROVE  Leads(P, p, a, b)
BY Zenon DEF Leads

-----------------------------------------------------------------------------
(* The inductive invariant *)

Waits(r)  == reader[r] \in {"next", "blocked", "chunk"}
Silent(t) == ResultsOf({t}) = {}

\* The tasks that have ended and have no result left to read.
Ended(r) == {t \in TasksOf[r] : t \notin live /\ Silent(t)}

\* Before the tasks are posted, nothing is known of them.
Fresh(r) ==
    reader[r] \in {"new", "post"} =>
        /\ received_count[r] = 0
        /\ \A t \in TasksOf[r] : t \notin live /\ Silent(t) /\ got[t] = sent[t]

\* The ids are registered before the tasks are posted, and until stop().
Registered(r) ==
    /\ reader[r] = "post" \/ Waits(r) => TasksOf[r] \subseteq waiting_task_ids
    /\ reader[r] \in {"new", "clear", "done"} =>
          \A t \in TasksOf[r] : t \notin waiting_task_ids

\* The reader counts tasks that have ended: one for each final result, and the
\* error that ends the response is the result of one more.
Counted(r) ==
    /\ Waits(r) \/ reader[r] = "stop" => received_count[r] <= Cardinality(Ended(r))
    /\ reader[r] = "stop" /\ outcome[r] = "error" =>
          received_count[r] + 1 <= Cardinality(Ended(r))

\* When a reader stops with no outcome, it has counted all its tasks.
Outcomes(r) ==
    /\ reader[r] \in {"new", "post"} \/ Waits(r) => outcome[r] = "none"
    /\ cancelled[r] => reader[r] \in {"clear", "done"}
    /\ reader[r] = "stop" /\ outcome[r] = "none" => ~HasNext(r)
    /\ reader[r] = "clear" => outcome[r] # "none"

Ordered(r) == reader[r] = "post" \/ Waits(r) => \A t \in TasksOf[r] : InOrder(t)

\* stop() leaves no results but of the tasks it has still to remove.
Emptied(r) ==
    /\ reader[r] = "clear" => \A t \in TasksOf[r] : Silent(t) \/ t \in to_clear[r]
    /\ reader[r] = "done" => \A t \in TasksOf[r] : Silent(t)

\* The task ends, or its cancel finds it, or has passed it by.
Met(t) == t \in live => t \in late \/ (t \in cancels /\ t \in hand \cup slots)

\* What still runs for a reader that is done is about to be cancelled, or is late.
Given(r) ==
    reader[r] = "done" =>
        /\ \A t \in TasksOf[r] : Met(t)
        /\ outcome[r] = "none" => ~cancelled[r] /\ \A t \in TasksOf[r] : t \notin live

ReaderInv(r) ==
    /\ Fresh(r) /\ Registered(r) /\ Counted(r) /\ Outcomes(r)
    /\ Ordered(r) /\ Emptied(r) /\ Given(r)

\* A final result or an error is the last result of its task, which has ended.
EndsOnce ==
    \A i \in DOMAIN queue_results : queue_results[i].kind # "partial" =>
        /\ queue_results[i].id \notin live
        /\ \A j \in DOMAIN queue_results :
              queue_results[j].id = queue_results[i].id => j <= i

IInv == TypeOK /\ EndsOnce /\ \A r \in Readers : ReaderInv(r)

-----------------------------------------------------------------------------
(* Initial states and types *)

\* It holds at first.
LEMMA InitInv == Init => IInv
<1> SUFFICES ASSUME Init
             PROVE  IInv
  OBVIOUS
<1> USE DEF Init
<1>1. TypeOK
  <2>1. <<>> \in Seq(Results) /\ 0 \in 0 .. MaxNumber
    BY BoundsAssumption
  <2> QED  BY <2>1 DEF TypeOK, ReaderStates
<1>2. DOMAIN queue_results = {}
  OBVIOUS
<1>3. EndsOnce
  BY <1>2 DEF EndsOnce
<1>4. ASSUME NEW r \in Readers
      PROVE  ReaderInv(r)
  <2>1. TasksOf[r] \subseteq Tasks
    BY TasksAssumption
  <2>2. \A t \in TasksOf[r] : t \notin live /\ Silent(t) /\ got[t] = sent[t]
    BY <1>2, <2>1 DEF Silent, ResultsOf
  <2>3. /\ reader[r] = "new" /\ received_count[r] = 0 /\ outcome[r] = "none"
        /\ cancelled[r] = FALSE /\ waiting_task_ids = {}
    OBVIOUS
  <2> QED  BY <2>2, <2>3 DEF ReaderInv, Fresh, Registered, Counted, Outcomes, Ordered,
                              Emptied, Given, Waits
<1> QED  BY <1>1, <1>3, <1>4 DEF IInv

\* Facts about the tasks of a reader.
LEMMA Owners ==
    /\ \A r \in Readers : TasksOf[r] \subseteq Tasks /\ IsFiniteSet(TasksOf[r])
    /\ \A r, s \in Readers : \A t \in TasksOf[r] : t \in TasksOf[s] => r = s
BY TasksAssumption

\* The first result of a set of tasks.
LEMMA First ==
    ASSUME TypeOK, NEW ids, ResultsOf(ids) # {}
    PROVE  /\ FirstOf(ids) \in ResultsOf(ids)
           /\ \A j \in ResultsOf(ids) : FirstOf(ids) <= j
           /\ FirstOf(ids) \in 1 .. Len(queue_results)
           /\ queue_results[FirstOf(ids)] \in Results
           /\ queue_results[FirstOf(ids)].id \in ids
<1>1. queue_results \in Seq(Results)
  BY DEF TypeOK
<1>2. DOMAIN queue_results = 1 .. Len(queue_results) /\ Len(queue_results) \in Nat
  BY <1>1
<1>3. ResultsOf(ids) \in SUBSET Nat
  BY <1>2 DEF ResultsOf
<1>4. PICK i \in ResultsOf(ids) : \A j \in ResultsOf(ids) : i <= j
  BY <1>3, LeastNumber
<1>5. /\ FirstOf(ids) \in ResultsOf(ids)
      /\ \A j \in ResultsOf(ids) : FirstOf(ids) <= j
  BY <1>4, Zenon DEF FirstOf
<1>6. FirstOf(ids) \in 1 .. Len(queue_results) /\ queue_results[FirstOf(ids)].id \in ids
  BY <1>2, <1>5 DEF ResultsOf
<1> QED  BY <1>1, <1>5, <1>6

\* Every step keeps the types.
LEMMA TypeNext == TypeOK /\ [Next]_vars => TypeOK'
<1> SUFFICES ASSUME TypeOK, [Next]_vars
             PROVE  TypeOK'
  OBVIOUS
<1> USE DEF TypeOK, ReaderStates
<1>1. ASSUME NEW r \in Readers, AddWaiting(r)
      PROVE  TypeOK'
  BY <1>1, Owners DEF AddWaiting, ToWaitFor, mainVars, loopVars
<1>2. ASSUME NEW r \in Readers, PostTasks(r)
      PROVE  TypeOK'
  BY <1>2, Owners DEF PostTasks, sharedVars, loopVars
<1>3. ASSUME NEW r \in Readers, Receive(r)
      PROVE  TypeOK'
  <2> DEFINE i == FirstOf(TasksOf[r])
             res == queue_results[i]
  <2>1. i \in 1 .. Len(queue_results) /\ res \in Results /\ res.id \in TasksOf[r]
    BY <1>3, First DEF Receive
  <2>2. RemoveAt(queue_results, i) \in Seq(Results)
    BY <2>1, RemoveAtThins
  <2>3. res.id \in Tasks /\ res.n \in 0 .. MaxNumber
    BY <2>1 DEF Results
  <2>4. /\ queue_results' = RemoveAt(queue_results, i)
        /\ got' = [got EXCEPT ![res.id] = res.n]
        /\ \/ reader' = [reader EXCEPT ![r] = "stop"]
           \/ reader' = [reader EXCEPT ![r] = "chunk"]
           \/ reader' = [reader EXCEPT ![r] = "next"]
        /\ \/ outcome' = [outcome EXCEPT ![r] = "error"]
           \/ outcome' = outcome
        /\ \/ received_count' = [received_count EXCEPT ![r] = @ + 1]
           \/ received_count' = [received_count EXCEPT ![r] = @]
           \/ received_count' = received_count
        /\ UNCHANGED <<waiting_task_ids, cond, cancelled, to_clear, closed, mainVars>>
    BY <1>3 DEF Receive
  <2> HIDE DEF i, res
  <2>5. got' \in [Tasks -> 0 .. MaxNumber] /\ queue_results' \in Seq(Results)
    BY <2>2, <2>3, <2>4
  <2>6. received_count' \in [Readers -> Nat]
    BY <2>4
  <2>7. reader' \in [Readers -> ReaderStates]
    BY <2>4
  <2>8. outcome' \in [Readers -> {"none", "error", "terminated"}]
    BY <2>4
  <2> QED  BY <2>4, <2>5, <2>6, <2>7, <2>8 DEF mainVars, loopVars
<1>4. ASSUME NEW r \in Readers, Block(r) \/ Woken(r) \/ Complete(r)
      PROVE  TypeOK'
  BY <1>4 DEF Block, Woken, Complete, sharedVars, mainVars, loopVars
<1>5. ASSUME NEW r \in Readers, Timeout(r) \/ NextChunk(r)
      PROVE  TypeOK'
  BY <1>5 DEF Timeout, NextChunk, sharedVars, mainVars, loopVars
<1>6. ASSUME NEW r \in Readers, StopWaiting(r)
      PROVE  TypeOK'
  BY <1>6, Owners DEF StopWaiting, mainVars, loopVars
<1>7. ASSUME NEW r \in Readers, PostCancels(r)
      PROVE  TypeOK'
  BY <1>7, Owners DEF PostCancels, ToCancel, sharedVars, loopVars
<1>8. ASSUME NEW r \in Readers, NEW t \in TasksOf[r], ClearTask(r, t)
      PROVE  TypeOK'
  <2>1. Without(queue_results, t) \in Seq(Results)
    BY WithoutThins
  <2> QED  BY <1>8, <2>1 DEF ClearTask, Cleared, mainVars, loopVars
<1>9. ASSUME NEW r \in Readers, Close(r)
      PROVE  TypeOK'
  BY <1>9 DEF Close, sharedVars, mainVars, loopVars
<1>10. ASSUME NEW t \in Tasks, ProcessCancel(t) \/ TakeTask(t) \/ Defer(t) \/ Launch(t)
       PROVE  TypeOK'
  BY <1>10 DEF ProcessCancel, Released, TakeTask, Defer, Launch, sharedVars, readerVars
<1>11. ASSUME NEW t \in Tasks, NEW kind \in Kinds, Send(t, kind)
       PROVE  TypeOK'
  <2> DEFINE n == Successor(sent[t])
             e == [id |-> t, kind |-> kind, n |-> n]
  <2>1. n \in 0 .. MaxNumber
    BY BoundsAssumption DEF Successor
  <2> HIDE DEF n
  <2>2. e \in Results
    BY <2>1 DEF Results
  <2>3. Append(queue_results, e) \in Seq(Results)
    BY <2>2
  <2>4. /\ sent' = [sent EXCEPT ![t] = n]
        /\ \/ queue_results' = Append(queue_results, e) /\ cond' = {}
           \/ queue_results' = queue_results /\ cond' = cond
        /\ live' \subseteq live /\ hand' \subseteq hand /\ slots' \subseteq slots
        /\ UNCHANGED <<waiting_task_ids, readerVars, late, cancels, got>>
    BY <1>11 DEF Send, n
  <2> HIDE DEF e
  <2> QED  BY <2>1, <2>3, <2>4 DEF readerVars
<1>12. CASE UNCHANGED vars
  BY <1>12 DEF vars, sharedVars, readerVars, mainVars, loopVars
<1> QED
  BY <1>1, <1>2, <1>3, <1>4, <1>5, <1>6, <1>7, <1>8, <1>9, <1>10, <1>11, <1>12
  DEF Next, ReaderStep

-----------------------------------------------------------------------------
(* What a step leaves alone *)

\* A step that leaves everything the invariant says of the task t.
TaskSame(t) ==
    /\ Silent(t)' <=> Silent(t)
    /\ InOrder(t) => InOrder(t)'
    /\ t \in live' <=> t \in live
    /\ Met(t) => Met(t)'
    /\ t \in waiting_task_ids' <=> t \in waiting_task_ids
    /\ got[t] = sent[t] => got'[t] = sent'[t]

\* A step that leaves everything the invariant says of the thread of the reader r.
ThreadSame(r) ==
    /\ reader'[r] = reader[r]
    /\ outcome'[r] = outcome[r]
    /\ cancelled'[r] = cancelled[r]
    /\ received_count'[r] = received_count[r]
    /\ to_clear'[r] = to_clear[r]

\* The results of a task, by their places.
OrderIsLeads ==
    \A t \in Tasks :
        /\ Silent(t) <=> Places(queue_results, t) = {}
        /\ InOrder(t) <=> Leads(Places(queue_results, t), queue_results, got[t], sent[t])
        /\ ResultsOf({t}) = Places(queue_results, t)

\* It is so in every state.
LEMMA OrderView == OrderIsLeads
<1> SUFFICES ASSUME NEW t \in Tasks
             PROVE  /\ Silent(t) <=> Places(queue_results, t) = {}
                    /\ InOrder(t) <=> Leads(Places(queue_results, t), queue_results,
                                            got[t], sent[t])
                    /\ ResultsOf({t}) = Places(queue_results, t)
  BY DEF OrderIsLeads
<1>1. ResultsOf({t}) = Places(queue_results, t)
  BY DEF ResultsOf, Places
<1>2. Silent(t) <=> Places(queue_results, t) = {}
  BY <1>1 DEF Silent
<1>3. InOrder(t) <=> Leads(Places(queue_results, t), queue_results, got[t], sent[t])
  BY <1>1, Zenon DEF InOrder, Leads
<1> QED  BY <1>1, <1>2, <1>3

\* And in the next.
LEMMA OrderViewNext == OrderIsLeads'
BY OrderView, PTL

\* A step that leaves the results leaves every task in order.
LEMMA QueueSame ==
    ASSUME UNCHANGED queue_results
    PROVE  /\ \A t : Silent(t)' <=> Silent(t)
           /\ \A t \in Tasks : (got'[t] = got[t] /\ sent'[t] = sent[t]) =>
                 (InOrder(t)' <=> InOrder(t))
<1>1. \A t : Silent(t)' <=> Silent(t)
  BY DEF Silent, ResultsOf
<1>2. ASSUME NEW t \in Tasks, got'[t] = got[t], sent'[t] = sent[t]
      PROVE  InOrder(t)' <=> InOrder(t)
  <2>1. /\ InOrder(t) <=> Leads(Places(queue_results, t), queue_results, got[t], sent[t])
        /\ InOrder(t)' <=> Leads(Places(queue_results', t), queue_results', got'[t], sent'[t])
    BY OrderView, OrderViewNext, Zenon DEF OrderIsLeads
  <2> QED  BY <1>2, <2>1
<1> QED  BY <1>1, <1>2

\* A step that leaves the tasks of a reader leaves its ended tasks.
LEMMA EndedSame ==
    ASSUME NEW r \in Readers, \A t \in TasksOf[r] : TaskSame(t)
    PROVE  Ended(r)' = Ended(r)
BY DEF Ended, TaskSame

\* A step that leaves the thread of a reader and its tasks keeps its invariant.
LEMMA OtherReader ==
    ASSUME NEW r \in Readers, ReaderInv(r), ThreadSame(r),
           \A t \in TasksOf[r] : TaskSame(t)
    PROVE  ReaderInv(r)'
<1>1. Ended(r)' = Ended(r)
  BY EndedSame
<1>2. HasNext(r)' <=> HasNext(r)
  BY DEF HasNext, ThreadSame
<1>3. Waits(r)' <=> Waits(r)
  BY DEF Waits, ThreadSame
<1>4. Fresh(r)'
  BY DEF ReaderInv, Fresh, ThreadSame, TaskSame
<1>5. Registered(r)'
  BY <1>3 DEF ReaderInv, Registered, ThreadSame, TaskSame
<1>6. Counted(r)'
  BY <1>1, <1>3 DEF ReaderInv, Counted, ThreadSame
<1>7. Outcomes(r)'
  BY <1>2, <1>3 DEF ReaderInv, Outcomes, ThreadSame
<1>8. Ordered(r)'
  BY <1>3 DEF ReaderInv, Ordered, ThreadSame, TaskSame
<1>9. Emptied(r)'
  BY DEF ReaderInv, Emptied, ThreadSame, TaskSame
<1>10. Given(r)'
  BY DEF ReaderInv, Given, ThreadSame, TaskSame
<1> QED  BY <1>4, <1>5, <1>6, <1>7, <1>8, <1>9, <1>10 DEF ReaderInv

\* The count of a set that has only grown.
LEMMA CountGrows ==
    ASSUME NEW r \in Readers, Ended(r) \subseteq Ended(r)'
    PROVE  /\ Cardinality(Ended(r)) \in Nat
           /\ Cardinality(Ended(r)') \in Nat
           /\ Cardinality(Ended(r)) <= Cardinality(Ended(r)')
           /\ \A t \in Ended(r)' : t \notin Ended(r) =>
                 Cardinality(Ended(r)) + 1 <= Cardinality(Ended(r)')
<1>1. IsFiniteSet(TasksOf[r])
  BY TasksAssumption
<1>2. Ended(r)' \subseteq TasksOf[r]
  BY DEF Ended
<1>3. IsFiniteSet(Ended(r)')
  BY <1>1, <1>2, FS_Subset
<1>4. /\ IsFiniteSet(Ended(r))
      /\ Cardinality(Ended(r)) <= Cardinality(Ended(r)')
  BY <1>3, FS_Subset
<1>5. Cardinality(Ended(r)) \in Nat /\ Cardinality(Ended(r)') \in Nat
  BY <1>3, <1>4, FS_CardinalityType
<1>6. ASSUME NEW t \in Ended(r)', t \notin Ended(r)
      PROVE  Cardinality(Ended(r)) + 1 <= Cardinality(Ended(r)')
  <2>1. Cardinality(Ended(r) \cup {t}) = Cardinality(Ended(r)) + 1
    BY <1>4, <1>6, FS_AddElement
  <2>2. Ended(r) \cup {t} \subseteq Ended(r)'
    BY <1>6
  <2>3. Cardinality(Ended(r) \cup {t}) <= Cardinality(Ended(r)')
    BY <1>3, <2>2, FS_Subset
  <2> QED  BY <2>1, <2>3
<1> QED  BY <1>4, <1>5, <1>6

\* A reader that has counted its tasks has seen them all end.
LEMMA AllEnded ==
    ASSUME NEW r \in Readers, received_count[r] \in Nat,
           received_count[r] <= Cardinality(Ended(r)),
           ~(received_count[r] < Cardinality(TasksOf[r]))
    PROVE  /\ \A t \in TasksOf[r] : t \notin live /\ Silent(t)
           /\ ~(received_count[r] + 1 <= Cardinality(Ended(r)))
<1>1. IsFiniteSet(TasksOf[r]) /\ Cardinality(TasksOf[r]) \in Nat
  BY TasksAssumption, FS_CardinalityType
<1>2. Ended(r) \subseteq TasksOf[r]
  BY DEF Ended
<1>3. /\ Cardinality(Ended(r)) \in Nat
      /\ Cardinality(Ended(r)) <= Cardinality(TasksOf[r])
  BY <1>1, <1>2, FS_Subset, FS_CardinalityType
<1>4. Cardinality(Ended(r)) = Cardinality(TasksOf[r])
  BY <1>1, <1>3
<1>5. Ended(r) = TasksOf[r]
  BY <1>1, <1>2, <1>4, FS_Subset
<1>6. \A t \in TasksOf[r] : t \notin live /\ Silent(t)
  BY <1>5 DEF Ended
<1>7. ~(received_count[r] + 1 <= Cardinality(Ended(r)))
  BY <1>1, <1>3
<1> QED  BY <1>6, <1>7

\* A step that thins the results out, and lets no task begin.
LEMMA ThinStep ==
    ASSUME TypeOK, TypeOK', NEW R,
           Thinned(queue_results', queue_results, R, Len(queue_results)), live' \subseteq live
    PROVE  /\ EndsOnce => EndsOnce'
           /\ \A t \in Tasks : Silent(t) => Silent(t)'
           /\ \A t \in Tasks : Places(queue_results, t) \subseteq R => Silent(t)'
           /\ \A t \in Tasks : Places(queue_results, t) \cap R = {} =>
                 /\ Silent(t)' <=> Silent(t)
                 /\ (got'[t] = got[t] /\ sent'[t] = sent[t] /\ InOrder(t)) => InOrder(t)'
<1> DEFINE q == queue_results
           p == queue_results'
<1>1. q \in Seq(Results) /\ p \in Seq(Results)
  BY DEF TypeOK
<1>2. /\ DOMAIN p = 1 .. Len(p) /\ Len(p) \in Nat
      /\ DOMAIN q = 1 .. Len(q) /\ Len(q) \in Nat
  BY <1>1
<1>3. PICK g \in [DOMAIN p -> DOMAIN q] :
              /\ \A i, j \in DOMAIN p : i <= j <=> g[i] <= g[j]
              /\ \A i, j \in DOMAIN p : i < j <=> g[i] < g[j]
              /\ \A i \in DOMAIN p : p[i] = q[g[i]] /\ g[i] \notin R
              /\ \A k \in DOMAIN q : k \in R \/ \E i \in DOMAIN p : g[i] = k
  BY <1>1, ThinnedMap
<1>4. ASSUME EndsOnce
      PROVE  EndsOnce'
  <2> SUFFICES ASSUME NEW i \in DOMAIN p, p[i].kind # "partial"
               PROVE  /\ p[i].id \notin live'
                      /\ \A j \in DOMAIN p : p[j].id = p[i].id => j <= i
    BY DEF EndsOnce
  <2>1. p[i] = q[g[i]] /\ g[i] \in DOMAIN q
    BY <1>3
  <2>2. /\ p[i].id \notin live
        /\ \A j \in DOMAIN q : q[j].id = p[i].id => j <= g[i]
    BY <1>4, <2>1 DEF EndsOnce
  <2>3. ASSUME NEW j \in DOMAIN p, p[j].id = p[i].id
        PROVE  j <= i
    <3>1. p[j] = q[g[j]] /\ g[j] \in DOMAIN q
      BY <1>3
    <3>2. g[j] <= g[i]
      BY <2>2, <2>3, <3>1
    <3> QED  BY <1>3, <3>2
  <2> QED  BY <2>2, <2>3
<1>5. \A t \in Tasks : /\ Silent(t) <=> Places(q, t) = {}
                       /\ Silent(t)' <=> Places(p, t) = {}
  BY OrderView, OrderViewNext, Zenon DEF OrderIsLeads
<1>6. \A t : \A i \in Places(p, t) : g[i] \in Places(q, t) /\ g[i] \notin R
  BY <1>3 DEF Places
<1>7. \A t : \A k \in Places(q, t) : k \in R \/ \E i \in Places(p, t) : g[i] = k
  BY <1>3 DEF Places
<1>8. ASSUME NEW t \in Tasks, Places(q, t) \cap R = {}
      PROVE  /\ Silent(t)' <=> Silent(t)
             /\ (got'[t] = got[t] /\ sent'[t] = sent[t] /\ InOrder(t)) => InOrder(t)'
  <2> HIDE DEF p, q
  <2>1. Silent(t)' <=> Silent(t)
    BY <1>5, <1>6, <1>7, <1>8
  <2>2. ASSUME got'[t] = got[t], sent'[t] = sent[t], InOrder(t)
        PROVE  InOrder(t)'
    <3>1. Places(q, t) \ R = Places(q, t)
      BY <1>8
    <3>2. Leads(Places(q, t), q, got[t], sent[t])
      BY <2>2, OrderView, Zenon DEF OrderIsLeads, q
    <3>3. Thinned(p, q, R, Len(q))
      BY DEF p, q
    <3>4. Leads(Places(p, t), p, got[t], sent[t])
      BY <1>1, <3>1, <3>2, <3>3, ThinnedLeads
    <3> QED  BY <2>2, <3>4, OrderViewNext, Zenon DEF OrderIsLeads, p
  <2> QED  BY <2>1, <2>2
<1> HIDE DEF p, q
<1>9. \A t \in Tasks : Silent(t) => Silent(t)'
  BY <1>5, <1>6
<1>10. \A t \in Tasks : Places(q, t) \subseteq R => Silent(t)'
  BY <1>5, <1>6
<1> QED  BY <1>4, <1>8, <1>9, <1>10 DEF q

-----------------------------------------------------------------------------
(* The steps *)

\* A step that leaves the results and the tasks.
LEMMA DataSame ==
    ASSUME UNCHANGED <<queue_results, live, sent, got>>
    PROVE  /\ EndsOnce => EndsOnce'
           /\ \A r : Ended(r)' = Ended(r)
           /\ \A t : Silent(t)' <=> Silent(t)
           /\ \A t \in Tasks : InOrder(t)' <=> InOrder(t)
           /\ \A t \in Tasks : /\ Met(t) => Met(t)'
                               /\ t \in waiting_task_ids' <=> t \in waiting_task_ids
                               => TaskSame(t)
<1>1. EndsOnce => EndsOnce'
  BY DEF EndsOnce
<1>2. \A t : Silent(t)' <=> Silent(t)
  BY QueueSame
<1>3. \A r : Ended(r)' = Ended(r)
  BY <1>2 DEF Ended
<1>4. \A t \in Tasks : InOrder(t)' <=> InOrder(t)
  BY QueueSame
<1>5. \A t \in Tasks : /\ Met(t) => Met(t)'
                       /\ t \in waiting_task_ids' <=> t \in waiting_task_ids
                       => TaskSame(t)
  BY <1>2, <1>4 DEF TaskSame
<1> QED  BY <1>1, <1>2, <1>3, <1>4, <1>5

\* AddWaiting
LEMMA AddWaitingStep ==
    ASSUME IInv, NEW r \in Readers, AddWaiting(r)
    PROVE  EndsOnce' /\ \A s \in Readers : ReaderInv(s)'
<1> USE DEF AddWaiting, mainVars, loopVars
<1>1. /\ reader[r] = "new" /\ reader'[r] = "post"
      /\ waiting_task_ids' = waiting_task_ids \cup TasksOf[r]
      /\ UNCHANGED <<queue_results, live, cancels, sent, got, received_count, cancelled,
                     to_clear, outcome>>
      /\ \A t \in Tasks : Met(t) => Met(t)'
      /\ \A s \in Readers : s # r => ThreadSame(s)
  BY DEF IInv, TypeOK, ThreadSame, ToWaitFor, Met
<1>2. /\ EndsOnce'
      /\ \A t : Silent(t)' <=> Silent(t)
      /\ \A t \in Tasks : InOrder(t)' <=> InOrder(t)
      /\ \A t \in Tasks : t \notin TasksOf[r] => TaskSame(t)
  BY <1>1, DataSame DEF IInv
<1>3. ASSUME NEW s \in Readers, s # r
      PROVE  ReaderInv(s)'
  <2>1. \A t \in TasksOf[s] : t \in Tasks /\ t \notin TasksOf[r]
    BY <1>3, Owners
  <2> QED  BY <1>1, <1>2, <1>3, <2>1, OtherReader DEF IInv
<1>4. ReaderInv(r)'
  <2>1. ReaderInv(r) /\ TasksOf[r] \subseteq Tasks
    BY Owners DEF IInv
  <2>2. \A t \in TasksOf[r] : t \notin live /\ Silent(t) /\ got[t] = sent[t]
    BY <1>1, <2>1 DEF ReaderInv, Fresh
  <2>3. \A t \in TasksOf[r] : InOrder(t)
    BY <2>2 DEF InOrder, Silent
  <2>4. Fresh(r)' /\ Ordered(r)'
    BY <1>1, <1>2, <2>1, <2>2, <2>3 DEF ReaderInv, Fresh, Ordered
  <2>5. Registered(r)' /\ Counted(r)' /\ Emptied(r)' /\ Given(r)'
    BY <1>1 DEF Registered, Counted, Emptied, Given, Waits
  <2>6. Outcomes(r)'
    BY <1>1, <2>1 DEF ReaderInv, Outcomes
  <2> QED  BY <2>4, <2>5, <2>6 DEF ReaderInv
<1> QED  BY <1>2, <1>3, <1>4

\* PostTasks
LEMMA PostTasksStep ==
    ASSUME IInv, NEW r \in Readers, PostTasks(r)
    PROVE  EndsOnce' /\ \A s \in Readers : ReaderInv(s)'
<1>1. /\ reader[r] = "post" /\ reader'[r] = "next"
      /\ live' = live \cup TasksOf[r]
      /\ UNCHANGED <<queue_results, waiting_task_ids, cancels, sent, got, received_count,
                     cancelled, to_clear, outcome>>
      /\ \A t \in Tasks : t \notin TasksOf[r] => (Met(t) => Met(t)')
      /\ \A s \in Readers : s # r => ThreadSame(s)
  BY DEF PostTasks, sharedVars, loopVars, IInv, TypeOK, ThreadSame, Met
<1>2. /\ \A t : Silent(t)' <=> Silent(t)
      /\ \A t \in Tasks : InOrder(t)' <=> InOrder(t)
      /\ \A t \in Tasks : t \notin TasksOf[r] => TaskSame(t)
  BY <1>1, QueueSame DEF TaskSame
<1>3. ReaderInv(r) /\ TasksOf[r] \subseteq Tasks
  BY Owners DEF IInv
<1>4. \A t \in TasksOf[r] : Silent(t)
  BY <1>1, <1>3 DEF ReaderInv, Fresh
<1>5. EndsOnce'
  <2>1. \A i \in DOMAIN queue_results : queue_results[i].id \notin TasksOf[r]
    BY <1>4 DEF Silent, ResultsOf
  <2> QED  BY <1>1, <2>1 DEF IInv, EndsOnce
<1>6. ASSUME NEW s \in Readers, s # r
      PROVE  ReaderInv(s)'
  <2>1. \A t \in TasksOf[s] : t \in Tasks /\ t \notin TasksOf[r]
    BY <1>6, Owners
  <2> QED  BY <1>1, <1>2, <1>6, <2>1, OtherReader DEF IInv
<1>7. ReaderInv(r)'
  <2>1. Fresh(r)' /\ Emptied(r)' /\ Given(r)'
    BY <1>1 DEF Fresh, Emptied, Given
  <2>2. Registered(r)' /\ Ordered(r)' /\ Outcomes(r)'
    BY <1>1, <1>2, <1>3 DEF ReaderInv, Registered, Ordered, Outcomes, Waits
  <2>3. Counted(r)'
    <3>1. received_count'[r] = 0 /\ reader'[r] # "stop"
      BY <1>1, <1>3 DEF ReaderInv, Fresh
    <3>2. Cardinality(Ended(r)') \in Nat
      <4>1. Ended(r)' \subseteq TasksOf[r] /\ IsFiniteSet(TasksOf[r])
        BY TasksAssumption DEF Ended
      <4> QED  BY <4>1, FS_Subset, FS_CardinalityType
    <3> QED  BY <3>1, <3>2 DEF Counted
  <2> QED  BY <2>1, <2>2, <2>3 DEF ReaderInv
<1> QED  BY <1>5, <1>6, <1>7

\* Steps that only move the thread of a reader.
LEMMA ControlStep ==
    ASSUME IInv, NEW r \in Readers,
           \/ Block(r) \/ Woken(r) \/ Timeout(r) \/ NextChunk(r) \/ Complete(r)
           \/ StopWaiting(r) \/ Close(r)
    PROVE  EndsOnce' /\ \A s \in Readers : ReaderInv(s)'
<1>1. /\ UNCHANGED <<queue_results, live, sent, got, received_count>>
      /\ \A s \in Readers : s # r => ThreadSame(s)
      /\ \A t : Met(t) => Met(t)'
      /\ \A t : t \notin TasksOf[r] =>
            (t \in waiting_task_ids' <=> t \in waiting_task_ids)
  BY DEF IInv, TypeOK, ThreadSame, Block, Woken, Timeout, NextChunk, Complete, StopWaiting,
         Close, sharedVars, mainVars, loopVars, Met
<1>2. /\ EndsOnce'
      /\ \A t : Silent(t)' <=> Silent(t)
      /\ Ended(r)' = Ended(r)
      /\ \A t \in Tasks : InOrder(t)' <=> InOrder(t)
      /\ \A t \in Tasks : /\ Met(t) => Met(t)'
                          /\ t \in waiting_task_ids' <=> t \in waiting_task_ids
                          => TaskSame(t)
  BY <1>1, DataSame DEF IInv
<1>3. ASSUME NEW s \in Readers, s # r
      PROVE  ReaderInv(s)'
  <2>1. \A t \in TasksOf[s] : t \in Tasks /\ t \notin TasksOf[r]
    BY <1>3, Owners
  <2> QED  BY <1>1, <1>2, <1>3, <2>1, OtherReader DEF IInv
<1>4. ReaderInv(r) /\ TasksOf[r] \subseteq Tasks
  BY Owners DEF IInv
<1>5. ASSUME Waits(r), Waits(r)', outcome'[r] = outcome[r], cancelled'[r] = cancelled[r],
             UNCHANGED waiting_task_ids
      PROVE  ReaderInv(r)'
  <2>1. Fresh(r)' /\ Emptied(r)' /\ Given(r)'
    BY <1>5 DEF Fresh, Emptied, Given, Waits
  <2>2. Registered(r)' /\ Ordered(r)' /\ Counted(r)' /\ Outcomes(r)'
    BY <1>1, <1>2, <1>4, <1>5
    DEF ReaderInv, Registered, Ordered, Counted, Outcomes, Waits
  <2> QED  BY <2>1, <2>2 DEF ReaderInv
<1>6. ASSUME Waits(r), reader'[r] = "stop", cancelled'[r] = cancelled[r],
             \/ outcome'[r] = "terminated"
             \/ outcome'[r] = outcome[r] /\ ~HasNext(r)
      PROVE  ReaderInv(r)'
  <2>1. Fresh(r)' /\ Emptied(r)' /\ Given(r)' /\ Registered(r)' /\ Ordered(r)'
    BY <1>6 DEF Fresh, Emptied, Given, Registered, Ordered, Waits
  <2>2. Counted(r)'
    BY <1>1, <1>2, <1>4, <1>6 DEF ReaderInv, Counted, Outcomes, Waits
  <2>3. Outcomes(r)'
    BY <1>1, <1>4, <1>6 DEF ReaderInv, Outcomes, Waits, HasNext
  <2> QED  BY <2>1, <2>2, <2>3 DEF ReaderInv
<1>7. CASE Block(r) \/ Woken(r)
  BY <1>3, <1>2, <1>5, <1>7 DEF IInv, TypeOK, Block, Woken, Waits, sharedVars
<1>8. CASE Timeout(r) \/ NextChunk(r)
  <2>1. /\ Waits(r) /\ cancelled'[r] = cancelled[r] /\ UNCHANGED waiting_task_ids
        /\ \/ reader'[r] = "stop" /\ outcome'[r] = "terminated"
           \/ Waits(r)' /\ outcome'[r] = outcome[r]
    BY <1>8 DEF IInv, TypeOK, Timeout, NextChunk, Waits, sharedVars
  <2>2. CASE reader'[r] = "stop" /\ outcome'[r] = "terminated"
    <3>1. ReaderInv(r)'
      BY <1>6, <2>1, <2>2
    <3> QED  BY <1>2, <1>3, <3>1
  <2>3. CASE Waits(r)' /\ outcome'[r] = outcome[r]
    <3>1. ReaderInv(r)'
      BY <1>5, <2>1, <2>3
    <3> QED  BY <1>2, <1>3, <3>1
  <2> QED  BY <2>1, <2>2, <2>3
<1>9. CASE Complete(r)
  BY <1>2, <1>3, <1>6, <1>9 DEF IInv, TypeOK, Complete, Waits
<1>10. CASE StopWaiting(r)
  <2>1. /\ reader[r] = "stop" /\ waiting_task_ids' = waiting_task_ids \ TasksOf[r]
        /\ outcome'[r] = outcome[r]
        /\ HasNext(r) => reader'[r] = "clear" /\ to_clear'[r] = TasksOf[r]
        /\ ~HasNext(r) => reader'[r] = "done" /\ cancelled'[r] = cancelled[r]
    BY <1>10 DEF IInv, TypeOK, StopWaiting
  <2>2. /\ outcome[r] = "none" => ~HasNext(r)
        /\ ~cancelled[r]
        /\ received_count[r] <= Cardinality(Ended(r))
    BY <1>4, <2>1 DEF ReaderInv, Outcomes, Counted, IInv, TypeOK
  <2>3. reader'[r] \in {"clear", "done"}
    BY <2>1
  <2>4. Fresh(r)' /\ Ordered(r)' /\ Counted(r)'
    BY <2>3 DEF Fresh, Ordered, Counted, Waits
  <2>5. Registered(r)'
    BY <2>1, <2>3 DEF Registered, Waits
  <2>6. Outcomes(r)'
    BY <2>1, <2>2, <2>3 DEF Outcomes, Waits
  <2>7. ~HasNext(r) => \A t \in TasksOf[r] : t \notin live /\ Silent(t)
    <3>1. received_count[r] \in Nat
      BY DEF IInv, TypeOK
    <3> QED  BY <2>2, <3>1, AllEnded DEF HasNext
  <2>8. Emptied(r)'
    BY <1>2, <2>1, <2>7 DEF Emptied
  <2>9. Given(r)'
    BY <1>1, <2>1, <2>2, <2>7 DEF Given, Met
  <2> QED  BY <1>2, <1>3, <2>4, <2>5, <2>6, <2>8, <2>9 DEF ReaderInv
<1>11. CASE Close(r)
  <2>1. ThreadSame(r) /\ UNCHANGED waiting_task_ids
    BY <1>11 DEF Close, ThreadSame, sharedVars
  <2>2. \A t \in TasksOf[r] : TaskSame(t)
    BY <1>1, <1>2, <1>4, <2>1
  <2> QED  BY <1>2, <1>3, <1>4, <2>1, <2>2, OtherReader
<1> QED  BY <1>7, <1>8, <1>9, <1>10, <1>11

\* PostCancels: pending tasks of the reader end, the others are now to be cancelled.
LEMMA PostCancelsStep ==
    ASSUME IInv, NEW r \in Readers, PostCancels(r)
    PROVE  EndsOnce' /\ \A s \in Readers : ReaderInv(s)'
<1>1. /\ reader[r] = "clear" /\ to_clear[r] = {} /\ reader'[r] = "done"
      /\ outcome'[r] = outcome[r]
      /\ cancels' = cancels \cup TasksOf[r]
      /\ live' = {t \in live : t \in TasksOf[r] => t \in hand \cup slots}
      /\ UNCHANGED <<queue_results, waiting_task_ids, cancelled, sent, got, hand, slots, late>>
      /\ \A s \in Readers : s # r => ThreadSame(s)
  BY DEF IInv, TypeOK, PostCancels, ToCancel, ThreadSame, sharedVars, loopVars
<1>2. EndsOnce'
  BY <1>1 DEF IInv, EndsOnce
<1>3. /\ \A t : Silent(t)' <=> Silent(t)
      /\ \A t \in Tasks : InOrder(t)' <=> InOrder(t)
  BY <1>1, QueueSame
<1>4. \A t \in Tasks : t \notin TasksOf[r] => TaskSame(t)
  BY <1>1, <1>3 DEF TaskSame, Met
<1>5. ASSUME NEW s \in Readers, s # r
      PROVE  ReaderInv(s)'
  <2>1. \A t \in TasksOf[s] : t \in Tasks /\ t \notin TasksOf[r]
    BY <1>5, Owners
  <2> QED  BY <1>1, <1>4, <1>5, <2>1, OtherReader DEF IInv
<1>6. ReaderInv(r)'
  <2>1. ReaderInv(r) /\ TasksOf[r] \subseteq Tasks
    BY Owners DEF IInv
  <2>2. Fresh(r)' /\ Ordered(r)' /\ Counted(r)'
    BY <1>1 DEF Fresh, Ordered, Counted, Waits
  <2>3. Registered(r)' /\ Outcomes(r)'
    BY <1>1, <2>1 DEF ReaderInv, Registered, Outcomes, Waits
  <2>4. Emptied(r)'
    BY <1>1, <1>3, <2>1 DEF ReaderInv, Emptied
  <2>5. \A t \in TasksOf[r] : Met(t)'
    BY <1>1 DEF Met
  <2>6. Given(r)'
    BY <1>1, <2>1, <2>5 DEF ReaderInv, Outcomes, Given
  <2> QED  BY <2>2, <2>3, <2>4, <2>6 DEF ReaderInv
<1> QED  BY <1>2, <1>5, <1>6

\* Receive: the result is the first of its task, and the next one after the last
\* one read.  A final one or an error is also its last.
LEMMA ReceiveStep ==
    ASSUME IInv, IInv => TypeOK', NEW r \in Readers, Receive(r)
    PROVE  EndsOnce' /\ \A s \in Readers : ReaderInv(s)'
<1>0. PICK i, res, u : i = FirstOf(TasksOf[r]) /\ res = queue_results[i] /\ u = res.id
  BY Zenon
<1>1. /\ reader[r] = "next" /\ HasNext(r)
      /\ queue_results' = RemoveAt(queue_results, i)
      /\ got' = [got EXCEPT ![u] = res.n]
      /\ UNCHANGED <<live, sent, waiting_task_ids>>
      /\ \A t \in Tasks : Met(t) => Met(t)'
      /\ cancelled'[r] = cancelled[r]
      /\ res.kind = "error" => /\ reader'[r] = "stop" /\ outcome'[r] = "error"
                               /\ received_count'[r] = received_count[r]
      /\ res.kind # "error" => Waits(r)' /\ outcome'[r] = outcome[r]
      /\ res.kind = "final" => received_count'[r] = received_count[r] + 1
      /\ res.kind = "partial" => received_count'[r] = received_count[r]
      /\ \A s \in Readers : s # r => ThreadSame(s)
  BY <1>0 DEF IInv, TypeOK, Receive, ThreadSame, Waits, mainVars, loopVars, Met
<1>2. TypeOK /\ TypeOK' /\ EndsOnce /\ ReaderInv(r)
  BY DEF IInv
<1>3. /\ i \in 1 .. Len(queue_results) /\ res \in Results /\ u \in TasksOf[r]
      /\ \A j \in ResultsOf(TasksOf[r]) : i <= j
  BY <1>0, <1>2, First DEF Receive
<1>4. u \in Tasks
  BY <1>0, <1>3 DEF Results
<1>5. queue_results \in Seq(Results) /\ DOMAIN queue_results = 1 .. Len(queue_results)
      /\ Len(queue_results) \in Nat
  BY <1>2 DEF TypeOK
<1>6. Thinned(queue_results', queue_results, {i}, Len(queue_results))
  BY <1>1, <1>3, <1>5, RemoveAtThins
<1>7. i \in Places(queue_results, u)
  BY <1>0, <1>3, <1>5 DEF Places
<1>8. \A j \in Places(queue_results, u) : i <= j
  <2>1. Places(queue_results, u) \subseteq ResultsOf(TasksOf[r])
    BY <1>3 DEF Places, ResultsOf
  <2> QED  BY <1>3, <2>1
<1>9. /\ EndsOnce'
      /\ \A t \in Tasks : Silent(t) => Silent(t)'
      /\ Places(queue_results, u) \subseteq {i} => Silent(u)'
      /\ \A t \in Tasks : Places(queue_results, t) \cap {i} = {} =>
            /\ Silent(t)' <=> Silent(t)
            /\ (got'[t] = got[t] /\ sent'[t] = sent[t] /\ InOrder(t)) => InOrder(t)'
  <2>1. /\ EndsOnce => EndsOnce'
        /\ \A t \in Tasks : Silent(t) => Silent(t)'
        /\ \A t \in Tasks : Places(queue_results, t) \subseteq {i} => Silent(t)'
        /\ \A t \in Tasks : Places(queue_results, t) \cap {i} = {} =>
              /\ Silent(t)' <=> Silent(t)
              /\ (got'[t] = got[t] /\ sent'[t] = sent[t] /\ InOrder(t)) => InOrder(t)'
    BY <1>1, <1>2, <1>6, ThinStep
  <2> QED  BY <1>2, <1>4, <2>1
<1>10. \A t \in Tasks : t # u => Places(queue_results, t) \cap {i} = {}
  BY <1>0, <1>7 DEF Places
<1>11. /\ got'[u] = res.n
       /\ \A t \in Tasks : t # u => got'[t] = got[t] /\ sent'[t] = sent[t]
  BY <1>1, <1>2, <1>4 DEF TypeOK
<1>12. \A t \in Tasks : t # u => TaskSame(t)
  BY <1>1, <1>9, <1>10, <1>11 DEF TaskSame
<1>13. ASSUME NEW s \in Readers, s # r
       PROVE  ReaderInv(s)'
  <2>1. \A t \in TasksOf[s] : t \in Tasks /\ t # u
    BY <1>3, <1>13, Owners
  <2> QED  BY <1>1, <1>12, <1>13, <2>1, OtherReader DEF IInv
<1>14. ReaderInv(r)'
  <2>1. /\ Waits(r) /\ TasksOf[r] \subseteq Tasks /\ outcome[r] = "none"
        /\ received_count[r] \in Nat /\ received_count[r] <= Cardinality(Ended(r))
    BY <1>1, <1>2, Owners DEF ReaderInv, Outcomes, Counted, Waits, TypeOK
  <2>2. reader'[r] \notin {"new", "post", "clear", "done"}
    BY <1>1 DEF Waits
  <2>3. Fresh(r)' /\ Emptied(r)' /\ Given(r)'
    BY <2>2 DEF Fresh, Emptied, Given
  <2>4. Registered(r)'
    BY <1>1, <1>2, <2>1, <2>2 DEF ReaderInv, Registered
  <2>5. Outcomes(r)'
    <3>1. ~cancelled[r]
      BY <1>1 DEF HasNext
    <3> QED  BY <1>1, <2>1, <2>2, <3>1 DEF Outcomes, Waits
  <2>6. InOrder(u)'
    <3>1. Leads(Places(queue_results, u), queue_results, got[u], sent[u])
      BY <1>2, <1>3, <1>4, <2>1, OrderView DEF OrderIsLeads, ReaderInv, Ordered
    <3>2. Places(queue_results, u) \in SUBSET Nat
      BY <1>5 DEF Places
    <3>3. Leads(Places(queue_results, u) \ {i}, queue_results, res.n, sent[u])
      BY <1>7, <1>8, <3>1, <3>2, RestLeads, <1>0
    <3>4. queue_results' \in Seq(Results)
      BY <1>2 DEF TypeOK
    <3>5. Leads(Places(queue_results', u), queue_results', res.n, sent[u])
      BY <1>5, <1>6, <3>3, <3>4, ThinnedLeads
    <3>6. got'[u] = res.n /\ sent'[u] = sent[u]
      BY <1>1, <1>11
    <3> QED  BY <1>4, <3>5, <3>6, OrderViewNext DEF OrderIsLeads
  <2>7. Ordered(r)'
    <3>1. \A t \in TasksOf[r] : InOrder(t)
      BY <1>2, <2>1 DEF ReaderInv, Ordered
    <3>2. \A t \in TasksOf[r] : InOrder(t)'
      BY <1>12, <2>1, <2>6, <3>1 DEF TaskSame
    <3> QED  BY <3>2 DEF Ordered
  <2>8. Counted(r)'
    <3>1. u \notin Ended(r)
      <4>1. Places(queue_results, u) # {}
        BY <1>7
      <4> QED  BY <1>4, <4>1, OrderView DEF OrderIsLeads, Ended
    <3>2. \A t \in TasksOf[r] : t # u => (t \in Ended(r)' <=> t \in Ended(r))
      BY <1>12, <2>1 DEF Ended, TaskSame
    <3>3. Ended(r) \subseteq Ended(r)'
      BY <3>1, <3>2 DEF Ended
    <3>4. res.kind # "partial" => u \in Ended(r)'
      <4> SUFFICES ASSUME res.kind # "partial"
                   PROVE  u \in Ended(r)'
        OBVIOUS
      <4>1. u \notin live /\ \A j \in Places(queue_results, u) : j <= i
        BY <1>0, <1>2, <1>3, <1>5 DEF EndsOnce, Places
      <4>2. Places(queue_results, u) \subseteq {i}
        <5>1. i \in Nat /\ Places(queue_results, u) \in SUBSET Nat
          BY <1>3, <1>5 DEF Places
        <5> QED  BY <1>8, <4>1, <5>1
      <4> QED  BY <1>1, <1>3, <1>9, <4>1, <4>2 DEF Ended
    <3>5. /\ Cardinality(Ended(r)) \in Nat
          /\ Cardinality(Ended(r)') \in Nat
          /\ Cardinality(Ended(r)) <= Cardinality(Ended(r)')
          /\ res.kind # "partial" => Cardinality(Ended(r)) + 1 <= Cardinality(Ended(r)')
      BY <3>1, <3>3, <3>4, CountGrows
    <3>6. res.kind \in {"partial", "final", "error"}
      BY <1>3 DEF Results, Kinds
    <3>7. CASE res.kind = "partial"
      BY <1>1, <2>1, <3>5, <3>7 DEF Counted, Waits
    <3>8. CASE res.kind = "final"
      <4>1. received_count'[r] <= Cardinality(Ended(r)')
        BY <1>1, <2>1, <3>5, <3>8
      <4>2. outcome'[r] = "none"
        BY <1>1, <2>1, <3>8
      <4> QED  BY <4>1, <4>2 DEF Counted
    <3>9. CASE res.kind = "error"
      <4>1. /\ received_count'[r] <= Cardinality(Ended(r)')
            /\ received_count'[r] + 1 <= Cardinality(Ended(r)')
        BY <1>1, <2>1, <3>5, <3>9
      <4> QED  BY <4>1 DEF Counted
    <3> QED  BY <3>6, <3>7, <3>8, <3>9
  <2> QED  BY <2>3, <2>4, <2>5, <2>7, <2>8 DEF ReaderInv
<1> QED  BY <1>9, <1>13, <1>14

\* ClearTask: the results of the task are gone, the others stay.
LEMMA ClearTaskStep ==
    ASSUME IInv, IInv => TypeOK', NEW r \in Readers, NEW u \in TasksOf[r], ClearTask(r, u)
    PROVE  EndsOnce' /\ \A s \in Readers : ReaderInv(s)'
<1>1. /\ reader[r] = "clear" /\ reader'[r] = "clear"
      /\ queue_results' = Without(queue_results, u)
      /\ waiting_task_ids' = waiting_task_ids \ {u}
      /\ to_clear'[r] = to_clear[r] \ {u}
      /\ UNCHANGED <<live, sent, got, received_count, cancelled, outcome>>
      /\ \A t \in Tasks : Met(t) => Met(t)'
      /\ \A s \in Readers : s # r => ThreadSame(s)
  BY DEF IInv, TypeOK, ClearTask, Cleared, ThreadSame, mainVars, loopVars, Met
<1>2. TypeOK /\ TypeOK' /\ EndsOnce /\ ReaderInv(r) /\ u \in Tasks /\ TasksOf[r] \subseteq Tasks
  BY Owners DEF IInv
<1>3. queue_results \in Seq(Results) /\ DOMAIN queue_results = 1 .. Len(queue_results)
  BY <1>2 DEF TypeOK
<1>4. PICK R : /\ R = {i \in 1 .. Len(queue_results) : queue_results[i].id = u}
               /\ Thinned(queue_results', queue_results, R, Len(queue_results))
  BY <1>1, <1>3, WithoutThins
<1>5. R = Places(queue_results, u)
  BY <1>3, <1>4 DEF Places
<1>6. \A t \in Tasks : t # u => Places(queue_results, t) \cap R = {}
  BY <1>5 DEF Places
<1>7. /\ EndsOnce'
      /\ \A t \in Tasks : Silent(t) => Silent(t)'
      /\ Silent(u)'
      /\ \A t \in Tasks : t # u => TaskSame(t)
  <2>1. /\ EndsOnce => EndsOnce'
        /\ \A t \in Tasks : Silent(t) => Silent(t)'
        /\ \A t \in Tasks : Places(queue_results, t) \subseteq R => Silent(t)'
        /\ \A t \in Tasks : Places(queue_results, t) \cap R = {} =>
              /\ Silent(t)' <=> Silent(t)
              /\ (got'[t] = got[t] /\ sent'[t] = sent[t] /\ InOrder(t)) => InOrder(t)'
    BY <1>1, <1>2, <1>4, ThinStep
  <2>2. \A t \in Tasks : t # u => TaskSame(t)
    BY <1>1, <1>6, <2>1 DEF TaskSame
  <2> QED  BY <1>2, <1>5, <2>1, <2>2
<1>8. ASSUME NEW s \in Readers, s # r
      PROVE  ReaderInv(s)'
  <2>1. \A t \in TasksOf[s] : t \in Tasks /\ t # u
    BY <1>8, Owners
  <2> QED  BY <1>1, <1>7, <1>8, <2>1, OtherReader DEF IInv
<1>9. ReaderInv(r)'
  <2>1. Fresh(r)' /\ Counted(r)' /\ Ordered(r)' /\ Given(r)'
    BY <1>1 DEF Fresh, Counted, Ordered, Given, Waits
  <2>2. Registered(r)' /\ Outcomes(r)'
    BY <1>1, <1>2 DEF ReaderInv, Registered, Outcomes, Waits
  <2>3. Emptied(r)'
    BY <1>1, <1>2, <1>7 DEF ReaderInv, Emptied
  <2> QED  BY <2>1, <2>2, <2>3 DEF ReaderInv
<1> QED  BY <1>7, <1>8, <1>9

\* ProcessCancel: a task in a slot ends without a result.
LEMMA ProcessCancelStep ==
    ASSUME IInv, NEW u \in Tasks, ProcessCancel(u)
    PROVE  EndsOnce' /\ \A s \in Readers : ReaderInv(s)'
<1>1. /\ live' \subseteq live
      /\ \A t : Met(t) => Met(t)'
      /\ UNCHANGED <<queue_results, waiting_task_ids, sent, got, received_count, cancelled,
                     to_clear, outcome, reader>>
  BY DEF ProcessCancel, Released, Met, sharedVars, readerVars
<1>2. EndsOnce'
  BY <1>1 DEF IInv, EndsOnce
<1>3. /\ \A t : Silent(t)' <=> Silent(t)
      /\ \A t \in Tasks : InOrder(t)' <=> InOrder(t)
  BY <1>1, QueueSame
<1>4. ASSUME NEW s \in Readers
      PROVE  ReaderInv(s)'
  <2>1. ReaderInv(s) /\ TasksOf[s] \subseteq Tasks /\ received_count[s] \in Nat
    BY Owners DEF IInv, TypeOK
  <2>2. Ended(s) \subseteq Ended(s)'
    BY <1>1, <1>3 DEF Ended
  <2>3. /\ Cardinality(Ended(s)) \in Nat
        /\ Cardinality(Ended(s)') \in Nat
        /\ Cardinality(Ended(s)) <= Cardinality(Ended(s)')
    BY <2>2, CountGrows
  <2>4. Counted(s)'
    <3>1. (Waits(s)' <=> Waits(s)) /\ reader'[s] = reader[s] /\ outcome'[s] = outcome[s]
          /\ received_count'[s] = received_count[s]
      BY <1>1 DEF Waits
    <3>2. Counted(s)
      BY <2>1 DEF ReaderInv
    <3> QED  BY <2>1, <2>3, <3>1, <3>2 DEF Counted
  <2>5. Fresh(s)' /\ Registered(s)' /\ Emptied(s)' /\ Given(s)'
    BY <1>1, <1>3, <2>1 DEF ReaderInv, Fresh, Registered, Emptied, Given, Waits
  <2>6. Outcomes(s)' /\ Ordered(s)'
    BY <1>1, <1>3, <2>1 DEF ReaderInv, Outcomes, Ordered, Waits, HasNext
  <2> QED  BY <2>4, <2>5, <2>6 DEF ReaderInv
<1> QED  BY <1>2, <1>4

\* The main loop takes a task, defers it or gives it a slot.
LEMMA LoopStep ==
    ASSUME IInv, NEW u \in Tasks, TakeTask(u) \/ Defer(u) \/ Launch(u)
    PROVE  EndsOnce' /\ \A s \in Readers : ReaderInv(s)'
<1>1. /\ UNCHANGED <<queue_results, live, sent, got, waiting_task_ids>>
      /\ \A s \in Readers : ThreadSame(s)
  BY DEF TakeTask, Defer, Launch, sharedVars, readerVars, ThreadSame
<1>2. \A t \in Tasks : Met(t) => Met(t)'
  <2>1. CASE TakeTask(u)
    BY <2>1 DEF TakeTask, Met
  <2>2. CASE Defer(u)
    BY <2>2 DEF Defer, Met
  <2>3. CASE Launch(u)
    BY <2>3 DEF Launch, Met
  <2> QED  BY <2>1, <2>2, <2>3
<1>3. EndsOnce' /\ \A t \in Tasks : TaskSame(t)
  BY <1>1, <1>2, DataSame DEF IInv
<1>4. ASSUME NEW s \in Readers
      PROVE  ReaderInv(s)'
  <2>1. ReaderInv(s) /\ \A t \in TasksOf[s] : TaskSame(t)
    BY <1>3, Owners DEF IInv
  <2> QED  BY <1>1, <2>1, OtherReader
<1>5. EndsOnce'
  BY <1>3
<1> QED  BY <1>4, <1>5, Zenon

\* Send, when its result is put into the queue.
LEMMA AppendStep ==
    ASSUME IInv, NEW u \in Tasks, NEW e \in Results, u \in live,
           e.id = u, e.n = Successor(sent[u]),
           queue_results' = Append(queue_results, e),
           sent'[u] = e.n, \A t \in Tasks : t # u => sent'[t] = sent[t],
           UNCHANGED got, live' \subseteq live, e.kind # "partial" => u \notin live'
    PROVE  /\ EndsOnce'
           /\ ~Silent(u)'
           /\ InOrder(u) => InOrder(u)'
           /\ \A t \in Tasks : t # u => /\ Silent(t)' <=> Silent(t)
                                        /\ InOrder(t)' <=> InOrder(t)
<1> DEFINE q == queue_results
           p == queue_results'
           m == Len(queue_results) + 1
<1>1. q \in Seq(Results) /\ EndsOnce
  BY DEF IInv, TypeOK
<1>2. /\ Len(q) \in Nat /\ DOMAIN q = 1 .. Len(q)
      /\ DOMAIN p = 1 .. m
      /\ \A i \in 1 .. Len(q) : p[i] = q[i] /\ i < m
      /\ p[m] = e /\ m \in 1 .. m
  BY <1>1
<1>3. \A i \in DOMAIN p : i \in DOMAIN q \/ i = m
  BY <1>2
<1>4. DOMAIN q \subseteq DOMAIN p /\ m \in DOMAIN p /\ m \in Nat /\ DOMAIN q \subseteq Nat
  BY <1>2
<1>5. \A i \in DOMAIN q : p[i] = q[i] /\ i < m
  BY <1>2
<1> HIDE DEF m
<1>6. EndsOnce'
  <2> SUFFICES ASSUME NEW i \in DOMAIN p, p[i].kind # "partial"
               PROVE  /\ p[i].id \notin live'
                      /\ \A j \in DOMAIN p : p[j].id = p[i].id => j <= i
    BY DEF EndsOnce
  <2>1. CASE i = m
    <3>1. p[i].id \notin live'
      BY <1>2, <2>1
    <3>2. \A j \in DOMAIN p : j <= i
      BY <1>3, <1>4, <1>5, <2>1
    <3> QED  BY <3>1, <3>2
  <2>2. CASE i \in DOMAIN q
    <3>1. /\ p[i].id \notin live
          /\ \A j \in DOMAIN q : q[j].id = p[i].id => j <= i
      BY <1>1, <1>5, <2>2 DEF EndsOnce
    <3>2. \A j \in DOMAIN p : p[j].id = p[i].id => j \in DOMAIN q
      BY <1>2, <1>3, <3>1
    <3> QED  BY <1>5, <3>1, <3>2
  <2> QED  BY <1>3, <2>1, <2>2
<1>7. Places(p, u) = Places(q, u) \cup {m}
  BY <1>2, <1>3, <1>4, <1>5 DEF Places
<1>8. \A t : t # u => Places(p, t) = Places(q, t)
  BY <1>2, <1>3, <1>4, <1>5 DEF Places
<1>9. \A t : \A i \in Places(q, t) : p[i] = q[i] /\ i < m
  BY <1>5 DEF Places
<1>10. \A t \in Tasks :
         /\ Silent(t) <=> Places(q, t) = {}
         /\ Silent(t)' <=> Places(p, t) = {}
         /\ InOrder(t) <=> Leads(Places(q, t), q, got[t], sent[t])
         /\ InOrder(t)' <=> Leads(Places(p, t), p, got'[t], sent'[t])
  BY OrderView, OrderViewNext, Zenon DEF OrderIsLeads
<1>11. \A t : Places(q, t) \in SUBSET Nat
  BY <1>4 DEF Places
<1> HIDE DEF p, q
<1>12. ~Silent(u)'
  BY <1>7, <1>10
<1>13. InOrder(u) => InOrder(u)'
  <2> SUFFICES ASSUME InOrder(u)
               PROVE  InOrder(u)'
    OBVIOUS
  <2>1. Leads(Places(q, u), q, got[u], sent[u])
    BY <1>10
  <2>2. p[m].n = Successor(sent[u])
    BY <1>2
  <2>3. Leads(Places(q, u) \cup {m}, p, got[u], Successor(sent[u]))
    BY <1>4, <1>9, <1>11, <2>1, <2>2, OneMoreLeads
  <2> QED  BY <1>7, <1>10, <2>3
<1>14. ASSUME NEW t \in Tasks, t # u
       PROVE  (Silent(t)' <=> Silent(t)) /\ (InOrder(t)' <=> InOrder(t))
  <2>1. Places(p, t) = Places(q, t) /\ sent'[t] = sent[t] /\ got'[t] = got[t]
    BY <1>8, <1>14
  <2>2. Leads(Places(q, t), p, got[t], sent[t]) <=> Leads(Places(q, t), q, got[t], sent[t])
    BY <1>9, SameLeads
  <2> QED  BY <1>10, <2>1, <2>2
<1> QED  BY <1>6, <1>12, <1>13, <1>14

\* Send: only a reader that waits, or that has just been told to stop, has tasks
\* whose results are put into the queue.
LEMMA SendStep ==
    ASSUME IInv, NEW u \in Tasks, NEW kind \in Kinds, Send(u, kind)
    PROVE  EndsOnce' /\ \A s \in Readers : ReaderInv(s)'
<1>1. PICK e : e = [id |-> u, kind |-> kind, n |-> Successor(sent[u])]
  OBVIOUS
<1>2. /\ u \in live /\ live' \subseteq live
      /\ kind # "partial" => u \notin live'
      /\ \A t : t # u => (t \in live' <=> t \in live)
      /\ sent'[u] = Successor(sent[u])
      /\ \A t \in Tasks : t # u => sent'[t] = sent[t]
      /\ u \in waiting_task_ids => queue_results' = Append(queue_results, e)
      /\ u \notin waiting_task_ids => queue_results' = queue_results
      /\ \A t : Met(t) => Met(t)'
      /\ UNCHANGED <<waiting_task_ids, got, received_count, cancelled, to_clear,
                     outcome, reader>>
  <2>1. /\ kind = "partial" => UNCHANGED <<live, hand, slots>>
        /\ kind # "partial" => /\ live' = live \ {u} /\ hand' = hand \ {u}
                               /\ slots' = slots \ {u}
        /\ UNCHANGED <<late, cancels>>
    BY DEF Send
  <2>2. \A t : Met(t) => Met(t)'
    BY <2>1 DEF Met
  <2> QED  BY <1>1, <2>1, <2>2 DEF Send, IInv, TypeOK, readerVars
<1>3. e \in Results /\ e.id = u /\ e.n = Successor(sent[u]) /\ e.kind = kind
  <2>1. Successor(sent[u]) \in 0 .. MaxNumber
    BY BoundsAssumption DEF Successor, IInv, TypeOK
  <2> QED  BY <1>1, <2>1 DEF Results
<1>4. /\ EndsOnce'
      /\ u \in waiting_task_ids => /\ ~Silent(u)'
                                   /\ InOrder(u) => InOrder(u)'
      /\ u \notin waiting_task_ids => (Silent(u)' <=> Silent(u))
      /\ \A t \in Tasks : t # u => /\ Silent(t)' <=> Silent(t)
                                   /\ InOrder(t)' <=> InOrder(t)
  <2>1. CASE u \in waiting_task_ids
    BY <1>2, <1>3, <2>1, AppendStep
  <2>2. CASE u \notin waiting_task_ids
    <3>1. EndsOnce'
      BY <1>2, <2>2 DEF IInv, EndsOnce
    <3> QED  BY <1>2, <2>2, <3>1, QueueSame
  <2> QED  BY <2>1, <2>2
<1>5. \A t \in Tasks : t # u => TaskSame(t)
  BY <1>2, <1>4 DEF TaskSame
<1>6. ASSUME NEW s \in Readers, u \notin TasksOf[s]
      PROVE  ReaderInv(s)'
  <2>1. ReaderInv(s) /\ ThreadSame(s) /\ \A t \in TasksOf[s] : TaskSame(t)
    BY <1>2, <1>5, <1>6, Owners DEF IInv, ThreadSame
  <2> QED  BY <2>1, OtherReader
<1>7. ASSUME NEW s \in Readers, u \in TasksOf[s]
      PROVE  ReaderInv(s)'
  <2>1. ReaderInv(s) /\ TasksOf[s] \subseteq Tasks /\ received_count[s] \in Nat
    BY Owners DEF IInv, TypeOK
  <2>2. reader[s] \notin {"new", "post"}
    BY <1>2, <1>7, <2>1 DEF ReaderInv, Fresh
  <2>3. /\ reader'[s] = reader[s] /\ outcome'[s] = outcome[s]
        /\ (Waits(s)' <=> Waits(s)) /\ (HasNext(s)' <=> HasNext(s))
        /\ received_count'[s] = received_count[s] /\ cancelled'[s] = cancelled[s]
        /\ to_clear'[s] = to_clear[s]
    BY <1>2 DEF Waits, HasNext
  <2>4. Fresh(s)'
    BY <2>2, <2>3 DEF Fresh
  <2>5. Registered(s)'
    BY <1>2, <2>1, <2>3 DEF ReaderInv, Registered
  <2>6. Outcomes(s)'
    BY <2>1, <2>3 DEF ReaderInv, Outcomes
  <2>7. Counted(s)'
    <3>1. Ended(s) \subseteq Ended(s)'
      <4>1. u \notin Ended(s)
        BY <1>2 DEF Ended
      <4>2. \A t \in Tasks : t # u /\ t \in Ended(s) => t \in Ended(s)'
        BY <1>2, <1>4 DEF Ended
      <4> QED  BY <2>1, <4>1, <4>2 DEF Ended
    <3>2. /\ Cardinality(Ended(s)) \in Nat
          /\ Cardinality(Ended(s)') \in Nat
          /\ Cardinality(Ended(s)) <= Cardinality(Ended(s)')
      BY <3>1, CountGrows
    <3>3. Counted(s)
      BY <2>1 DEF ReaderInv
    <3> QED  BY <2>1, <2>3, <3>2, <3>3 DEF Counted
  <2>8. Ordered(s)'
    <3> SUFFICES ASSUME Waits(s)
                 PROVE  \A t \in TasksOf[s] : InOrder(t)'
      BY <2>2, <2>3 DEF Ordered
    <3>1. u \in waiting_task_ids /\ \A t \in TasksOf[s] : InOrder(t)
      BY <1>7, <2>1 DEF ReaderInv, Registered, Ordered
    <3> QED  BY <1>4, <2>1, <3>1
  <2>9. reader[s] \in {"clear", "done"} => u \notin waiting_task_ids
    BY <1>7, <2>1 DEF ReaderInv, Registered
  <2>10. Emptied(s)'
    BY <1>4, <2>1, <2>3, <2>9 DEF ReaderInv, Emptied
  <2>11. Given(s)'
    BY <1>2, <2>1, <2>3 DEF ReaderInv, Given
  <2> QED  BY <2>4, <2>5, <2>6, <2>7, <2>8, <2>10, <2>11 DEF ReaderInv
<1> QED  BY <1>4, <1>6, <1>7

-----------------------------------------------------------------------------
(* The theorems *)

\* Every step keeps the invariant.
LEMMA NextInv == IInv /\ [Next]_vars => IInv'
<1> SUFFICES ASSUME IInv, [Next]_vars
             PROVE  IInv'
  OBVIOUS
<1>1. TypeOK'
  BY TypeNext DEF IInv
<1>2. ASSUME NEW r \in Readers, ReaderStep(r) \/ Close(r)
      PROVE  EndsOnce' /\ \A s \in Readers : ReaderInv(s)'
  <2>1. CASE AddWaiting(r)
    BY <2>1, AddWaitingStep
  <2>2. CASE PostTasks(r)
    BY <2>2, PostTasksStep
  <2>3. CASE Receive(r)
    BY <1>1, <2>3, ReceiveStep
  <2>4. CASE \/ Block(r) \/ Woken(r) \/ Timeout(r) \/ NextChunk(r) \/ Complete(r)
             \/ StopWaiting(r) \/ Close(r)
    BY <2>4, ControlStep
  <2>5. ASSUME NEW t \in TasksOf[r], ClearTask(r, t)
        PROVE  EndsOnce' /\ \A s \in Readers : ReaderInv(s)'
    BY <1>1, <2>5, ClearTaskStep
  <2>6. CASE PostCancels(r)
    BY <2>6, PostCancelsStep
  <2> QED  BY <1>2, <2>1, <2>2, <2>3, <2>4, <2>5, <2>6 DEF ReaderStep
<1>3. ASSUME NEW t \in Tasks, ProcessCancel(t)
      PROVE  EndsOnce' /\ \A s \in Readers : ReaderInv(s)'
  BY <1>3, ProcessCancelStep
<1>7. ASSUME NEW t \in Tasks, TakeTask(t) \/ Defer(t) \/ Launch(t)
      PROVE  EndsOnce' /\ \A s \in Readers : ReaderInv(s)'
  BY <1>7, LoopStep
<1>4. ASSUME NEW t \in Tasks, NEW kind \in Kinds, Send(t, kind)
      PROVE  EndsOnce' /\ \A s \in Readers : ReaderInv(s)'
  BY <1>4, SendStep
<1>5. ASSUME UNCHANGED vars
      PROVE  EndsOnce' /\ \A s \in Readers : ReaderInv(s)'
  <2>1. /\ UNCHANGED <<queue_results, live, sent, got, waiting_task_ids>>
        /\ \A t \in Tasks : Met(t) => Met(t)'
    BY <1>5 DEF vars, sharedVars, mainVars, loopVars, Met
  <2>2. EndsOnce' /\ \A t \in Tasks : TaskSame(t)
    BY <2>1, DataSame DEF IInv
  <2>3. ASSUME NEW s \in Readers
        PROVE  ReaderInv(s)'
    <3>1. ThreadSame(s)
      BY <1>5 DEF vars, readerVars, ThreadSame
    <3>2. ReaderInv(s) /\ \A t \in TasksOf[s] : TaskSame(t)
      BY <2>2, Owners DEF IInv
    <3> QED  BY <3>1, <3>2, OtherReader
  <2>4. EndsOnce'
    BY <2>2
  <2> QED  BY <2>3, <2>4, Zenon
<1>6. EndsOnce' /\ \A s \in Readers : ReaderInv(s)'
  <2>1. CASE \E r \in Readers : ReaderStep(r) \/ Close(r)
    BY <1>2, <2>1, Zenon
  <2>2. CASE \E t \in Tasks :
                \/ TakeTask(t) \/ Defer(t) \/ Launch(t) \/ ProcessCancel(t)
                \/ \E kind \in Kinds : Send(t, kind)
    BY <1>3, <1>4, <1>7, <2>2, Zenon
  <2> QED  BY <1>5, <2>1, <2>2, Zenon DEF Next
<1> QED  BY <1>1, <1>6 DEF IInv

\* The invariant always holds.
LEMMA Inductive == Spec => []IInv
BY InitInv, NextInv, PTL DEF Spec

\* The variables keep their types.
THEOREM TypeCorrect == Spec => []TypeOK
<1>1. IInv => TypeOK
  BY DEF IInv
<1> QED  BY <1>1, Inductive, PTL

\* While its reader waits, no result of a task is lost, repeated or overtaken
\* between send() and recv_with_timeout(), however many readers share the queue.
THEOREM NoResultLost == Spec => []ResultsInOrder
<1>1. IInv => ResultsInOrder
  BY DEF IInv, ReaderInv, Ordered, Waits, ResultsInOrder
<1> QED  BY <1>1, Inductive, PTL

\* After stop() neither a result nor an id of the reader is left, whatever send()
\* adds between its locks.
THEOREM StopLeavesNothing == Spec => []NothingLeftBehind
<1>1. IInv => NothingLeftBehind
  <2> SUFFICES ASSUME IInv, NEW r \in Readers, reader[r] = "done"
               PROVE  ResultsOf(TasksOf[r]) = {} /\ waiting_task_ids \cap TasksOf[r] = {}
    BY DEF NothingLeftBehind
  <2>1. \A t \in TasksOf[r] : Silent(t) /\ t \notin waiting_task_ids
    BY DEF IInv, ReaderInv, Emptied, Registered
  <2> QED  BY <2>1 DEF Silent, ResultsOf
<1> QED  BY <1>1, Inductive, PTL

\* A task that still runs for a reader that is done is where its cancel, which is
\* still to come, finds it, or was deferred after its cancel was posted; and a
\* complete response means that every task of it has ended.
THEOREM StopEndsTasks == Spec => []NothingRunsForNobody
<1>1. IInv => NothingRunsForNobody
  BY DEF IInv, ReaderInv, Given, Met, NothingRunsForNobody
<1> QED  BY <1>1, Inductive, PTL
=============================================================================
