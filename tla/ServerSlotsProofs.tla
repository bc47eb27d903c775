-------------------------- MODULE ServerSlotsProofs --------------------------
(***************************************************************************)
(* Theorems about ServerSlots, for any number of slots and tasks, families *)
(* of any size, and any kinds and fates of prompts:                        *)
(*   TypeCorrect              the variables have their types               *)
(*   AlwaysOnePlace           no task is in two places                     *)
(*   AlwaysGoneWhenAnswered   nor anywhere once it is answered             *)
(*   AlwaysRemembered         no request waits for a task that is nowhere  *)
(*   NoOrphansIfParentsStay   children wait for a parent that wakes them   *)
(*   WholePromptIfOneView     slots generate from whole prompts            *)
(*   DeferredServedIfSteady   no task stays deferred                       *)
(*                                                                         *)
(* The inductive invariant is IInv.  QueueInv: a request's task is posted  *)
(* once and carries its family, none of which runs or is answered.         *)
(* HomeInv: a task has one slot, until it is answered.  CancelInv, EndInv: *)
(* cancels come of requests that failed or were left, and those that       *)
(* failed have theirs to come for every task that runs.  Remembered:       *)
(* NobodyForgotten.  StateInv: states, tasks and the program point of the  *)
(* loop go together.  BatchGood: the batch has an output of every slot     *)
(* whose prompt is done, or of its parent, so that the next view or end of *)
(* the batch makes it generate.  WakeInv, WholeInv and DeferInv are what   *)
(* the last three theorems add to it.                                      *)
(***************************************************************************)
EXTENDS ServerSlots, Integers, TLAPS, FiniteSetTheorems, SequenceTheorems,
        WellFoundedInduction

-----------------------------------------------------------------------------
(* What the operators of TaskQueue do to the elements of a deque *)

\* A push adds the task and nothing else, at either end.
LEMMA PushProperties ==
    ASSUME NEW T, NEW q \in Seq(T), NEW t \in T, NEW front
    PROVE  /\ Push(q, t, front) \in Seq(T)
           /\ Push(q, t, front) # <<>>
           /\ \A u : In(Push(q, t, front), u) <=> u = t \/ In(q, u)
<1>1. CASE front
  <2> DEFINE r == <<t>> \o q
  <2>1. Push(q, t, front) = r BY <1>1 DEF Push
  <2>2. r \in Seq(T) /\ Len(r) = Len(q) + 1 /\ r[1] = t OBVIOUS
  <2>3. \A i \in 1 .. Len(q) : r[i + 1] = q[i] OBVIOUS
  <2>4. ASSUME NEW u PROVE In(r, u) <=> u = t \/ In(q, u)
    <3>1. ASSUME In(r, u) PROVE u = t \/ In(q, u)
      <4>1. PICK i \in DOMAIN r : r[i] = u BY <3>1 DEF In
      <4>2. i = 1 \/ i - 1 \in 1 .. Len(q) BY <2>2
      <4>3. CASE i = 1 BY <4>1, <4>3, <2>2
      <4>4. CASE i - 1 \in 1 .. Len(q)
        <5>1. r[(i - 1) + 1] = q[i - 1] BY <4>4, <2>3
        <5>2. i \in Int BY <2>2
        <5> QED BY <5>1, <5>2, <4>1, <4>4 DEF In
      <4> QED BY <4>2, <4>3, <4>4
    <3>2. ASSUME u = t PROVE In(r, u) BY <3>2, <2>2 DEF In
    <3>3. ASSUME In(q, u) PROVE In(r, u)
      <4>1. PICK i \in 1 .. Len(q) : q[i] = u BY <3>3 DEF In
      <4>2. i + 1 \in DOMAIN r /\ r[i + 1] = u BY <4>1, <2>2, <2>3
      <4> QED BY <4>2 DEF In
    <3> QED BY <3>1, <3>2, <3>3
  <2>5. r # <<>> BY <2>2
  <2> QED BY <2>1, <2>2, <2>4, <2>5
<1>2. CASE ~front
  <2> DEFINE r == Append(q, t)
  <2>1. Push(q, t, front) = r BY <1>2 DEF Push
  <2>2. r \in Seq(T) /\ Len(r) = Len(q) + 1 /\ r[Len(q) + 1] = t OBVIOUS
  <2>3. \A i \in 1 .. Len(q) : r[i] = q[i] OBVIOUS
  <2>4. DOMAIN r = 1 .. Len(q) + 1 /\ DOMAIN q = 1 .. Len(q) /\ Len(q) \in Nat BY <2>2
  <2>5. ASSUME NEW u PROVE In(r, u) <=> u = t \/ In(q, u)
    <3> HIDE DEF r
    <3> QED BY <2>2, <2>3, <2>4 DEF In
  <2>6. r # <<>> BY <2>2
  <2> QED BY <2>1, <2>2, <2>5, <2>6
<1> QED BY <1>1, <1>2

\* Dropping position i shortens the deque and keeps what is elsewhere.
LEMMA DropAtProperties ==
    ASSUME NEW T, NEW q \in Seq(T), NEW i \in DOMAIN q
    PROVE  /\ DropAt(q, i) \in Seq(T)
           /\ \A u : In(DropAt(q, i), u) <=> \E j \in DOMAIN q : j # i /\ q[j] = u
<1> DEFINE r == DropAt(q, i)
<1>1. Len(q) \in Nat /\ Len(q) > 0 /\ DOMAIN q = 1 .. Len(q) /\ i \in 1 .. Len(q)
  OBVIOUS
<1>2. DOMAIN r = 1 .. Len(q) - 1
      /\ \A j \in 1 .. Len(q) - 1 : r[j] = IF j < i THEN q[j] ELSE q[j + 1]
  BY DEF DropAt
<1>3. r \in Seq(T)
  <2>1. \A j \in 1 .. Len(q) - 1 : r[j] \in T BY <1>1, <1>2
  <2>2. r \in [1 .. Len(q) - 1 -> T] BY <2>1 DEF DropAt
  <2> QED BY <2>2, <1>1
<1>4. ASSUME NEW u PROVE In(r, u) <=> \E j \in DOMAIN q : j # i /\ q[j] = u
  <2>1. ASSUME In(r, u) PROVE \E j \in DOMAIN q : j # i /\ q[j] = u
    <3>1. PICK k \in 1 .. Len(q) - 1 : r[k] = u BY <2>1, <1>2 DEF In
    <3>2. CASE k < i BY <3>1, <3>2, <1>1, <1>2
    <3>3. CASE ~(k < i)
      <4>1. q[k + 1] = u /\ k + 1 \in DOMAIN q /\ k + 1 # i BY <3>1, <3>3, <1>1, <1>2
      <4> QED BY <4>1
    <3> QED BY <3>2, <3>3
  <2>2. ASSUME NEW j \in DOMAIN q, j # i, q[j] = u PROVE In(r, u)
    <3>1. CASE j < i
      <4>1. j \in 1 .. Len(q) - 1 /\ r[j] = u BY <2>2, <3>1, <1>1, <1>2
      <4> QED BY <4>1, <1>2 DEF In
    <3>2. CASE j > i
      <4>1. j - 1 \in 1 .. Len(q) - 1 /\ ~(j - 1 < i) /\ (j - 1) + 1 = j
        BY <3>2, <1>1
      <4>2. r[j - 1] = u BY <4>1, <2>2, <1>2
      <4> QED BY <4>1, <4>2, <1>2 DEF In
    <3> QED BY <2>2, <3>1, <3>2, <1>1
  <2> QED BY <2>1, <2>2
<1> QED BY <1>3, <1>4

\* An identifier that occurs at most once still does after a push of another task,
\* of a task that is not in the deque yet.
LEMMA PushOnce ==
    ASSUME NEW T, NEW q \in Seq(T), NEW t \in T, NEW front,
           NEW id, OccursOnce(q, id), t.id = id => ~Holds(q, id)
    PROVE  OccursOnce(Push(q, t, front), id)
<1>1. CASE front
  <2> DEFINE r == <<t>> \o q
  <2>1. Push(q, t, front) = r BY <1>1 DEF Push
  <2>2. Len(r) = Len(q) + 1 /\ r[1] = t /\ DOMAIN r = 1 .. Len(q) + 1 OBVIOUS
  <2>3. \A i \in 2 .. Len(q) + 1 : i - 1 \in DOMAIN q /\ r[i] = q[i - 1] OBVIOUS
  <2>4. \A i \in DOMAIN r : i = 1 \/ i \in 2 .. Len(q) + 1 BY <2>2
  <2>5. SUFFICES ASSUME NEW i \in DOMAIN r, NEW j \in DOMAIN r, r[i].id = id, r[j].id = id
                 PROVE  i = j
    BY <2>1 DEF OccursOnce
  <2>6. CASE i = 1 /\ j = 1 BY <2>6
  <2>7. CASE i = 1 /\ j \in 2 .. Len(q) + 1
    BY <2>2, <2>3, <2>5, <2>7 DEF Holds
  <2>8. CASE j = 1 /\ i \in 2 .. Len(q) + 1
    BY <2>2, <2>3, <2>5, <2>8 DEF Holds
  <2>9. CASE i \in 2 .. Len(q) + 1 /\ j \in 2 .. Len(q) + 1
    <3>1. i - 1 = j - 1 BY <2>3, <2>5, <2>9 DEF OccursOnce
    <3> QED BY <3>1, <2>9
  <2> QED BY <2>4, <2>6, <2>7, <2>8, <2>9
<1>2. CASE ~front
  <2> DEFINE r == Append(q, t)
  <2>1. Push(q, t, front) = r BY <1>2 DEF Push
  <2>2. DOMAIN r = 1 .. Len(q) + 1 /\ DOMAIN q = 1 .. Len(q) /\ Len(q) \in Nat
    OBVIOUS
  <2>3. r[Len(q) + 1] = t /\ \A i \in 1 .. Len(q) : r[i] = q[i] OBVIOUS
  <2> HIDE DEF r
  <2> QED BY <2>1, <2>2, <2>3 DEF OccursOnce, Holds
<1> QED BY <1>1, <1>2

\* And after a drop.
LEMMA DropAtOnce ==
    ASSUME NEW T, NEW q \in Seq(T), NEW i \in DOMAIN q, NEW id, OccursOnce(q, id)
    PROVE  OccursOnce(DropAt(q, i), id)
<1> DEFINE r == DropAt(q, i)
           At(j) == IF j < i THEN j ELSE j + 1
<1>1. Len(q) \in Nat /\ DOMAIN q = 1 .. Len(q) /\ i \in 1 .. Len(q) OBVIOUS
<1>2. DOMAIN r = 1 .. Len(q) - 1 BY DEF DropAt
<1>3. \A j \in DOMAIN r : At(j) \in DOMAIN q /\ r[j] = q[At(j)] BY <1>1, <1>2 DEF DropAt
<1>4. \A j, k \in DOMAIN r : At(j) = At(k) => j = k BY <1>1, <1>2
<1> HIDE DEF r, At
<1>5. OccursOnce(r, id) BY <1>3, <1>4 DEF OccursOnce
<1> QED BY <1>5 DEF r

\* Without drops the task with the identifier id, if there is one, and no other.
LEMMA WithoutProperties ==
    ASSUME NEW T, NEW q \in Seq(T), NEW id, OccursOnce(q, id)
    PROVE  /\ Without(q, id) \in Seq(T)
           /\ \A u : In(Without(q, id), u) <=> In(q, u) /\ u.id # id
           /\ \A x : OccursOnce(q, x) => OccursOnce(Without(q, id), x)
<1>1. CASE Holds(q, id)
  <2> DEFINE i == CHOOSE i \in DOMAIN q : q[i].id = id
  <2>1. i \in DOMAIN q /\ q[i].id = id BY <1>1 DEF Holds
  <2> HIDE DEF i
  <2>2. \A j \in DOMAIN q : j # i <=> q[j].id # id BY <2>1 DEF OccursOnce
  <2>3. Without(q, id) = DropAt(q, i) BY <1>1 DEF Without, i
  <2>4. \A u : In(DropAt(q, i), u) <=> \E j \in DOMAIN q : j # i /\ q[j] = u
    BY <2>1, DropAtProperties
  <2>5. DropAt(q, i) \in Seq(T) BY <2>1, DropAtProperties
  <2>6. \A x : OccursOnce(q, x) => OccursOnce(DropAt(q, i), x) BY <2>1, DropAtOnce
  <2>7. \A u : In(DropAt(q, i), u) <=> In(q, u) /\ u.id # id
    BY <2>2, <2>4 DEF In
  <2> QED BY <2>3, <2>5, <2>6, <2>7
<1>2. CASE ~Holds(q, id)
  <2>1. Without(q, id) = q BY <1>2 DEF Without
  <2>2. \A u : In(q, u) => u.id # id BY <1>2 DEF In, Holds
  <2> QED BY <2>1, <2>2
<1> QED BY <1>1, <1>2

\* The front and the rest of a deque that is not empty.
LEMMA PopProperties ==
    ASSUME NEW T, NEW q \in Seq(T), q # <<>>
    PROVE  /\ Head(q) \in T
           /\ Tail(q) \in Seq(T)
           /\ \A u : In(q, u) <=> u = Head(q) \/ In(Tail(q), u)
           /\ \A x : OccursOnce(q, x) => OccursOnce(Tail(q), x)
           /\ \A x : OccursOnce(q, x) /\ Head(q).id = x => ~Holds(Tail(q), x)
<1> DEFINE r == Tail(q)
<1>1. Len(q) \in Nat /\ Len(q) > 0 /\ DOMAIN q = 1 .. Len(q) OBVIOUS
<1>2. Head(q) = q[1] /\ Head(q) \in T /\ r \in Seq(T) BY <1>1
<1>3. DOMAIN r = 1 .. Len(q) - 1 /\ \A i \in 1 .. Len(q) - 1 : r[i] = q[i + 1] BY <1>1
<1> HIDE DEF r
<1>4. \A i \in DOMAIN r : i + 1 \in DOMAIN q /\ i + 1 # 1 /\ r[i] = q[i + 1] BY <1>1, <1>3
<1>5. \A i \in DOMAIN q : i # 1 => i - 1 \in DOMAIN r /\ r[i - 1] = q[i]
  <2> SUFFICES ASSUME NEW i \in DOMAIN q, i # 1 PROVE i - 1 \in DOMAIN r /\ r[i - 1] = q[i]
    OBVIOUS
  <2>1. i - 1 \in 1 .. Len(q) - 1 /\ (i - 1) + 1 = i BY <1>1
  <2> QED BY <2>1, <1>3
<1>6. 1 \in DOMAIN q BY <1>1
<1>7. \A u : In(q, u) <=> u = Head(q) \/ In(r, u) BY <1>2, <1>4, <1>5, <1>6 DEF In
<1>8. \A i, j \in DOMAIN r : i + 1 = j + 1 => i = j BY <1>1, <1>3
<1>9. \A x : OccursOnce(q, x) => OccursOnce(r, x)
  <2> SUFFICES ASSUME NEW x, OccursOnce(q, x),
                      NEW i \in DOMAIN r, NEW j \in DOMAIN r, r[i].id = x, r[j].id = x
               PROVE  i = j
    BY DEF OccursOnce
  <2>1. i + 1 = j + 1 BY <1>4 DEF OccursOnce
  <2> QED BY <2>1, <1>8
<1>10. \A x : OccursOnce(q, x) /\ Head(q).id = x => ~Holds(r, x)
  <2> SUFFICES ASSUME NEW x, OccursOnce(q, x), Head(q).id = x, NEW i \in DOMAIN r, r[i].id = x
               PROVE  FALSE
    BY DEF Holds
  <2>1. i + 1 \in DOMAIN q /\ i + 1 # 1 /\ q[i + 1].id = x /\ q[1].id = x BY <1>2, <1>4
  <2> QED BY <2>1, <1>6 DEF OccursOnce
<1> QED BY <1>2, <1>7, <1>9, <1>10 DEF r

-----------------------------------------------------------------------------
(* Numbers *)

\* A set of natural numbers that is not empty has a least element.
LEMMA LeastNumber ==
    ASSUME NEW S \in SUBSET Nat, S # {}
    PROVE  \E n \in S : \A m \in S : n <= m
<1>1. PICK n \in S : \A m \in S : ~(<<m, n>> \in OpToRel(<, Nat))
  BY NatLessThanWellFounded, WFMin
<1>2. \A m \in S : <<m, n>> \in OpToRel(<, Nat) <=> m < n
  BY Zenon DEF OpToRel
<1>3. \A m \in S : ~(m < n)
  BY <1>1, <1>2, Zenon
<1> QED  BY <1>3

\* A set of numbers with 0 and with the successors of its elements has them all.
LEMMA Induct ==
    ASSUME NEW T \in SUBSET Nat, 0 \in T, \A n \in Nat : n \in T => n + 1 \in T
    PROVE  T = Nat
<1> DEFINE S == Nat \ T
<1> SUFFICES ASSUME S # {}
             PROVE  FALSE
  OBVIOUS
<1>1. PICK n \in S : \A m \in S : n <= m
  BY LeastNumber
<1>2. n \in Nat /\ n # 0 /\ n \notin T
  OBVIOUS
<1>3. n - 1 \in Nat /\ ~(n <= n - 1)
  BY <1>2
<1>4. n - 1 \in T
  BY <1>1, <1>3
<1>5. (n - 1) + 1 = n
  BY <1>2
<1> QED  BY <1>2, <1>3, <1>4, <1>5

\* The smallest element of a set of natural numbers.
LEMMA MinIn ==
    ASSUME NEW S \in SUBSET Nat, S # {}
    PROVE  Min(S) \in S
<1>1. \E n \in S : \A m \in S : n <= m
  BY LeastNumber
<1> QED  BY <1>1 DEF Min

-----------------------------------------------------------------------------
(* The slots in their order *)

LEMMA SlotsFinite ==
    /\ IsFiniteSet(Slots)
    /\ \A ss \in SUBSET Slots : IsFiniteSet(ss) /\ Cardinality(ss) \in Nat
<1>1. IsFiniteSet(Slots)
  BY SlotsAssumption, FS_Interval DEF Slots
<1>2. \A ss \in SUBSET Slots : IsFiniteSet(ss)
  BY <1>1, FS_Subset
<1> QED  BY <1>1, <1>2, FS_CardinalityType

Below(ss, s) == {r \in ss : r < s}

\* The ranks of the slots of a set are the numbers from 0 on.
LEMMA RanksOf ==
    ASSUME NEW ss \in SUBSET Slots
    PROVE  /\ \A s, r \in ss : Cardinality(Below(ss, s)) = Cardinality(Below(ss, r)) => s = r
           /\ \A k \in 0 .. Cardinality(ss) - 1 : \E s \in ss : Cardinality(Below(ss, s)) = k
<1> DEFINE n == Cardinality(ss)
           rank == [s \in ss |-> Cardinality(Below(ss, s))]
<1>1. IsFiniteSet(ss) /\ n \in Nat
  BY SlotsFinite
<1>2. \A s \in ss : s \in Nat
  BY SlotsAssumption DEF Slots
<1>3. \A s \in ss : Below(ss, s) \in SUBSET ss /\ Below(ss, s) \in SUBSET Slots
  BY DEF Below
<1>4. \A s \in ss : IsFiniteSet(Below(ss, s)) /\ Cardinality(Below(ss, s)) \in Nat
  BY <1>3, SlotsFinite
<1>5. ASSUME NEW s \in ss
      PROVE  rank[s] \in 0 .. n - 1
  <2>1. Below(ss, s) \in SUBSET (ss \ {s})
    BY <1>2 DEF Below
  <2>2. IsFiniteSet(ss \ {s}) /\ Cardinality(ss \ {s}) = n - 1
    BY <1>1, FS_RemoveElement
  <2>3. Cardinality(Below(ss, s)) <= n - 1
    BY <2>1, <2>2, FS_Subset
  <2>4. Cardinality(Below(ss, s)) \in Nat
    BY <1>4
  <2> QED  BY <1>1, <2>3, <2>4
<1>6. ASSUME NEW s \in ss, NEW r \in ss, s < r
      PROVE  Cardinality(Below(ss, s)) # Cardinality(Below(ss, r))
  <2>1. Below(ss, s) \in SUBSET Below(ss, r) /\ s \in Below(ss, r) /\ s \notin Below(ss, s)
    BY <1>2, <1>6 DEF Below
  <2>2. IsFiniteSet(Below(ss, r))
    BY <1>4
  <2> QED  BY <2>1, <2>2, FS_Subset
<1>7. \A s, r \in ss : Cardinality(Below(ss, s)) = Cardinality(Below(ss, r)) => s = r
  <2> SUFFICES ASSUME NEW s \in ss, NEW r \in ss,
                      Cardinality(Below(ss, s)) = Cardinality(Below(ss, r)), s # r
               PROVE  FALSE
    OBVIOUS
  <2>1. s < r \/ r < s
    BY <1>2
  <2> QED  BY <1>6, <2>1
<1>8. rank \in Injection(ss, 0 .. n - 1)
  <2>1. rank \in [ss -> 0 .. n - 1]
    BY <1>5
  <2>2. \A s, r \in ss : rank[s] = rank[r] => s = r
    BY <1>7
  <2> QED  BY <2>1, <2>2 DEF Injection, IsInjective
<1>9. IsFiniteSet(0 .. n - 1) /\ Cardinality(0 .. n - 1) = n
  BY <1>1, FS_Interval
<1>10. rank \in Surjection(ss, 0 .. n - 1)
  <2> HIDE DEF rank, n
  <2> QED  BY <1>8, <1>9, FS_Injection DEF n
<1>11. \A k \in 0 .. n - 1 : \E s \in ss : rank[s] = k
  BY <1>10 DEF Surjection
<1> QED  BY <1>7, <1>11

\* They are a sequence without repetitions.
LEMMA InOrder ==
    ASSUME NEW ss \in SUBSET Slots
    PROVE  /\ InSlotOrder(ss) \in Seq(ss) /\ InSlotOrder(ss) \in Seq(Slots)
           /\ Len(InSlotOrder(ss)) = Cardinality(ss)
           /\ IsInjective(InSlotOrder(ss))
           /\ ToSet(InSlotOrder(ss)) = ss
<1> DEFINE n == Cardinality(ss)
           q == InSlotOrder(ss)
           Is(s, i) == Cardinality(Below(ss, s)) = i - 1
<1>1. q = [i \in 1 .. n |-> CHOOSE s \in ss : Is(s, i)]
  BY DEF InSlotOrder, Below
<1>2. n \in Nat
  BY SlotsFinite
<1>3. ASSUME NEW i \in 1 .. n
      PROVE  q[i] \in ss /\ Is(q[i], i)
  <2>1. i - 1 \in 0 .. n - 1
    BY <1>2
  <2>2. \E s \in ss : Is(s, i)
    BY <2>1, RanksOf
  <2>3. q[i] = CHOOSE s \in ss : Is(s, i)
    BY <1>1
  <2> HIDE DEF Is, q
  <2> QED  BY <2>2, <2>3
<1> HIDE DEF q, Is
<1>4. q \in [1 .. n -> ss] /\ DOMAIN q = 1 .. n
  BY <1>1, <1>3
<1>5. q \in Seq(ss) /\ q \in Seq(Slots) /\ Len(q) = n
  BY <1>2, <1>4
<1>6. IsInjective(q)
  <2> SUFFICES ASSUME NEW i \in 1 .. n, NEW j \in 1 .. n, q[i] = q[j]
               PROVE  i = j
    BY <1>4 DEF IsInjective
  <2>1. i - 1 = j - 1
    BY <1>3 DEF Is
  <2> QED  BY <2>1
<1>7. ToSet(q) = ss
  <2>1. ToSet(q) \in SUBSET ss
    BY <1>4 DEF ToSet
  <2>2. ASSUME NEW s \in ss
        PROVE  s \in ToSet(q)
    <3> DEFINE k == Cardinality(Below(ss, s))
    <3>1. PICK i \in 1 .. n : i - 1 = k
      <4>1. Below(ss, s) \in SUBSET (ss \ {s})
        BY SlotsAssumption DEF Below, Slots
      <4>2. IsFiniteSet(ss \ {s}) /\ Cardinality(ss \ {s}) = n - 1
        BY SlotsFinite, FS_RemoveElement
      <4>3. k <= n - 1 /\ k \in Nat
        BY <4>1, <4>2, FS_Subset, SlotsFinite
      <4>4. k + 1 \in 1 .. n /\ (k + 1) - 1 = k
        BY <4>3, <1>2
      <4> QED  BY <4>4
    <3>2. q[i] \in ss /\ Cardinality(Below(ss, q[i])) = Cardinality(Below(ss, s))
      BY <1>3, <3>1 DEF Is
    <3>3. q[i] = s
      BY <3>2, RanksOf
    <3> QED  BY <1>4, <3>3 DEF ToSet
  <2> QED  BY <2>1, <2>2
<1> QED  BY <1>5, <1>6, <1>7 DEF q

-----------------------------------------------------------------------------
(* The queues *)

RunTasks   == {RunTask(t) : t \in Requests}
QueuePairs == [tasks : Seq(QueuedTasks), deferred : Seq(RunTasks)]

InEither(q, u) == In(q.tasks, u) \/ In(q.deferred, u)

\* The pair of queues q has the task t at most once.
Once(q, t) ==
    /\ OccursOnce(q.tasks, t) /\ OccursOnce(q.deferred, t)
    /\ ~(Holds(q.tasks, t) /\ Holds(q.deferred, t))

\* r has what q has, and tasks only move from the deferred ones to the others.
Moved(q, r) ==
    /\ r \in QueuePairs
    /\ \A u : InEither(r, u) <=> InEither(q, u)
    /\ \A u : In(q.tasks, u) => In(r.tasks, u)
    /\ \A t : Once(q, t) => Once(r, t)

LEMMA TaskFacts ==
    /\ \A t : RunTask(t).id = t /\ RunTask(t).type = "run"
    /\ \A t : CancelTask(t).id \notin Tasks /\ CancelTask(t).type = "cancel"
              /\ CancelTask(t).target = t
    /\ NextResponse.id \notin Tasks /\ NextResponse.type = "next_response"
    /\ RunTasks \subseteq QueuedTasks
    /\ NextResponse \in QueuedTasks
    /\ \A t \in Requests : RunTask(t) \in RunTasks
    /\ \A t \in Tasks : CancelTask(t) \in QueuedTasks
    /\ \A t, u : RunTask(t) = RunTask(u) => t = u
    /\ \A t, u : CancelTask(t) = CancelTask(u) => t = u
    /\ \A t, u : RunTask(t) # CancelTask(u) /\ RunTask(t) # NextResponse
                 /\ CancelTask(u) # NextResponse
    /\ Requests \subseteq Tasks
<1>1. \A t : RunTask(t).id = t /\ RunTask(t).type = "run"
  BY DEF RunTask
<1>2. \A t : CancelTask(t).id = "fresh" /\ CancelTask(t).type = "cancel"
              /\ CancelTask(t).target = t
  BY DEF CancelTask
<1>3. NextResponse.id = "fresh" /\ NextResponse.type = "next_response"
  BY DEF NextResponse
<1>4. "fresh" \notin Tasks
  BY SlotsAssumption
<1>5. "run" # "cancel" /\ "run" # "next_response" /\ "cancel" # "next_response"
  OBVIOUS
<1>6. \A t, u : RunTask(t) = RunTask(u) => t = u
  BY <1>1
<1>7. \A t, u : CancelTask(t) = CancelTask(u) => t = u
  BY <1>2
<1>8. Requests \subseteq Tasks
  BY DEF Requests
<1>9. /\ RunTasks \subseteq QueuedTasks
      /\ NextResponse \in QueuedTasks
      /\ \A t \in Requests : RunTask(t) \in RunTasks
      /\ \A t \in Tasks : CancelTask(t) \in QueuedTasks
  BY DEF RunTasks, QueuedTasks
<1>10. \A t, u : RunTask(t) # CancelTask(u) /\ RunTask(t) # NextResponse
                 /\ CancelTask(u) # NextResponse
  BY <1>1, <1>2, <1>3, <1>5
<1> QED  BY <1>1, <1>2, <1>3, <1>4, <1>6, <1>7, <1>8, <1>9, <1>10

\* In the queues only the task itself has its identifier.
LEMMA HoldsMeans ==
    ASSUME NEW q \in Seq(QueuedTasks), NEW t \in Tasks
    PROVE  /\ Holds(q, t) <=> In(q, RunTask(t))
           /\ \A i \in DOMAIN q : q[i].id = t <=> q[i] = RunTask(t)
<1>1. \A i \in DOMAIN q : q[i] \in QueuedTasks
  OBVIOUS
<1>2. \A u \in QueuedTasks : u.id = t => u = RunTask(t)
  <2> SUFFICES ASSUME NEW u \in QueuedTasks, u.id = t
               PROVE  u = RunTask(t)
    OBVIOUS
  <2>1. CASE u \in RunTasks
    <3>1. PICK r \in Requests : u = RunTask(r)
      BY <2>1 DEF RunTasks
    <3> QED  BY <3>1, TaskFacts
  <2>2. CASE u \in {CancelTask(r) : r \in Tasks}
    <3>1. PICK r \in Tasks : u = CancelTask(r)
      BY <2>2
    <3> QED  BY <3>1, TaskFacts
  <2>3. CASE u = NextResponse
    BY <2>3, TaskFacts
  <2> QED  BY <2>1, <2>2, <2>3 DEF QueuedTasks, RunTasks
<1>3. \A i \in DOMAIN q : q[i].id = t <=> q[i] = RunTask(t)
  BY <1>1, <1>2, TaskFacts
<1> QED  BY <1>3 DEF Holds, In

LEMMA DeferredAreQueued == Seq(RunTasks) \subseteq Seq(QueuedTasks)
BY TaskFacts

\* The deferred task that is moved is one of them.
LEMMA ForSlotIn ==
    ASSUME NEW d \in Seq(RunTasks), d # <<>>, NEW s
    PROVE  ForSlot(d, s) \in DOMAIN d
<1> DEFINE asking == {i \in DOMAIN d : Asks(d[i], s)}
<1>1. DOMAIN d = 1 .. Len(d) /\ Len(d) \in Nat /\ 1 \in DOMAIN d
  OBVIOUS
<1>2. asking \in SUBSET Nat
  BY <1>1
<1>3. asking # {} => Min(asking) \in asking
  BY <1>2, MinIn
<1>4. ForSlot(d, s) = IF asking = {} THEN 1 ELSE Min(asking)
  BY DEF ForSlot
<1> QED  BY <1>1, <1>3, <1>4

\* pop_deferred_task neither loses nor copies a task.
LEMMA PopDeferredMoves ==
    ASSUME NEW q \in QueuePairs, NEW s
    PROVE  Moved(q, PopDeferred(q, s))
<1>1. CASE q.deferred = <<>>
  <2>1. PopDeferred(q, s) = q
    BY <1>1 DEF PopDeferred
  <2> QED  BY <2>1 DEF Moved
<1>2. CASE q.deferred # <<>>
  <2> DEFINE d == q.deferred
             i == ForSlot(d, s)
             u == d[i]
             t2 == Push(q.tasks, u, TRUE)
             d2 == DropAt(d, i)
             r  == PopDeferred(q, s)
  <2>1. r = [tasks |-> t2, deferred |-> d2]
    BY <1>2 DEF PopDeferred
  <2>2. q.tasks \in Seq(QueuedTasks) /\ d \in Seq(RunTasks)
    BY DEF QueuePairs
  <2>3. i \in DOMAIN d
    BY <1>2, <2>2, ForSlotIn
  <2>4. u \in RunTasks /\ u \in QueuedTasks
    BY <2>2, <2>3, TaskFacts
  <2>5. r.tasks = t2 /\ r.deferred = d2
    BY <2>1
  <2> HIDE DEF i, r
  <2>6. t2 \in Seq(QueuedTasks) /\ \A v : In(t2, v) <=> v = u \/ In(q.tasks, v)
    <3> DEFINE w == q.tasks
    <3>1. w \in Seq(QueuedTasks)
      BY <2>2
    <3> HIDE DEF u, d, w
    <3>2. /\ Push(w, u, TRUE) \in Seq(QueuedTasks)
          /\ \A v : In(Push(w, u, TRUE), v) <=> v = u \/ In(w, v)
      BY <2>4, <3>1, PushProperties
    <3> QED  BY <3>2 DEF w
  <2>7. d2 \in Seq(RunTasks) /\ \A v : In(d2, v) <=> \E j \in DOMAIN d : j # i /\ d[j] = v
    BY <2>2, <2>3, DropAtProperties
  <2>8. r \in QueuePairs
    BY <2>1, <2>6, <2>7 DEF QueuePairs
  <2>9. \A v : In(d, v) <=> v = u \/ In(d2, v)
    BY <2>3, <2>7 DEF In
  <2>10. \A v : InEither(r, v) <=> InEither(q, v)
    <3> HIDE DEF t2, d2, u
    <3> QED  BY <2>5, <2>6, <2>9 DEF InEither
  <2>11. ASSUME NEW t, Once(q, t)
         PROVE  Once(r, t)
    <3>1. OccursOnce(q.tasks, t) /\ OccursOnce(d, t) /\ ~(Holds(q.tasks, t) /\ Holds(d, t))
      BY <2>11 DEF Once
    <3>2. u.id = t => Holds(d, t)
      BY <2>3 DEF Holds
    <3>3. OccursOnce(t2, t)
      <4> HIDE DEF u, d
      <4> QED  BY <2>2, <2>4, <3>1, <3>2, PushOnce
    <3>4. OccursOnce(d2, t)
      BY <2>2, <2>3, <3>1, DropAtOnce
    <3>5. Holds(d2, t) => Holds(d, t) /\ u.id # t
      <4> SUFFICES ASSUME Holds(d2, t)
                   PROVE  Holds(d, t) /\ u.id # t
        OBVIOUS
      <4>1. PICK k \in DOMAIN d2 : d2[k].id = t
        BY DEF Holds
      <4>2. In(d2, d2[k])
        BY DEF In
      <4>3. PICK j \in DOMAIN d : j # i /\ d[j] = d2[k]
        BY <2>7, <4>2
      <4>4. d[j].id = t
        BY <4>1, <4>3
      <4>5. d[i].id # t
        BY <2>3, <3>1, <4>3, <4>4 DEF OccursOnce
      <4> QED  BY <4>4, <4>5 DEF Holds
    <3>6. Holds(t2, t) => u.id = t \/ Holds(q.tasks, t)
      <4> SUFFICES ASSUME Holds(t2, t)
                   PROVE  u.id = t \/ Holds(q.tasks, t)
        OBVIOUS
      <4>1. PICK k \in DOMAIN t2 : t2[k].id = t
        BY DEF Holds
      <4>2. In(t2, t2[k])
        BY DEF In
      <4>3. t2[k] = u \/ In(q.tasks, t2[k])
        BY <2>6, <4>2
      <4> QED  BY <4>1, <4>3 DEF In, Holds
    <3> HIDE DEF t2, d2, u
    <3> QED  BY <2>5, <3>1, <3>3, <3>4, <3>5, <3>6 DEF Once
  <2>12. \A v : In(q.tasks, v) => In(r.tasks, v)
    BY <2>5, <2>6
  <2> QED  BY <2>8, <2>10, <2>11, <2>12 DEF Moved, r
<1> QED  BY <1>1, <1>2

LEMMA MovedOn ==
    ASSUME NEW q, NEW r, NEW p, Moved(q, r), Moved(r, p)
    PROVE  Moved(q, p)
BY DEF Moved

\* The definition of the function of Popped, for the first n slots of an order.
Popping(q, order, n, f) ==
    f = [k \in 0 .. n |-> IF k = 0 THEN q ELSE PopDeferred(f[k - 1], order[k])]

LEMMA PoppedMeans ==
    ASSUME NEW q, NEW order
    PROVE  Popped(q, order) = (CHOOSE f : Popping(q, order, Len(order), f))[Len(order)]
BY Zenon DEF Popped, Popping

LEMMA PoppingExists ==
    ASSUME NEW q, NEW order, NEW n \in Nat
    PROVE  \E f : Popping(q, order, n, f)
<1> DEFINE T == {m \in Nat : \E f : Popping(q, order, m, f)}
<1>1. 0 \in T
  <2> DEFINE f == [k \in 0 .. 0 |-> q]
  <2>1. Popping(q, order, 0, f)
    BY DEF Popping
  <2> QED  BY <2>1
<1>2. ASSUME NEW m \in Nat, m \in T
      PROVE  m + 1 \in T
  <2>1. PICK f : Popping(q, order, m, f)
    BY <1>2
  <2> DEFINE g == [k \in 0 .. m + 1 |->
                      IF k = m + 1 THEN PopDeferred(f[m], order[k]) ELSE f[k]]
             G(k) == IF k = 0 THEN q ELSE PopDeferred(g[k - 1], order[k])
  <2>2. \A k \in 0 .. m : f[k] = IF k = 0 THEN q ELSE PopDeferred(f[k - 1], order[k])
    BY <2>1, Zenon DEF Popping
  <2>3. \A k \in 0 .. m : g[k] = f[k]
    OBVIOUS
  <2>4. g[m + 1] = PopDeferred(f[m], order[m + 1])
    OBVIOUS
  <2>5. g = [k \in 0 .. m + 1 |-> g[k]]
    OBVIOUS
  <2> HIDE DEF g
  <2>6. ASSUME NEW k \in 0 .. m + 1
        PROVE  g[k] = G(k)
    <3>1. CASE k = m + 1
      <4>1. k # 0 /\ k - 1 = m /\ m \in 0 .. m
        BY <3>1
      <4> QED  BY <2>3, <2>4, <3>1, <4>1
    <3>2. CASE k # m + 1 /\ k # 0
      <4>1. k \in 0 .. m /\ k - 1 \in 0 .. m
        BY <3>2
      <4> QED  BY <2>2, <2>3, <3>2, <4>1
    <3>3. CASE k = 0
      <4>1. 0 \in 0 .. m
        OBVIOUS
      <4> QED  BY <2>2, <2>3, <3>3, <4>1
    <3> QED  BY <3>1, <3>2, <3>3
  <2>7. Popping(q, order, m + 1, g)
    BY <2>5, <2>6 DEF Popping
  <2> QED  BY <2>7
<1>3. T = Nat
  <2>1. T \in SUBSET Nat
    OBVIOUS
  <2> HIDE DEF T
  <2> QED  BY <1>1, <1>2, <2>1, Induct
<1> QED  BY <1>3

\* Neither do the pops of several slots.
LEMMA PoppingMoves ==
    ASSUME NEW q \in QueuePairs, NEW order, NEW n \in Nat, NEW f, Popping(q, order, n, f)
    PROVE  \A k \in 0 .. n : Moved(q, f[k])
<1>1. \A k \in 0 .. n : f[k] = IF k = 0 THEN q ELSE PopDeferred(f[k - 1], order[k])
  BY Zenon DEF Popping
<1> DEFINE T == {k \in Nat : k <= n => Moved(q, f[k])}
<1>2. 0 \in T
  <2>1. 0 \in 0 .. n
    OBVIOUS
  <2>2. f[0] = q
    BY <1>1, <2>1
  <2>3. Moved(q, q)
    BY DEF Moved
  <2> QED  BY <2>2, <2>3
<1>3. ASSUME NEW k \in Nat, k \in T
      PROVE  k + 1 \in T
  <2> SUFFICES ASSUME k + 1 <= n
               PROVE  Moved(q, f[k + 1])
    OBVIOUS
  <2>1. k <= n /\ k + 1 \in 0 .. n /\ k + 1 # 0 /\ (k + 1) - 1 = k
    OBVIOUS
  <2>2. Moved(q, f[k])
    BY <1>3, <2>1
  <2>3. f[k + 1] = PopDeferred(f[k], order[k + 1])
    BY <1>1, <2>1
  <2>4. f[k] \in QueuePairs
    BY <2>2 DEF Moved
  <2>5. Moved(f[k], f[k + 1])
    BY <2>3, <2>4, PopDeferredMoves
  <2> QED  BY <2>2, <2>5, MovedOn
<1>4. T = Nat
  <2>1. T \in SUBSET Nat
    OBVIOUS
  <2> HIDE DEF T
  <2> QED  BY <1>2, <1>3, <2>1, Induct
<1> QED  BY <1>4

LEMMA PoppedMoves ==
    ASSUME NEW q \in QueuePairs, NEW order, Len(order) \in Nat
    PROVE  Moved(q, Popped(q, order))
<1> DEFINE n == Len(order)
<1>1. PICK f : f = CHOOSE h : Popping(q, order, n, h)
  OBVIOUS
<1>2. Popping(q, order, n, f)
  BY <1>1, PoppingExists
<1>3. Popped(q, order) = f[n]
  BY <1>1, PoppedMeans
<1>4. n \in 0 .. n
  OBVIOUS
<1> QED  BY <1>2, <1>3, <1>4, PoppingMoves

-----------------------------------------------------------------------------
(* Families *)

FamilyFacts ==
    /\ \A t \in Tasks : t \in Family(t) /\ Family(t) \subseteq Tasks
    /\ \A t, v \in Requests : \A u \in Family(t) \cap Family(v) : t = v
    /\ \A t \in Tasks : \A c \in ToSet(ChildrenOf[t]) : c \notin Requests /\ t \in Requests /\ c # t
    /\ \A u \in Tasks : \E t \in Requests : u \in Family(t)

LEMMA Families == FamilyFacts
<1>1. \A t \in Tasks : ToSet(ChildrenOf[t]) \subseteq Tasks
  <2> SUFFICES ASSUME NEW t \in Tasks
               PROVE  ToSet(ChildrenOf[t]) \subseteq Tasks
    OBVIOUS
  <2>1. ChildrenOf[t] \in Seq(Tasks)
    BY SlotsAssumption
  <2> QED  BY <2>1 DEF ToSet
<1>2. \A t, v \in Tasks : \A u \in ToSet(ChildrenOf[t]) \cap ToSet(ChildrenOf[v]) : t = v
  <2> SUFFICES ASSUME NEW t \in Tasks, NEW v \in Tasks,
                      NEW u \in ToSet(ChildrenOf[t]) \cap ToSet(ChildrenOf[v])
               PROVE  t = v
    OBVIOUS
  <2>1. PICK i \in DOMAIN ChildrenOf[t] : u = ChildrenOf[t][i]
    BY DEF ToSet
  <2>2. PICK j \in DOMAIN ChildrenOf[v] : u = ChildrenOf[v][j]
    BY DEF ToSet
  <2>3. \A a, b \in Tasks :
          \A k \in DOMAIN ChildrenOf[a], l \in DOMAIN ChildrenOf[b] :
             ChildrenOf[a][k] = ChildrenOf[b][l] => a = b /\ k = l
    BY SlotsAssumption
  <2>4. ChildrenOf[t][i] = ChildrenOf[v][j]
    BY <2>1, <2>2
  <2> QED  BY <2>3, <2>4, Zenon
<1>3. \A t \in Tasks : \A c \in ToSet(ChildrenOf[t]) : ChildrenOf[c] = <<>> /\ c # t
  BY SlotsAssumption
<1>4. \A t : t \in Requests <=> t \in Tasks /\ \A p \in Tasks : t \notin ToSet(ChildrenOf[p])
  BY DEF Requests, IsChild
<1>5. ToSet(<<>>) = {}
  BY DEF ToSet
<1>6. \A t \in Tasks : \A c \in ToSet(ChildrenOf[t]) : c \notin Requests /\ t \in Requests /\ c # t
  BY <1>1, <1>3, <1>4, <1>5
<1>7. \A t, v \in Requests : \A u \in Family(t) \cap Family(v) : t = v
  BY <1>2, <1>4 DEF Family
<1>8. \A u \in Tasks : \E t \in Requests : u \in Family(t)
  BY <1>4, <1>6 DEF Family
<1> QED  BY <1>1, <1>6, <1>7, <1>8 DEF FamilyFacts, Family

-----------------------------------------------------------------------------
(* The inductive invariant *)

Queues == [tasks |-> queue_tasks, deferred |-> queue_tasks_deferred]

\* The task of a request is in one of the queues or in the hand, if anywhere.
SingleIn(t) ==
    /\ Once(Queues, t)
    /\ hand = <<RunTask(t)>> => ~InEither(Queues, RunTask(t))

\* A cancel is on its way to the task.
Pending(u) == hand = <<CancelTask(u)>> \/ In(queue_tasks, CancelTask(u))

\* No task of the family has been answered or runs.
Untouched(t) == \A u \in Family(t) : answer[u] = "none" /\ \A s \in Slots : slot_task[s] # u

\* A request's task is posted once, and carries its family until it is launched
\* or dropped.
QueueInv ==
    \A t \in Requests :
        /\ SingleIn(t)
        /\ Carried(t) => request[t] # "new" /\ Untouched(t)
        /\ request[t] = "new" => Untouched(t)

\* A task is in one slot, and leaves it when it is answered.
HomeInv ==
    /\ \A s, r \in Slots : slot_task[s] = slot_task[r] /\ slot_task[s] # NoTask => s = r
    /\ \A s \in Slots : slot_task[s] # NoTask => answer[slot_task[s]] = "none"

\* The cancels of a request that was given up.
CancelInv ==
    \A t \in Requests : \A u \in Family(t) :
        /\ Pending(u) => request[t] \in {"failed", "left"}
        /\ request[t] = "failed" /\ (\E s \in Slots : slot_task[s] = u) => Pending(u)

\* How requests end.
EndInv ==
    \A t \in Requests :
        /\ request[t] = "served" => \A u \in Family(t) : answer[u] = "final"
        /\ request[t] = "left" => t \in Impatient
        /\ request[t] = "failed" => \E u \in Family(t) : answer[u] = "error"

\* NobodyForgotten for the request t.
Remembered(t) ==
    request[t] = "waiting" =>
        \/ \E u \in Family(t) : answer[u] = "error"
        \/ \A u \in Family(t) :
              answer[u] # "none" \/ (\E s \in Slots : slot_task[s] = u) \/ Carried(t)

TaskInv == QueueInv /\ HomeInv /\ CancelInv /\ EndInv /\ \A t \in Requests : Remembered(t)

\* The states of the slots go with their tasks and with the main loop, and the batch
\* has outputs of slots that generate or whose prompt is done: all of these, but for
\* the children of those in the batch.
StateInv ==
    /\ \A s \in Slots : state[s] = "IDLE" <=> slot_task[s] = NoTask
    /\ \A s \in Slots : state[s] \in {"STARTED", "PROCESSING_PROMPT"} => slot_task[s] \in Requests
    /\ \A s \in Slots : state[s] = "WAIT_OTHER" => slot_task[s] \notin Requests
    /\ \A s \in Slots : state[s] = "DONE_PROMPT" => loop = "decode"

BatchGood ==
    /\ IsInjective(batch)
    /\ \A i \in DOMAIN batch :
          \/ state[batch[i]] = "GENERATING"
          \/ state[batch[i]] = "DONE_PROMPT" /\ slot_task[batch[i]] \in Requests
    /\ \A s \in Slots : state[s] = "DONE_PROMPT" =>
          \E i \in DOMAIN batch :
             /\ state[batch[i]] = "DONE_PROMPT"
             /\ s = batch[i] \/ slot_task[s] \in ToSet(ChildrenOf[slot_task[batch[i]]])

BatchInv == loop = "decode" => BatchGood

IInv == TypeOK /\ TaskInv /\ StateInv /\ BatchInv /\ (hand = <<>> <=> loop # "process")

LEMMA CarriedMeans ==
    \A t : Carried(t) <=> InEither(Queues, RunTask(t)) \/ hand = <<RunTask(t)>>
BY DEF Carried, InEither, Queues

\* It holds at first.
LEMMA StartsRight == Init => IInv
<1> SUFFICES ASSUME Init
             PROVE  IInv
  OBVIOUS
<1> USE DEF Init
<1>1. \A u : ~In(<<>>, u) /\ ~Holds(<<>>, u) /\ OccursOnce(<<>>, u)
  BY DEF In, Holds, OccursOnce
<1>2. \A t : ~Carried(t) /\ ~Pending(t)
  BY <1>1 DEF Carried, Pending
<1>3. \A t : SingleIn(t)
  BY <1>1 DEF SingleIn, Once, Queues
<1>4. \A s \in Slots : slot_task[s] = NoTask
  OBVIOUS
<1>5. NoTask \notin Tasks
  BY SlotsAssumption DEF NoTask
<1>6. \A t \in Requests : Untouched(t)
  BY <1>4, <1>5, Families DEF FamilyFacts, Requests, Untouched
<1>7. TaskInv
  BY <1>2, <1>3, <1>4, <1>6 DEF TaskInv, QueueInv, HomeInv, CancelInv, EndInv, Remembered
<1>8. TypeOK
  <2>1. <<>> \in Seq(QueuedTasks) /\ <<>> \in Seq({RunTask(t) : t \in Requests}) /\ <<>> \in Seq(Slots)
    OBVIOUS
  <2>2. \A t \in Requests : fate[t] \in Fates[t]
    OBVIOUS
  <2>3. request \in [Requests -> {"new", "waiting", "served", "failed", "left"}]
    OBVIOUS
  <2>4. answer \in [Tasks -> {"none", "final", "error"}]
    OBVIOUS
  <2>5. state \in [Slots -> States] /\ slot_task \in [Slots -> Tasks \cup {NoTask}]
    BY DEF States
  <2>6. /\ loop \in {"wait", "drain", "process", "update", "decode"} /\ hand = <<>>
        /\ has_prompt \subseteq Slots /\ aborted \in BOOLEAN
        /\ views \in 0 .. MaxViews
        /\ n_empty_consecutive \in 0 .. (IF aborted THEN 4 ELSE 3)
    <3>1. MaxViews \in Nat
      BY SlotsAssumption
    <3>2. views \in 0 .. MaxViews
      BY <3>1
    <3>3. n_empty_consecutive \in 0 .. (IF aborted THEN 4 ELSE 3)
      OBVIOUS
    <3>4. has_prompt \subseteq Slots /\ aborted \in BOOLEAN
      OBVIOUS
    <3>5. loop \in {"wait", "drain", "process", "update", "decode"} /\ hand = <<>>
      OBVIOUS
    <3> QED  BY <3>2, <3>3, <3>4, <3>5, Zenon
  <2> HIDE DEF Init
  <2>7. queue_tasks \in Seq(QueuedTasks) /\ batch \in Seq(Slots)
        /\ queue_tasks_deferred \in Seq({RunTask(t) : t \in Requests})
    BY <2>1 DEF Init
  <2> QED  BY <2>2, <2>3, <2>4, <2>5, <2>6, <2>7, Zenon DEF TypeOK
<1>9. StateInv /\ BatchInv
  BY DEF StateInv, BatchInv, BatchGood
<1>10. hand = <<>> /\ loop # "process"
  OBVIOUS
<1> QED  BY <1>7, <1>8, <1>9, <1>10, Zenon DEF IInv

-----------------------------------------------------------------------------
(* Steps that end what runs in some slots, or change no task at all *)

KeepsQueues ==
    /\ \A t \in Requests : SingleIn(t) => SingleIn(t)'
    /\ \A t \in Requests : Carried(t)' <=> Carried(t)
    /\ \A u \in Tasks : Pending(u)' <=> Pending(u)

\* The tasks in the slots R are answered and gone.
Ends(R) ==
    /\ KeepsQueues
    /\ \A s \in Slots : slot_task'[s] = IF s \in R THEN NoTask ELSE slot_task[s]
    /\ \A t \in Tasks : IF t \in TasksIn(R) THEN answer'[t] \in {"final", "error"}
                        ELSE answer'[t] = answer[t]
    /\ request' = request

LEMMA EndsKeeps ==
    ASSUME TypeOK, TaskInv, NEW R \in SUBSET Slots, \A s \in R : slot_task[s] # NoTask,
           Ends(R)
    PROVE  TaskInv'
<1>1. /\ \A s \in Slots : slot_task'[s] = IF s \in R THEN NoTask ELSE slot_task[s]
      /\ \A t \in Tasks : t \in TasksIn(R) => answer'[t] \in {"final", "error"}
      /\ \A t \in Tasks : t \notin TasksIn(R) => answer'[t] = answer[t]
      /\ request' = request
  BY DEF Ends
<1>2. /\ \A t \in Requests : SingleIn(t) => SingleIn(t)'
      /\ \A t \in Requests : Carried(t)' <=> Carried(t)
      /\ \A u \in Tasks : Pending(u)' <=> Pending(u)
  BY DEF Ends, KeepsQueues
<1>3. \A u \in Tasks : u \in TasksIn(R) <=> \E s \in R : slot_task[s] = u
  BY DEF TasksIn
<1>4. \A t \in Tasks : Family(t) \subseteq Tasks
  BY Families DEF FamilyFacts
<1>5. NoTask \notin Tasks /\ Requests \subseteq Tasks
  BY SlotsAssumption DEF NoTask, Requests
<1>6. \A s \in Slots : slot_task[s] \in Tasks \cup {NoTask}
  BY DEF TypeOK
<1>7. /\ \A s, r \in Slots : slot_task[s] = slot_task[r] /\ slot_task[s] # NoTask => s = r
      /\ \A s \in Slots : slot_task[s] # NoTask => answer[slot_task[s]] = "none"
  BY DEF TaskInv, HomeInv
<1>8. QueueInv'
  <2> SUFFICES ASSUME NEW t \in Requests
               PROVE  /\ SingleIn(t)'
                      /\ Carried(t)' => request'[t] # "new" /\ Untouched(t)'
                      /\ request'[t] = "new" => Untouched(t)'
    BY DEF QueueInv
  <2>1. /\ SingleIn(t)
        /\ Carried(t) => request[t] # "new" /\ Untouched(t)
        /\ request[t] = "new" => Untouched(t)
    BY DEF TaskInv, QueueInv
  <2>2. Untouched(t) => Untouched(t)'
    BY <1>1, <1>3, <1>4, <1>5 DEF Untouched
  <2> QED  BY <1>1, <1>2, <2>1, <2>2
<1>9. HomeInv'
  <2>1. \A s \in Slots : slot_task'[s] # NoTask => slot_task'[s] = slot_task[s] /\ s \notin R
    BY <1>1
  <2>2. ASSUME NEW s \in Slots, slot_task'[s] # NoTask
        PROVE  answer'[slot_task'[s]] = "none"
    <3>1. slot_task[s] \in Tasks /\ slot_task'[s] = slot_task[s] /\ s \notin R
      BY <1>6, <2>1, <2>2
    <3>2. slot_task[s] \notin TasksIn(R)
      BY <1>3, <1>7, <2>2, <3>1
    <3> QED  BY <1>1, <1>7, <2>2, <3>1, <3>2
  <2>3. \A s, r \in Slots : slot_task'[s] = slot_task'[r] /\ slot_task'[s] # NoTask => s = r
    BY <1>7, <2>1
  <2> QED  BY <2>2, <2>3 DEF HomeInv
<1>10. CancelInv'
  <2> SUFFICES ASSUME NEW t \in Requests, NEW u \in Family(t)
               PROVE  /\ Pending(u)' => request'[t] \in {"failed", "left"}
                      /\ request'[t] = "failed" /\ (\E s \in Slots : slot_task'[s] = u) => Pending(u)'
    BY DEF CancelInv
  <2>1. /\ Pending(u) => request[t] \in {"failed", "left"}
        /\ request[t] = "failed" /\ (\E s \in Slots : slot_task[s] = u) => Pending(u)
    BY DEF TaskInv, CancelInv
  <2>2. u \in Tasks /\ u # NoTask
    BY <1>4, <1>5
  <2>3. \A s \in Slots : slot_task'[s] = u => slot_task[s] = u
    BY <1>1, <2>2
  <2> QED  BY <1>1, <1>2, <2>1, <2>2, <2>3
<1>11. \A u \in Tasks : answer[u] # "none" => u \notin TasksIn(R) /\ answer'[u] = answer[u]
  BY <1>1, <1>3, <1>7
<1>12. EndInv'
  <2> SUFFICES ASSUME NEW t \in Requests
               PROVE  /\ request'[t] = "served" => \A u \in Family(t) : answer'[u] = "final"
                      /\ request'[t] = "left" => t \in Impatient
                      /\ request'[t] = "failed" => \E u \in Family(t) : answer'[u] = "error"
    BY DEF EndInv
  <2>1. /\ request[t] = "served" => \A u \in Family(t) : answer[u] = "final"
        /\ request[t] = "left" => t \in Impatient
        /\ request[t] = "failed" => \E u \in Family(t) : answer[u] = "error"
    BY DEF TaskInv, EndInv
  <2>2. \A u \in Family(t) : u \in Tasks
    BY <1>4, <1>5
  <2>3. \A u \in Family(t) : answer[u] \in {"final", "error"} => answer'[u] = answer[u]
    BY <1>11, <2>2
  <2> QED  BY <1>1, <2>1, <2>3
<1>13. ASSUME NEW t \in Requests
       PROVE  Remembered(t)'
  <2>1. \A u \in Family(t) : u \in Tasks
    BY <1>4, <1>5
  <2> SUFFICES ASSUME request'[t] = "waiting"
               PROVE  \/ \E u \in Family(t) : answer'[u] = "error"
                      \/ \A u \in Family(t) :
                            \/ answer'[u] # "none"
                            \/ \E s \in Slots : slot_task'[s] = u
                            \/ Carried(t)'
    BY DEF Remembered
  <2>2. \/ \E u \in Family(t) : answer[u] = "error"
        \/ \A u \in Family(t) :
              answer[u] # "none" \/ (\E s \in Slots : slot_task[s] = u) \/ Carried(t)
    BY <1>1 DEF TaskInv, Remembered
  <2>3. CASE \E u \in Family(t) : answer[u] = "error"
    BY <1>11, <2>1, <2>3
  <2>4. CASE \A u \in Family(t) :
              answer[u] # "none" \/ (\E s \in Slots : slot_task[s] = u) \/ Carried(t)
    <3> SUFFICES ASSUME NEW u \in Family(t), answer'[u] = "none", ~Carried(t)'
                 PROVE  \E s \in Slots : slot_task'[s] = u
      OBVIOUS
    <3>1. answer[u] = "none" /\ ~Carried(t)
      BY <1>2, <1>11, <2>1
    <3>2. PICK s \in Slots : slot_task[s] = u
      BY <2>4, <3>1
    <3>3. s \notin R
      BY <1>1, <1>3, <2>1, <3>2
    <3> QED  BY <1>1, <3>2, <3>3
  <2> QED  BY <2>2, <2>3, <2>4
<1> QED  BY <1>8, <1>9, <1>10, <1>12, <1>13 DEF TaskInv

\* Nothing has been added to the queues but NEXT_RESPONSE, and nothing taken.
SameQueues ==
    /\ \A t \in Requests : Once(Queues, t) => Once(Queues', t)
    /\ \A t \in Requests : InEither(Queues', RunTask(t)) <=> InEither(Queues, RunTask(t))
    /\ \A u \in Tasks : In(queue_tasks', CancelTask(u)) <=> In(queue_tasks, CancelTask(u))

LEMMA SameKept ==
    ASSUME SameQueues, hand' = hand
    PROVE  KeepsQueues
<1>1. \A t : Carried(t) <=> InEither(Queues, RunTask(t)) \/ hand = <<RunTask(t)>>
  BY CarriedMeans
<1>2. \A t : Carried(t)' <=> InEither(Queues', RunTask(t)) \/ hand' = <<RunTask(t)>>
  BY DEF Carried, InEither, Queues
<1> QED  BY <1>1, <1>2 DEF SameQueues, KeepsQueues, SingleIn, Pending

\* What release() does to the slots of a sequence and to the queues, the loop
\* having pushed NEXT_RESPONSE or not.
LEMMA ReleaseMeans ==
    ASSUME TypeOK, NEW order \in Seq(Slots), NEW st, NEW prompts, NEW tasks \in Seq(QueuedTasks),
           Release(order, st, prompts, tasks),
           \A u : In(tasks, u) <=> In(queue_tasks, u) \/ (u = NextResponse /\ In(tasks, u)),
           \A t \in Tasks : OccursOnce(queue_tasks, t) => OccursOnce(tasks, t)
    PROVE  /\ state' = [s \in Slots |-> IF s \in ToSet(order) THEN "IDLE" ELSE st[s]]
           /\ slot_task' = [s \in Slots |-> IF s \in ToSet(order) THEN NoTask ELSE slot_task[s]]
           /\ has_prompt' = prompts \ ToSet(order)
           /\ queue_tasks' \in Seq(QueuedTasks)
           /\ queue_tasks_deferred' \in Seq(RunTasks)
           /\ SameQueues
<1> DEFINE q == [tasks |-> tasks, deferred |-> queue_tasks_deferred]
           p == Popped(q, order)
<1>1. /\ state' = [s \in Slots |-> IF s \in ToSet(order) THEN "IDLE" ELSE st[s]]
      /\ slot_task' = [s \in Slots |-> IF s \in ToSet(order) THEN NoTask ELSE slot_task[s]]
      /\ has_prompt' = prompts \ ToSet(order)
      /\ queue_tasks' = p.tasks /\ queue_tasks_deferred' = p.deferred
  BY DEF Release
<1>2. q \in QueuePairs
  BY DEF QueuePairs, TypeOK, RunTasks
<1>3. Moved(q, p)
  <2>1. Len(order) \in Nat
    OBVIOUS
  <2> HIDE DEF q
  <2> QED  BY <1>2, <2>1, PoppedMoves
<1>4. p.tasks \in Seq(QueuedTasks) /\ p.deferred \in Seq(RunTasks)
  BY <1>3 DEF Moved, QueuePairs
<1> HIDE DEF p
<1>5. /\ \A u : InEither(p, u) <=> InEither(q, u)
      /\ \A u : In(tasks, u) => In(p.tasks, u)
      /\ \A t : Once(q, t) => Once(p, t)
  BY <1>3 DEF Moved
<1>6. \A u : InEither(q, u) <=> In(tasks, u) \/ In(queue_tasks_deferred, u)
  BY DEF InEither
<1>7. \A u : InEither(Queues, u) <=> In(queue_tasks, u) \/ In(queue_tasks_deferred, u)
  BY DEF InEither, Queues
<1>8. Queues' = [tasks |-> p.tasks, deferred |-> p.deferred]
  BY <1>1 DEF Queues
<1>9. \A u : InEither(Queues', u) <=> InEither(p, u)
  BY <1>8 DEF InEither
<1>10. \A t : Once(Queues', t) <=> Once(p, t)
  BY <1>8 DEF Once
<1>11. \A u : u # NextResponse => (InEither(Queues', u) <=> InEither(Queues, u))
  BY <1>5, <1>6, <1>7, <1>9
<1>12. queue_tasks \in Seq(QueuedTasks) /\ queue_tasks_deferred \in Seq(RunTasks)
  BY DEF TypeOK, RunTasks
<1>13. ASSUME NEW t \in Requests, Once(Queues, t)
       PROVE  Once(Queues', t)
  <2>1. t \in Tasks /\ RunTask(t) # NextResponse
    BY TaskFacts
  <2>2. OccursOnce(queue_tasks, t) /\ OccursOnce(queue_tasks_deferred, t)
        /\ ~(Holds(queue_tasks, t) /\ Holds(queue_tasks_deferred, t))
    BY <1>13 DEF Once, Queues
  <2>3. Holds(tasks, t) <=> Holds(queue_tasks, t)
    BY <1>12, <2>1, HoldsMeans
  <2>4. Once(q, t)
    BY <2>1, <2>2, <2>3 DEF Once
  <2> QED  BY <1>5, <1>10, <2>4
<1>14. ASSUME NEW t \in Requests
       PROVE  InEither(Queues', RunTask(t)) <=> InEither(Queues, RunTask(t))
  BY <1>11, TaskFacts
<1>15. ASSUME NEW u \in Tasks
       PROVE  In(queue_tasks', CancelTask(u)) <=> In(queue_tasks, CancelTask(u))
  <2>1. \A t : CancelTask(u) # RunTask(t)
    BY TaskFacts
  <2>2. CancelTask(u) # NextResponse
    BY TaskFacts
  <2>3. ~In(queue_tasks_deferred, CancelTask(u))
    <3>1. \A i \in DOMAIN queue_tasks_deferred : queue_tasks_deferred[i] \in RunTasks
      BY <1>12
    <3> QED  BY <2>1, <3>1 DEF In, RunTasks
  <2>4. In(p.tasks, CancelTask(u)) <=> In(queue_tasks, CancelTask(u))
    <3>1. In(p.tasks, CancelTask(u)) => InEither(p, CancelTask(u))
      BY DEF InEither
    <3> QED  BY <1>5, <1>6, <2>2, <2>3, <3>1
  <2> QED  BY <1>1, <2>4
<1> QED  BY <1>1, <1>4, <1>13, <1>14, <1>15 DEF SameQueues

-----------------------------------------------------------------------------
(* Requests *)

LEMMA JoinedProperties ==
    ASSUME NEW T, NEW p \in Seq(T), NEW q \in Seq(T)
    PROVE  /\ p \o q \in Seq(T)
           /\ \A u : In(p \o q, u) <=> In(p, u) \/ In(q, u)
           /\ \A x : ~Holds(p, x) /\ OccursOnce(q, x) => OccursOnce(p \o q, x)
<1>0. PICK r, m, n : r = p \o q /\ m = Len(p) /\ n = Len(q)
  OBVIOUS
<1>1. /\ r \in Seq(T) /\ Len(r) = m + n /\ m \in Nat /\ n \in Nat
      /\ DOMAIN p = 1 .. m /\ DOMAIN q = 1 .. n /\ DOMAIN r = 1 .. m + n
      /\ \A i \in 1 .. m + n : r[i] = IF i <= m THEN p[i] ELSE q[i - m]
  BY <1>0
<1>2. \A i \in DOMAIN p : i \in DOMAIN r /\ r[i] = p[i]
  BY <1>1
<1>3. \A i \in DOMAIN q : i + m \in DOMAIN r /\ r[i + m] = q[i]
  <2> SUFFICES ASSUME NEW i \in DOMAIN q
               PROVE  i + m \in DOMAIN r /\ r[i + m] = q[i]
    OBVIOUS
  <2>1. i + m \in 1 .. m + n /\ ~(i + m <= m) /\ (i + m) - m = i
    BY <1>1
  <2> QED  BY <1>1, <2>1
<1>4. \A i \in DOMAIN r : \/ i \in DOMAIN p /\ r[i] = p[i]
                          \/ i - m \in DOMAIN q /\ r[i] = q[i - m]
  BY <1>1
<1>5. \A u : In(r, u) <=> In(p, u) \/ In(q, u)
  BY <1>2, <1>3, <1>4 DEF In
<1>6. ASSUME NEW x, ~Holds(p, x), OccursOnce(q, x)
      PROVE  OccursOnce(r, x)
  <2> SUFFICES ASSUME NEW i \in DOMAIN r, NEW j \in DOMAIN r, r[i].id = x, r[j].id = x
               PROVE  i = j
    BY DEF OccursOnce
  <2>1. /\ i - m \in DOMAIN q /\ r[i] = q[i - m]
        /\ j - m \in DOMAIN q /\ r[j] = q[j - m]
    BY <1>4, <1>6 DEF Holds
  <2>2. i - m = j - m
    BY <1>6, <2>1 DEF OccursOnce
  <2> QED  BY <1>1, <2>2
<1> QED  BY <1>0, <1>1, <1>5, <1>6, Zenon

\* A request is posted.
LEMMA PostKeeps ==
    ASSUME IInv, NEW t \in Requests, Post(t), fate' = fate
    PROVE  IInv'
<1>1. /\ request[t] = "new"
      /\ request' = [request EXCEPT ![t] = "waiting"]
      /\ queue_tasks' = Push(queue_tasks, RunTask(t), FALSE)
      /\ queue_tasks_deferred' = queue_tasks_deferred
      /\ loop' = loop /\ hand' = hand /\ answer' = answer
      /\ state' = state /\ slot_task' = slot_task /\ has_prompt' = has_prompt
      /\ batch' = batch /\ views' = views /\ n_empty_consecutive' = n_empty_consecutive
      /\ aborted' = aborted
  BY DEF Post, slotVars, batchVars
<1>2. TypeOK /\ TaskInv
  BY DEF IInv
<1>3. queue_tasks \in Seq(QueuedTasks) /\ RunTask(t) \in QueuedTasks
  BY <1>2, TaskFacts DEF TypeOK
<1>4. queue_tasks' \in Seq(QueuedTasks)
      /\ \A u : In(queue_tasks', u) <=> u = RunTask(t) \/ In(queue_tasks, u)
  BY <1>1, <1>3, PushProperties
<1>5. ~Carried(t) /\ Untouched(t)
  BY <1>1, <1>2 DEF TaskInv, QueueInv
<1>6. ~In(queue_tasks, RunTask(t)) /\ ~In(queue_tasks_deferred, RunTask(t)) /\ hand # <<RunTask(t)>>
  BY <1>5 DEF Carried
<1>7. \A v \in Requests : Carried(v)' <=> v = t \/ Carried(v)
  BY <1>1, <1>4, TaskFacts DEF Carried
<1>8. \A u \in Tasks : Pending(u)' <=> Pending(u)
  BY <1>1, <1>4, TaskFacts DEF Pending
<1>9. ASSUME NEW v \in Requests
      PROVE  SingleIn(v)'
  <2>1. /\ OccursOnce(queue_tasks, v) /\ OccursOnce(queue_tasks_deferred, v)
        /\ ~(Holds(queue_tasks, v) /\ Holds(queue_tasks_deferred, v))
        /\ hand = <<RunTask(v)>> => ~In(queue_tasks, RunTask(v)) /\ ~In(queue_tasks_deferred, RunTask(v))
    BY <1>2 DEF TaskInv, QueueInv, SingleIn, Once, Queues, InEither
  <2>2. v \in Tasks /\ t \in Tasks /\ RunTask(t).id = t
    BY TaskFacts
  <2>3. queue_tasks_deferred \in Seq(QueuedTasks)
    BY <1>2, DeferredAreQueued DEF TypeOK, RunTasks
  <2>4. /\ Holds(queue_tasks, v) <=> In(queue_tasks, RunTask(v))
        /\ Holds(queue_tasks', v) <=> In(queue_tasks', RunTask(v))
        /\ Holds(queue_tasks_deferred, v) <=> In(queue_tasks_deferred, RunTask(v))
    BY <1>3, <1>4, <2>2, <2>3, HoldsMeans
  <2>5. RunTask(t).id = v => ~Holds(queue_tasks, v)
    BY <1>6, <2>2, <2>4
  <2>6. OccursOnce(queue_tasks', v)
    BY <1>1, <1>3, <2>1, <2>5, PushOnce
  <2>7. In(queue_tasks', RunTask(v)) <=> v = t \/ In(queue_tasks, RunTask(v))
    BY <1>4, TaskFacts
  <2>8. Holds(queue_tasks', v) <=> v = t \/ Holds(queue_tasks, v)
    BY <2>4, <2>7
  <2>9. ~(Holds(queue_tasks', v) /\ Holds(queue_tasks_deferred, v))
    BY <1>6, <2>1, <2>4, <2>8
  <2>10. hand = <<RunTask(v)>> =>
            ~In(queue_tasks', RunTask(v)) /\ ~In(queue_tasks_deferred, RunTask(v))
    BY <1>6, <2>1, <2>7
  <2> QED  BY <1>1, <2>1, <2>6, <2>9, <2>10 DEF SingleIn, Once, Queues, InEither
<1>10. \A v \in Requests : request'[v] = IF v = t THEN "waiting" ELSE request[v]
  BY <1>1, <1>2 DEF TypeOK
<1>11. \A v : Untouched(v)' <=> Untouched(v)
  BY <1>1 DEF Untouched
<1>12. QueueInv'
  BY <1>2, <1>5, <1>7, <1>9, <1>10, <1>11 DEF TaskInv, QueueInv
<1>13. HomeInv'
  BY <1>1, <1>2 DEF TaskInv, HomeInv
<1>14. \A v \in Requests : Family(v) \subseteq Tasks
  BY Families DEF FamilyFacts, Requests
<1>15. CancelInv'
  <2> SUFFICES ASSUME NEW v \in Requests, NEW u \in Family(v)
               PROVE  /\ Pending(u)' => request'[v] \in {"failed", "left"}
                      /\ request'[v] = "failed" /\ (\E s \in Slots : slot_task'[s] = u) => Pending(u)'
    BY DEF CancelInv
  <2>1. /\ Pending(u) => request[v] \in {"failed", "left"}
        /\ request[v] = "failed" /\ (\E s \in Slots : slot_task[s] = u) => Pending(u)
    BY <1>2 DEF TaskInv, CancelInv
  <2>2. Pending(u)' <=> Pending(u)
    BY <1>8, <1>14
  <2> QED  BY <1>1, <1>10, <2>1, <2>2
<1>16. EndInv'
  BY <1>1, <1>2, <1>10 DEF TaskInv, EndInv
<1>17. ASSUME NEW v \in Requests
       PROVE  Remembered(v)'
  <2>1. Remembered(v)
    BY <1>2 DEF TaskInv
  <2> QED  BY <1>1, <1>7, <1>10, <2>1 DEF Remembered
<1>18. TaskInv'
  BY <1>12, <1>13, <1>15, <1>16, <1>17 DEF TaskInv
<1>19. TypeOK'
  <2>1. request' \in [Requests -> {"new", "waiting", "served", "failed", "left"}]
    BY <1>1, <1>2 DEF TypeOK
  <2> QED  BY <1>1, <1>2, <1>4, <2>1 DEF TypeOK
<1>20. StateInv' /\ BatchInv' /\ (hand' = <<>> <=> loop' # "process")
  BY <1>1 DEF IInv, StateInv, BatchInv, BatchGood
<1> QED  BY <1>18, <1>19, <1>20 DEF IInv

\* A request is answered.
LEMMA CompleteKeeps ==
    ASSUME IInv, NEW t \in Requests, Complete(t), fate' = fate
    PROVE  IInv'
<1>1. /\ request[t] = "waiting" /\ \A u \in Family(t) : answer[u] = "final"
      /\ request' = [request EXCEPT ![t] = "served"]
      /\ queue_tasks' = queue_tasks /\ queue_tasks_deferred' = queue_tasks_deferred
      /\ loop' = loop /\ hand' = hand /\ answer' = answer
      /\ state' = state /\ slot_task' = slot_task /\ has_prompt' = has_prompt
      /\ batch' = batch /\ views' = views /\ n_empty_consecutive' = n_empty_consecutive
      /\ aborted' = aborted
  BY DEF Complete, queueVars, slotVars, batchVars
<1>2. TypeOK /\ TaskInv
  BY DEF IInv
<1>3. \A v \in Requests : request'[v] = IF v = t THEN "served" ELSE request[v]
  BY <1>1, <1>2 DEF TypeOK
<1>4. \A v : /\ Carried(v)' <=> Carried(v)
             /\ Pending(v)' <=> Pending(v)
             /\ SingleIn(v)' <=> SingleIn(v)
             /\ Untouched(v)' <=> Untouched(v)
  BY <1>1 DEF Carried, Pending, SingleIn, Untouched, Queues
<1>5. QueueInv'
  BY <1>1, <1>2, <1>3, <1>4 DEF TaskInv, QueueInv
<1>6. HomeInv'
  BY <1>1, <1>2 DEF TaskInv, HomeInv
<1>7. CancelInv'
  BY <1>1, <1>2, <1>3, <1>4 DEF TaskInv, CancelInv
<1>8. EndInv'
  BY <1>1, <1>2, <1>3 DEF TaskInv, EndInv
<1>9. ASSUME NEW v \in Requests
      PROVE  Remembered(v)'
  <2>1. Remembered(v)
    BY <1>2 DEF TaskInv
  <2> QED  BY <1>1, <1>3, <1>4, <2>1 DEF Remembered
<1>10. TypeOK'
  <2>1. request' \in [Requests -> {"new", "waiting", "served", "failed", "left"}]
    BY <1>1, <1>2 DEF TypeOK
  <2> QED  BY <1>1, <1>2, <2>1 DEF TypeOK
<1>11. StateInv' /\ BatchInv' /\ (hand' = <<>> <=> loop' # "process")
  BY <1>1 DEF IInv, StateInv, BatchInv, BatchGood
<1> QED  BY <1>5, <1>6, <1>7, <1>8, <1>9, <1>10, <1>11 DEF IInv, TaskInv

\* The order in which the cancels are posted has every task of the family.
LEMMA CancelsForAll ==
    ASSUME NEW t \in Tasks, NEW order \in SetToSeqs(Family(t))
    PROVE  /\ order \in Seq(Tasks)
           /\ ToSet(order) = Family(t)
<1> DEFINE c == ChildrenOf[t]
           F == Family(t)
           D == 1 .. Cardinality(F)
<1>1. c \in Seq(Tasks) /\ F = {t} \cup ToSet(c)
  BY SlotsAssumption DEF Family
<1>2. IsFiniteSet(ToSet(c))
  <2>1. c \in Surjection(1 .. Len(c), ToSet(c))
    BY <1>1 DEF Surjection, ToSet
  <2>2. IsFiniteSet(1 .. Len(c))
    BY <1>1, FS_Interval
  <2> HIDE DEF c
  <2> QED  BY <2>1, <2>2, FS_Surjection
<1>3. IsFiniteSet(F)
  <2> HIDE DEF c, F
  <2>1. IsFiniteSet(ToSet(c) \cup {t})
    BY <1>2, FS_AddElement
  <2>2. ToSet(c) \cup {t} = F
    BY <1>1
  <2> QED  BY <2>1, <2>2
<1>4. Cardinality(F) \in Nat
  BY <1>3, FS_CardinalityType
<1>5. order \in [D -> F] /\ \A i, j \in D : i # j => order[i] # order[j]
  BY DEF SetToSeqs
<1> HIDE DEF F
<1>6. order \in Injection(D, F)
  BY <1>5 DEF Injection, IsInjective
<1>7. IsFiniteSet(D) /\ Cardinality(D) = Cardinality(F)
  BY <1>4, FS_Interval
<1>8. order \in Surjection(D, F)
  <2> HIDE DEF D
  <2> QED  BY <1>3, <1>6, <1>7, FS_Injection
<1>9. ToSet(order) = F
  BY <1>5, <1>8 DEF Surjection, ToSet
<1>10. F \subseteq Tasks
  BY Families DEF FamilyFacts, F
<1>11. order \in Seq(Tasks)
  BY <1>4, <1>5, <1>10
<1> QED  BY <1>9, <1>11 DEF F

\* A request is given up: its task leaves the queues, and cancels come in.
LEMMA CancelsMean ==
    ASSUME TypeOK, QueueInv, NEW t \in Requests, PostCancels(t)
    PROVE  /\ queue_tasks' \in Seq(QueuedTasks)
           /\ queue_tasks_deferred' \in Seq(RunTasks)
           /\ \A v \in Requests : In(queue_tasks', RunTask(v)) <=> v # t /\ In(queue_tasks, RunTask(v))
           /\ \A v \in Requests :
                 In(queue_tasks_deferred', RunTask(v)) <=> v # t /\ In(queue_tasks_deferred, RunTask(v))
           /\ \A u \in Tasks :
                 In(queue_tasks', CancelTask(u)) <=> u \in Family(t) \/ In(queue_tasks, CancelTask(u))
           /\ \A v \in Requests :
                 OccursOnce(queue_tasks', v) /\ OccursOnce(queue_tasks_deferred', v)
<1>1. t \in Tasks /\ Requests \subseteq Tasks
  BY TaskFacts
<1>2. ToCancel(t) = Family(t)
  BY DEF ToCancel
<1>3. PICK order \in SetToSeqs(Family(t)) :
         /\ queue_tasks' = [i \in DOMAIN order |-> CancelTask(order[i])] \o Without(queue_tasks, t)
         /\ queue_tasks_deferred' = Without(queue_tasks_deferred, t)
  BY <1>2 DEF PostCancels
<1>4. order \in Seq(Tasks) /\ ToSet(order) = Family(t)
  BY <1>1, CancelsForAll
<1>5. PICK cancels : cancels = [i \in DOMAIN order |-> CancelTask(order[i])]
  OBVIOUS
<1>6. /\ cancels \in Seq(QueuedTasks) /\ DOMAIN cancels = DOMAIN order
      /\ \A i \in DOMAIN order : cancels[i] = CancelTask(order[i])
  BY <1>4, <1>5, TaskFacts
<1>7. \A u \in Tasks : In(cancels, CancelTask(u)) <=> u \in Family(t)
  <2>1. \A u \in Tasks : u \in Family(t) <=> \E i \in DOMAIN order : order[i] = u
    BY <1>4 DEF ToSet
  <2> QED  BY <1>6, <2>1, TaskFacts DEF In
<1>8. \A v \in Requests : ~In(cancels, RunTask(v)) /\ ~Holds(cancels, v)
  BY <1>1, <1>6, TaskFacts DEF In, Holds
<1>9. queue_tasks \in Seq(QueuedTasks) /\ queue_tasks_deferred \in Seq(RunTasks)
  BY DEF TypeOK, RunTasks
<1>10. \A v \in Requests : OccursOnce(queue_tasks, v) /\ OccursOnce(queue_tasks_deferred, v)
  BY DEF QueueInv, SingleIn, Once, Queues
<1>11. PICK q : q = Without(queue_tasks, t)
  OBVIOUS
<1>12. /\ q \in Seq(QueuedTasks)
       /\ \A u : In(q, u) <=> In(queue_tasks, u) /\ u.id # t
       /\ \A x : OccursOnce(queue_tasks, x) => OccursOnce(q, x)
  BY <1>9, <1>10, <1>11, WithoutProperties
<1>13. /\ queue_tasks_deferred' \in Seq(RunTasks)
       /\ \A u : In(queue_tasks_deferred', u) <=> In(queue_tasks_deferred, u) /\ u.id # t
       /\ \A x : OccursOnce(queue_tasks_deferred, x) => OccursOnce(queue_tasks_deferred', x)
  BY <1>3, <1>9, <1>10, WithoutProperties
<1>14. queue_tasks' = cancels \o q
  BY <1>3, <1>5, <1>11
<1>15. /\ queue_tasks' \in Seq(QueuedTasks)
       /\ \A u : In(queue_tasks', u) <=> In(cancels, u) \/ In(q, u)
       /\ \A x : ~Holds(cancels, x) /\ OccursOnce(q, x) => OccursOnce(queue_tasks', x)
  BY <1>6, <1>12, <1>14, JoinedProperties
<1>16. \A v \in Requests : In(queue_tasks', RunTask(v)) <=> v # t /\ In(queue_tasks, RunTask(v))
  BY <1>8, <1>12, <1>15, TaskFacts
<1>17. \A v \in Requests :
          In(queue_tasks_deferred', RunTask(v)) <=> v # t /\ In(queue_tasks_deferred, RunTask(v))
  BY <1>13, TaskFacts
<1>18. \A u \in Tasks :
          In(queue_tasks', CancelTask(u)) <=> u \in Family(t) \/ In(queue_tasks, CancelTask(u))
  <2>1. \A u \in Tasks : CancelTask(u).id # t
    BY <1>1, TaskFacts
  <2> QED  BY <1>7, <1>12, <1>15, <2>1
<1>19. \A v \in Requests :
          OccursOnce(queue_tasks', v) /\ OccursOnce(queue_tasks_deferred', v)
  BY <1>8, <1>10, <1>12, <1>13, <1>15
<1> QED  BY <1>13, <1>15, <1>16, <1>17, <1>18, <1>19

\* Fail and Leave.
LEMMA GiveUpKeeps ==
    ASSUME IInv, NEW t \in Requests, Fail(t) \/ Leave(t), fate' = fate
    PROVE  IInv'
<1>1. PICK end \in {"failed", "left"} :
      /\ request' = [request EXCEPT ![t] = end]
      /\ end = "left" => t \in Impatient
      /\ end = "failed" => \E u \in Family(t) : answer[u] = "error"
  BY DEF Fail, Leave
<1>2. /\ request[t] = "waiting" /\ PostCancels(t)
      /\ loop' = loop /\ hand' = hand /\ answer' = answer
      /\ state' = state /\ slot_task' = slot_task /\ has_prompt' = has_prompt
      /\ batch' = batch /\ views' = views /\ n_empty_consecutive' = n_empty_consecutive
      /\ aborted' = aborted
  BY DEF Fail, Leave, slotVars, batchVars
<1>3. TypeOK /\ TaskInv /\ QueueInv
  BY DEF IInv, TaskInv
<1>4. /\ queue_tasks' \in Seq(QueuedTasks)
      /\ queue_tasks_deferred' \in Seq(RunTasks)
      /\ \A v \in Requests : In(queue_tasks', RunTask(v)) <=> v # t /\ In(queue_tasks, RunTask(v))
      /\ \A v \in Requests :
            In(queue_tasks_deferred', RunTask(v)) <=> v # t /\ In(queue_tasks_deferred, RunTask(v))
      /\ \A u \in Tasks :
            In(queue_tasks', CancelTask(u)) <=> u \in Family(t) \/ In(queue_tasks, CancelTask(u))
      /\ \A v \in Requests :
            OccursOnce(queue_tasks', v) /\ OccursOnce(queue_tasks_deferred', v)
  BY <1>2, <1>3, CancelsMean
<1>5. \A v \in Requests : request'[v] = IF v = t THEN end ELSE request[v]
  BY <1>1, <1>3 DEF TypeOK
<1>6. \A v \in Requests : /\ Carried(v)' => Carried(v)
                          /\ v # t => (Carried(v)' <=> Carried(v))
  BY <1>2, <1>4 DEF Carried
<1>7. \A u \in Tasks : Pending(u)' <=> u \in Family(t) \/ Pending(u)
  BY <1>2, <1>4 DEF Pending
<1>8. ASSUME NEW v \in Requests
      PROVE  SingleIn(v)'
  <2>1. /\ ~(Holds(queue_tasks, v) /\ Holds(queue_tasks_deferred, v))
        /\ hand = <<RunTask(v)>> => ~In(queue_tasks, RunTask(v)) /\ ~In(queue_tasks_deferred, RunTask(v))
    BY <1>3 DEF QueueInv, SingleIn, Once, Queues, InEither
  <2>2. /\ v \in Tasks
        /\ queue_tasks_deferred \in Seq(QueuedTasks) /\ queue_tasks_deferred' \in Seq(QueuedTasks)
        /\ queue_tasks \in Seq(QueuedTasks)
    BY <1>3, <1>4, DeferredAreQueued, TaskFacts DEF TypeOK, RunTasks
  <2>3. /\ Holds(queue_tasks, v) <=> In(queue_tasks, RunTask(v))
        /\ Holds(queue_tasks', v) <=> In(queue_tasks', RunTask(v))
        /\ Holds(queue_tasks_deferred, v) <=> In(queue_tasks_deferred, RunTask(v))
        /\ Holds(queue_tasks_deferred', v) <=> In(queue_tasks_deferred', RunTask(v))
    BY <1>4, <2>2, HoldsMeans
  <2>4. ~(Holds(queue_tasks', v) /\ Holds(queue_tasks_deferred', v))
    BY <1>4, <2>1, <2>3
  <2> QED  BY <1>2, <1>4, <2>1, <2>4 DEF SingleIn, Once, Queues, InEither
<1>9. \A v : Untouched(v)' <=> Untouched(v)
  BY <1>2 DEF Untouched
<1>10. QueueInv'
  BY <1>3, <1>2, <1>5, <1>6, <1>8, <1>9 DEF QueueInv
<1>11. HomeInv'
  BY <1>2, <1>3 DEF TaskInv, HomeInv
<1>12. \A v \in Requests : Family(v) \subseteq Tasks
  BY Families DEF FamilyFacts, Requests
<1>13. CancelInv'
  <2> SUFFICES ASSUME NEW v \in Requests, NEW u \in Family(v)
               PROVE  /\ Pending(u)' => request'[v] \in {"failed", "left"}
                      /\ request'[v] = "failed" /\ (\E s \in Slots : slot_task'[s] = u) => Pending(u)'
    BY DEF CancelInv
  <2>1. /\ Pending(u) => request[v] \in {"failed", "left"}
        /\ request[v] = "failed" /\ (\E s \in Slots : slot_task[s] = u) => Pending(u)
    BY <1>3 DEF TaskInv, CancelInv
  <2>2. u \in Tasks
    BY <1>12
  <2>3. CASE v = t
    BY <1>5, <1>7, <2>2, <2>3
  <2>4. CASE v # t
    <3>1. u \notin Family(t)
      BY <2>4, Families DEF FamilyFacts
    <3> QED  BY <1>2, <1>5, <1>7, <2>1, <2>2, <2>4, <3>1
  <2> QED  BY <2>3, <2>4
<1>14. EndInv'
  BY <1>1, <1>2, <1>3, <1>5 DEF TaskInv, EndInv
<1>15. ASSUME NEW v \in Requests
       PROVE  Remembered(v)'
  <2>1. Remembered(v)
    BY <1>3 DEF TaskInv
  <2> QED  BY <1>1, <1>2, <1>5, <1>6, <2>1 DEF Remembered
<1>16. TypeOK'
  <2>1. request' \in [Requests -> {"new", "waiting", "served", "failed", "left"}]
    BY <1>1, <1>3 DEF TypeOK
  <2> QED  BY <1>2, <1>3, <1>4, <2>1 DEF TypeOK, RunTasks
<1>17. StateInv' /\ BatchInv' /\ (hand' = <<>> <=> loop' # "process")
  BY <1>2 DEF IInv, StateInv, BatchInv, BatchGood
<1> QED  BY <1>10, <1>11, <1>13, <1>14, <1>15, <1>16, <1>17 DEF IInv, TaskInv

-----------------------------------------------------------------------------
(* Tasks on their way *)

LEMMA StillKeeps ==
    ASSUME TypeOK, TaskInv, KeepsQueues, slot_task' = slot_task, answer' = answer,
           request' = request
    PROVE  TaskInv'
<1>1. Ends({})
  BY DEF Ends, TasksIn
<1> QED  BY <1>1, EndsKeeps

\* The task that the main loop takes or puts down.
HandMeans(t) ==
    /\ OccursOnce(queue_tasks, t) /\ OccursOnce(queue_tasks_deferred, t)
    /\ ~(In(queue_tasks, RunTask(t)) /\ In(queue_tasks_deferred, RunTask(t)))
    /\ hand = <<RunTask(t)>> =>
          ~In(queue_tasks, RunTask(t)) /\ ~In(queue_tasks_deferred, RunTask(t))

LEMMA SingleMeans ==
    ASSUME queue_tasks \in Seq(QueuedTasks), queue_tasks_deferred \in Seq(RunTasks),
           NEW t \in Requests
    PROVE  SingleIn(t) <=> HandMeans(t)
<1>1. t \in Tasks /\ queue_tasks_deferred \in Seq(QueuedTasks)
  BY TaskFacts, DeferredAreQueued
<1>2. /\ Holds(queue_tasks, t) <=> In(queue_tasks, RunTask(t))
      /\ Holds(queue_tasks_deferred, t) <=> In(queue_tasks_deferred, RunTask(t))
  BY <1>1, HoldsMeans
<1> QED  BY <1>2 DEF SingleIn, HandMeans, Once, Queues, InEither

\* The same after a step.
LEMMA SingleMeansThen ==
    ASSUME queue_tasks' \in Seq(QueuedTasks), queue_tasks_deferred' \in Seq(RunTasks),
           NEW t \in Requests
    PROVE  SingleIn(t)' <=> HandMeans(t)'
<1>1. t \in Tasks /\ queue_tasks_deferred' \in Seq(QueuedTasks)
  BY TaskFacts, DeferredAreQueued
<1>2. /\ Holds(queue_tasks', t) <=> In(queue_tasks', RunTask(t))
      /\ Holds(queue_tasks_deferred', t) <=> In(queue_tasks_deferred', RunTask(t))
  BY <1>1, HoldsMeans
<1> QED  BY <1>2 DEF SingleIn, HandMeans, Once, Queues, InEither

LEMMA TypesOfQueues ==
    TypeOK => queue_tasks \in Seq(QueuedTasks) /\ queue_tasks_deferred \in Seq(RunTasks)
BY DEF TypeOK, RunTasks

\* The main loop takes a task, or finds none.
LEMMA PopTaskKeeps ==
    ASSUME IInv, PopTask, fate' = fate
    PROVE  IInv'
<1>1. /\ loop = "drain" /\ hand = <<>> /\ answer' = answer /\ request' = request
      /\ queue_tasks_deferred' = queue_tasks_deferred
      /\ state' = state /\ slot_task' = slot_task /\ has_prompt' = has_prompt
      /\ batch' = batch /\ views' = views /\ n_empty_consecutive' = n_empty_consecutive
      /\ aborted' = aborted
  BY DEF PopTask, slotVars, batchVars, IInv
<1>2. TypeOK /\ TaskInv /\ StateInv /\ QueueInv
  BY DEF IInv, TaskInv
<1>3. queue_tasks \in Seq(QueuedTasks) /\ queue_tasks_deferred \in Seq(RunTasks)
  BY <1>2, TypesOfQueues
<1>4. \A s \in Slots : state[s] # "DONE_PROMPT"
  BY <1>1, <1>2 DEF StateInv
<1>5. CASE queue_tasks = <<>>
  <2>1. loop' = "update" /\ queue_tasks' = queue_tasks /\ hand' = hand
    BY <1>5 DEF PopTask
  <2>2. KeepsQueues
    BY <1>1, <2>1 DEF KeepsQueues, SingleIn, Carried, Pending, Queues
  <2>3. TaskInv'
    BY <1>1, <1>2, <2>2, StillKeeps
  <2>4. TypeOK'
    BY <1>1, <1>2, <2>1 DEF TypeOK
  <2>5. StateInv' /\ BatchInv' /\ (hand' = <<>> <=> loop' # "process")
    BY <1>1, <1>2, <1>4, <2>1 DEF StateInv, BatchInv, BatchGood
  <2> QED  BY <2>3, <2>4, <2>5 DEF IInv
<1>6. CASE queue_tasks # <<>>
  <2>1. hand' = <<Head(queue_tasks)>> /\ queue_tasks' = Tail(queue_tasks) /\ loop' = "process"
    BY <1>6 DEF PopTask
  <2>2. PICK task : task = Head(queue_tasks)
    OBVIOUS
  <2>3. /\ task \in QueuedTasks
        /\ queue_tasks' \in Seq(QueuedTasks)
        /\ \A u : In(queue_tasks, u) <=> u = task \/ In(queue_tasks', u)
        /\ \A x : OccursOnce(queue_tasks, x) => OccursOnce(queue_tasks', x)
        /\ \A x : OccursOnce(queue_tasks, x) /\ task.id = x => ~Holds(queue_tasks', x)
    BY <1>3, <1>6, <2>1, <2>2, PopProperties
  <2>4. hand' = <<task>> /\ \A u : hand' = <<u>> <=> u = task
    BY <2>1, <2>2
  <2>5. \A t \in Requests : Carried(t)' <=> Carried(t)
    BY <1>1, <2>3, <2>4 DEF Carried
  <2>6. \A u \in Tasks : Pending(u)' <=> Pending(u)
    BY <1>1, <2>3, <2>4 DEF Pending
  <2>7. ASSUME NEW t \in Requests, SingleIn(t)
        PROVE  SingleIn(t)'
    <3>1. HandMeans(t)
      BY <1>3, <2>7, SingleMeans
    <3>2. t \in Tasks /\ RunTask(t).id = t
      BY TaskFacts
    <3>3. task = RunTask(t) => ~In(queue_tasks', RunTask(t)) /\ ~In(queue_tasks_deferred, RunTask(t))
      <4> SUFFICES ASSUME task = RunTask(t)
                   PROVE  ~In(queue_tasks', RunTask(t)) /\ ~In(queue_tasks_deferred, RunTask(t))
        OBVIOUS
      <4>1. ~Holds(queue_tasks', t)
        BY <2>3, <3>1, <3>2 DEF HandMeans
      <4>2. ~In(queue_tasks', RunTask(t))
        BY <2>3, <3>2, <4>1, HoldsMeans
      <4> QED  BY <2>3, <3>1, <4>2 DEF HandMeans
    <3>4. HandMeans(t)'
      BY <1>1, <2>3, <2>4, <3>1, <3>3 DEF HandMeans
    <3> QED  BY <1>1, <1>3, <2>3, <3>4, SingleMeansThen
  <2>8. TaskInv'
    <3>1. KeepsQueues
      BY <2>5, <2>6, <2>7 DEF KeepsQueues
    <3> QED  BY <1>1, <1>2, <3>1, StillKeeps
  <2>9. TypeOK'
    BY <1>1, <1>2, <2>1, <2>3, <2>4 DEF TypeOK
  <2>10. StateInv' /\ BatchInv' /\ (hand' = <<>> <=> loop' # "process")
    BY <1>1, <1>2, <1>4, <2>1 DEF StateInv, BatchInv, BatchGood
  <2> QED  BY <2>8, <2>9, <2>10 DEF IInv
<1> QED  BY <1>5, <1>6

\* The main loop is woken, or finds all slots idle.
LEMMA WaitKeeps ==
    ASSUME IInv, Wait \/ AllIdle, fate' = fate
    PROVE  IInv'
<1>1. /\ loop' \in {"drain", "wait"} /\ loop \in {"wait", "update"}
      /\ hand' = hand /\ answer' = answer /\ request' = request
      /\ queue_tasks' = queue_tasks /\ queue_tasks_deferred' = queue_tasks_deferred
      /\ state' = state /\ slot_task' = slot_task /\ has_prompt' = has_prompt
      /\ batch' = batch /\ views' = views /\ n_empty_consecutive' = n_empty_consecutive
      /\ aborted' = aborted
  BY DEF Wait, AllIdle, queueVars, slotVars, batchVars
<1>2. TypeOK /\ TaskInv /\ StateInv
  BY DEF IInv
<1>3. KeepsQueues
  BY <1>1 DEF KeepsQueues, SingleIn, Carried, Pending, Queues
<1>4. TaskInv'
  BY <1>1, <1>2, <1>3, StillKeeps
<1>5. TypeOK'
  BY <1>1, <1>2 DEF TypeOK
<1>6. StateInv' /\ BatchInv' /\ (hand' = <<>> <=> loop' # "process")
  BY <1>1 DEF IInv, StateInv, BatchInv, BatchGood
<1> QED  BY <1>4, <1>5, <1>6 DEF IInv

\* A task that finds no slot is deferred.
LEMMA DeferKeeps ==
    ASSUME IInv, NEW t \in Requests, hand = <<RunTask(t)>>, Defer(RunTask(t)), hand' = <<>>,
           request' = request
    PROVE  /\ TaskInv'
           /\ queue_tasks_deferred' \in Seq(RunTasks)
<1>1. TypeOK /\ TaskInv
  BY DEF IInv
<1>2. queue_tasks \in Seq(QueuedTasks) /\ queue_tasks_deferred \in Seq(RunTasks)
  BY <1>1, TypesOfQueues
<1>3. /\ queue_tasks_deferred' = Push(queue_tasks_deferred, RunTask(t), FALSE)
      /\ queue_tasks' = queue_tasks /\ slot_task' = slot_task /\ answer' = answer
  BY DEF Defer, Deferred, slotVars
<1>4. RunTask(t) \in RunTasks /\ t \in Tasks /\ RunTask(t).id = t
  BY TaskFacts
<1>5. /\ queue_tasks_deferred' \in Seq(RunTasks)
      /\ \A u : In(queue_tasks_deferred', u) <=> u = RunTask(t) \/ In(queue_tasks_deferred, u)
  BY <1>2, <1>3, <1>4, PushProperties
<1>6. \A u : hand = <<u>> <=> u = RunTask(t)
  OBVIOUS
<1>7. \A v \in Requests : Carried(v)' <=> Carried(v)
  BY <1>3, <1>5, <1>6 DEF Carried
<1>8. \A u \in Tasks : Pending(u)' <=> Pending(u)
  BY <1>3, <1>6, TaskFacts DEF Pending
<1>9. ASSUME NEW v \in Requests, SingleIn(v)
      PROVE  SingleIn(v)'
  <2>1. HandMeans(v)
    BY <1>2, <1>9, SingleMeans
  <2>2. v \in Tasks /\ queue_tasks_deferred \in Seq(QueuedTasks)
    BY <1>2, DeferredAreQueued, TaskFacts
  <2>3. RunTask(t).id = v => ~Holds(queue_tasks_deferred, v)
    BY <1>4, <2>1, <2>2, HoldsMeans DEF HandMeans
  <2>4. OccursOnce(queue_tasks_deferred', v)
    BY <1>2, <1>3, <1>4, <2>1, <2>3, PushOnce DEF HandMeans
  <2>5. In(queue_tasks_deferred', RunTask(v)) <=> v = t \/ In(queue_tasks_deferred, RunTask(v))
    BY <1>5, TaskFacts
  <2>6. HandMeans(v)'
    BY <1>3, <2>1, <2>4, <2>5 DEF HandMeans
  <2> QED  BY <1>2, <1>3, <1>5, <2>6, SingleMeansThen
<1>10. KeepsQueues
  BY <1>7, <1>8, <1>9 DEF KeepsQueues
<1> QED  BY <1>1, <1>3, <1>5, <1>10, StillKeeps

\* A task that does not need a slot, or cannot be launched, is answered and dropped.
LEMMA AnswerKeeps ==
    ASSUME IInv, NEW t \in Requests, hand = <<RunTask(t)>>, NEW u \in Family(t),
           NEW what \in {"final", "error"}, what = "final" => Family(t) = {u},
           Answer({u}, what), hand' = <<>>, request' = request
    PROVE  /\ TaskInv'
           /\ answer' \in [Tasks -> {"none", "final", "error"}]
<1>1. TypeOK /\ TaskInv /\ QueueInv
  BY DEF IInv, TaskInv
<1>2. queue_tasks \in Seq(QueuedTasks) /\ queue_tasks_deferred \in Seq(RunTasks)
  BY <1>1, TypesOfQueues
<1>3. /\ queue_tasks_deferred' = queue_tasks_deferred
      /\ queue_tasks' = queue_tasks /\ slot_task' = slot_task
      /\ answer' = Answered(answer, {u}, what)
  BY DEF Answer, queueVars, slotVars
<1>4. \A x : hand = <<x>> <=> x = RunTask(t)
  OBVIOUS
<1>5. Carried(t)
  BY <1>4 DEF Carried
<1>6. Untouched(t) /\ request[t] # "new"
  BY <1>1, <1>5 DEF QueueInv
<1>7. answer[u] = "none" /\ \A s \in Slots : slot_task[s] # u
  BY <1>6 DEF Untouched
<1>8. \A v \in Requests : Family(v) \subseteq Tasks
  BY Families DEF FamilyFacts, Requests
<1>9. u \in Tasks
  BY <1>8
<1>10. \A v \in Tasks : answer'[v] = IF v = u THEN what ELSE answer[v]
  BY <1>3, <1>7 DEF Answered
<1>11. answer' \in [Tasks -> {"none", "final", "error"}]
  <2>1. \A v \in Tasks : answer'[v] \in {"none", "final", "error"}
    BY <1>1, <1>10 DEF TypeOK
  <2>2. answer' = [v \in Tasks |-> answer'[v]]
    BY <1>3 DEF Answered
  <2> QED  BY <2>1, <2>2
<1>12. \A v \in Requests : v # t => u \notin Family(v)
  BY Families DEF FamilyFacts
<1>13. HandMeans(t)
  BY <1>1, <1>2, SingleMeans DEF QueueInv
<1>14. \A v \in Requests : Carried(v)' <=> v # t /\ Carried(v)
  BY <1>3, <1>4, <1>13, TaskFacts DEF Carried, HandMeans
<1>15. \A v \in Tasks : Pending(v)' <=> Pending(v)
  BY <1>3, <1>4, TaskFacts DEF Pending
<1>16. ASSUME NEW v \in Requests
       PROVE  SingleIn(v)'
  <2>1. SingleIn(v)
    BY <1>1 DEF QueueInv
  <2> QED  BY <1>3, <2>1 DEF SingleIn, Queues
<1>17. \A v \in Requests : v # t /\ Untouched(v) => Untouched(v)'
  BY <1>3, <1>8, <1>10, <1>12 DEF Untouched
<1>18. QueueInv'
  BY <1>1, <1>6, <1>14, <1>16, <1>17 DEF QueueInv
<1>19. HomeInv'
  <2>1. \A s \in Slots : slot_task[s] \in Tasks \cup {NoTask}
    BY <1>1 DEF TypeOK
  <2> QED  BY <1>1, <1>3, <1>7, <1>10, <2>1 DEF TaskInv, HomeInv
<1>20. CancelInv'
  BY <1>1, <1>3, <1>8, <1>15 DEF TaskInv, CancelInv
<1>21. EndInv'
  BY <1>1, <1>7, <1>8, <1>10 DEF TaskInv, EndInv
<1>22. ASSUME NEW v \in Requests
       PROVE  Remembered(v)'
  <2>1. CASE v = t
    BY <1>9, <1>10, <2>1 DEF Remembered
  <2>2. CASE v # t
    <3>1. \A x \in Family(v) : answer'[x] = answer[x]
      BY <1>8, <1>10, <1>12, <2>2
    <3>2. Remembered(v) /\ (Carried(v)' <=> Carried(v))
      BY <1>1, <1>14, <2>2 DEF TaskInv
    <3> QED  BY <1>3, <3>1, <3>2 DEF Remembered
  <2> QED  BY <2>1, <2>2
<1> QED  BY <1>11, <1>18, <1>19, <1>20, <1>21, <1>22 DEF TaskInv

-----------------------------------------------------------------------------
(* Launching a family *)

\* The slots of the family: s for the task t and others for its children.
Seats(t, s, others) ==
    /\ s \in Slots /\ ~IsProcessing(s)
    /\ others \in Seq(Free \ {s}) /\ IsInjective(others)
    /\ Len(others) = Len(ChildrenOf[t])

LEMMA FreeSlotsMean ==
    ASSUME NEW n \in Nat, NEW s \in Slots
    PROVE  /\ FreeSlots(n, s) \in Seq(Free \ {s})
           /\ IsInjective(FreeSlots(n, s))
           /\ Len(FreeSlots(n, s)) <= n
<1>1. PICK free : free = InSlotOrder(Free \ {s})
  OBVIOUS
<1>2. PICK m : m = IF n < Len(free) THEN n ELSE Len(free)
  OBVIOUS
<1>3. Free \ {s} \in SUBSET Slots
  BY DEF Free
<1>4. free \in Seq(Free \ {s}) /\ IsInjective(free)
  BY <1>1, <1>3, InOrder
<1>5. m \in 0 .. Len(free) /\ m <= n /\ Len(free) \in Nat
  BY <1>2, <1>4
<1>6. FreeSlots(n, s) = SubSeq(free, 1, m)
  BY <1>1, <1>2 DEF FreeSlots
<1>7. PICK q : q = SubSeq(free, 1, m)
  OBVIOUS
<1>8. q \in Seq(Free \ {s}) /\ Len(q) = m /\ \A i \in 1 .. m : q[i] = free[i] /\ i \in DOMAIN free
  BY <1>4, <1>5, <1>7
<1>9. DOMAIN q = 1 .. m
  BY <1>5, <1>8
<1>10. IsInjective(q)
  BY <1>4, <1>8, <1>9 DEF IsInjective
<1> QED  BY <1>5, <1>6, <1>7, <1>8, <1>10

\* What process_single_task may do with a task that wants to run.
LEMMA ProcessRunMeans ==
    ASSUME TypeOK, NEW t \in Requests, ProcessRun(t)
    PROVE  \/ Defer(RunTask(t))
           \/ Family(t) = {t} /\ Answer({t}, "final")
           \/ \E u \in Family(t) : Answer({u}, "error")
           \/ \E s, others : Seats(t, s, others) /\ Launch(t, s, others)
<1>1. t \in Tasks
  BY TaskFacts
<1>2. ChildrenOf[t] \in Seq(Tasks) /\ IdSlot[t] \in 0 .. NSlots /\ NSlots \in Nat
  BY <1>1, SlotsAssumption
<1>3. Kind[t] = "slot_action" => IdSlot[t] # 0 /\ ChildrenOf[t] = <<>>
  BY <1>1, SlotsAssumption
<1>4. CASE Kind[t] = "slot_action"
  <2>1. Family(t) = {t}
    BY <1>3, <1>4 DEF Family, ToSet
  <2>2. \/ Defer(RunTask(t))
        \/ Answer({t}, "final") \/ Answer({t}, "error")
    BY <1>4 DEF ProcessRun
  <2>3. t \in Family(t)
    BY <2>1
  <2> QED  BY <2>1, <2>2, <2>3
<1>5. ASSUME NEW s \in Slots, RunInSlot(t, s)
      PROVE  \/ Defer(RunTask(t))
             \/ \E u \in Family(t) : Answer({u}, "error")
             \/ \E r, others : Seats(t, r, others) /\ Launch(t, r, others)
  <2>1. PICK others : others = FreeSlots(Len(ChildrenOf[t]), s)
    OBVIOUS
  <2>2. others \in Seq(Free \ {s}) /\ IsInjective(others) /\ Len(others) <= Len(ChildrenOf[t])
        /\ Len(ChildrenOf[t]) \in Nat
    BY <1>2, <2>1, FreeSlotsMean
  <2>3. \/ Defer(RunTask(t))
        \/ /\ ~IsProcessing(s) /\ ~(Len(others) < Len(ChildrenOf[t]))
           /\ Answer({FirstLaunched(t)}, "error") \/ Launch(t, s, others)
    BY <1>5, <2>1 DEF RunInSlot
  <2>4. FirstLaunched(t) \in Family(t)
    <3>1. CASE ChildrenOf[t] = <<>>
      BY <3>1 DEF FirstLaunched, IsParent, Family
    <3>2. CASE ChildrenOf[t] # <<>>
      <4>1. Head(ChildrenOf[t]) = ChildrenOf[t][1] /\ 1 \in DOMAIN ChildrenOf[t]
        BY <1>2, <3>2
      <4> QED  BY <3>2, <4>1 DEF FirstLaunched, IsParent, Family, ToSet
    <3> QED  BY <3>1, <3>2
  <2>5. ~(Len(others) < Len(ChildrenOf[t])) => Len(others) = Len(ChildrenOf[t])
    BY <2>2
  <2>6. CASE Defer(RunTask(t))
    BY <2>6
  <2>7. CASE Answer({FirstLaunched(t)}, "error")
    BY <2>4, <2>7
  <2>8. CASE /\ ~IsProcessing(s) /\ ~(Len(others) < Len(ChildrenOf[t]))
             /\ Launch(t, s, others)
    <3>1. Seats(t, s, others)
      BY <2>2, <2>5, <2>8 DEF Seats
    <3> QED  BY <2>8, <3>1
  <2> QED  BY <2>3, <2>6, <2>7, <2>8
<1>6. CASE Kind[t] # "slot_action"
  <2>1. \/ IdSlot[t] # 0 /\ RunInSlot(t, IdSlot[t])
        \/ Defer(RunTask(t))
        \/ \E s \in Free : RunInSlot(t, s)
    BY <1>6 DEF ProcessRun
  <2>2. IdSlot[t] # 0 => IdSlot[t] \in Slots
    BY <1>2 DEF Slots
  <2>3. Free \subseteq Slots
    BY DEF Free
  <2> QED  BY <1>5, <2>1, <2>2, <2>3
<1> QED  BY <1>4, <1>6

\* Who sits where after a launch.
Seated(t) ==
    /\ \A u \in Family(t) : \E s \in Slots : slot_task'[s] = u
    /\ \A s, r \in Slots : slot_task'[s] = slot_task'[r] /\ slot_task'[s] \in Family(t) => s = r
    /\ \A s \in Slots :
          \/ slot_task'[s] = slot_task[s] /\ state'[s] = state[s]
          \/ /\ state[s] = "IDLE"
             /\ \/ slot_task'[s] = t /\ state'[s] = "STARTED"
                \/ slot_task'[s] \in ToSet(ChildrenOf[t]) /\ state'[s] = "WAIT_OTHER"

LEMMA LaunchSeats ==
    ASSUME TypeOK, NEW t \in Requests, NEW s, NEW others, Seats(t, s, others),
           Launch(t, s, others), \A r \in Slots : slot_task[r] \notin Family(t)
    PROVE  /\ Seated(t)
           /\ slot_task' \in [Slots -> Tasks \cup {NoTask}]
           /\ state' \in [Slots -> States]
<1>1. t \in Tasks
  BY TaskFacts
<1>2. PICK c, n : c = ChildrenOf[t] /\ n = Len(c)
  OBVIOUS
<1>3. /\ c \in Seq(Tasks) /\ n \in Nat /\ DOMAIN c = 1 .. n
      /\ \A i, j \in 1 .. n : c[i] = c[j] => i = j
      /\ ToSet(c) = {c[i] : i \in 1 .. n}
  <2>1. c \in Seq(Tasks)
    BY <1>1, <1>2, SlotsAssumption
  <2>2. \A i, j \in DOMAIN c : c[i] = c[j] => i = j
    <3>1. \A a, b \in Tasks :
            \A i \in DOMAIN ChildrenOf[a], j \in DOMAIN ChildrenOf[b] :
               ChildrenOf[a][i] = ChildrenOf[b][j] => a = b /\ i = j
      BY SlotsAssumption
    <3> QED  BY <1>1, <1>2, <3>1, Zenon
  <2> QED  BY <1>2, <2>1, <2>2 DEF ToSet
<1>4. /\ s \in Slots /\ state[s] = "IDLE"
      /\ others \in Seq(Free \ {s}) /\ Len(others) = n
      /\ \A i, j \in DOMAIN others : others[i] = others[j] => i = j
  BY <1>2 DEF Seats, IsProcessing, IsInjective
<1>5. /\ DOMAIN others = 1 .. n
      /\ \A i \in 1 .. n : others[i] \in Slots /\ others[i] # s /\ state[others[i]] = "IDLE"
      /\ ToSet(others) = {others[i] : i \in 1 .. n}
  <2>1. DOMAIN others = 1 .. n /\ \A i \in 1 .. n : others[i] \in Free \ {s}
    BY <1>3, <1>4
  <2> QED  BY <2>1 DEF Free, IsProcessing, ToSet
<1> DEFINE At(r) == CHOOSE i \in DOMAIN others : others[i] = r
           TaskOf(r) == IF r = s THEN t ELSE c[At(r)]
           launched == {s} \cup ToSet(others)
<1>6. \A i \in 1 .. n : At(others[i]) = i
  BY <1>4, <1>5
<1>7. /\ slot_task' = [r \in Slots |-> IF r \in launched THEN TaskOf(r) ELSE slot_task[r]]
      /\ state' = [r \in Slots |-> IF r = s THEN "STARTED"
                                   ELSE IF r \in launched THEN "WAIT_OTHER" ELSE state[r]]
  BY <1>2 DEF Launch
<1> HIDE DEF At
<1>8. /\ slot_task'[s] = t /\ state'[s] = "STARTED"
      /\ \A i \in 1 .. n : slot_task'[others[i]] = c[i] /\ state'[others[i]] = "WAIT_OTHER"
      /\ \A r \in Slots : r # s /\ (\A i \in 1 .. n : r # others[i]) =>
            slot_task'[r] = slot_task[r] /\ state'[r] = state[r]
  BY <1>4, <1>5, <1>6, <1>7
<1>9. \A r \in Slots : r = s \/ (\E i \in 1 .. n : r = others[i])
                       \/ (r # s /\ \A i \in 1 .. n : r # others[i])
  OBVIOUS
<1>10. \A i \in 1 .. n : c[i] # t /\ c[i] \in ToSet(c) /\ c[i] \in Tasks
  <2>1. \A x \in ToSet(c) : x # t
    BY <1>1, <1>2, Families DEF FamilyFacts
  <2> QED  BY <1>3, <2>1
<1>11. Family(t) = {t} \cup {c[i] : i \in 1 .. n}
  BY <1>2, <1>3 DEF Family
<1>12. \A u \in Family(t) : \E r \in Slots : slot_task'[r] = u
  BY <1>4, <1>5, <1>8, <1>11
<1>13. ASSUME NEW q \in Slots, NEW r \in Slots, slot_task'[q] = slot_task'[r],
              slot_task'[q] \in Family(t)
       PROVE  q = r
  <2>1. \A p \in Slots : slot_task'[p] \in Family(t) => p = s \/ \E i \in 1 .. n : p = others[i]
    BY <1>8, <1>9
  <2>2. CASE q = s
    <3>1. slot_task'[r] = t
      BY <1>8, <1>13, <2>2
    <3> QED  BY <1>8, <1>10, <1>13, <2>1, <2>2, <3>1
  <2>3. CASE \E i \in 1 .. n : q = others[i]
    <3>1. PICK i \in 1 .. n : q = others[i]
      BY <2>3
    <3>2. slot_task'[r] = c[i]
      BY <1>8, <1>13, <3>1
    <3>3. r # s
      BY <1>8, <1>10, <3>2
    <3>4. PICK j \in 1 .. n : r = others[j]
      BY <1>13, <2>1, <3>3
    <3>5. c[j] = c[i]
      BY <1>8, <3>2, <3>4
    <3>6. i = j
      BY <1>3, <3>5
    <3> QED  BY <3>1, <3>4, <3>6
  <2> QED  BY <1>13, <2>1, <2>2, <2>3
<1>14. ASSUME NEW r \in Slots
       PROVE  \/ slot_task'[r] = slot_task[r] /\ state'[r] = state[r]
              \/ /\ state[r] = "IDLE"
                 /\ \/ slot_task'[r] = t /\ state'[r] = "STARTED"
                    \/ slot_task'[r] \in ToSet(ChildrenOf[t]) /\ state'[r] = "WAIT_OTHER"
  BY <1>2, <1>4, <1>5, <1>8, <1>9, <1>10
<1>15. slot_task' \in [Slots -> Tasks \cup {NoTask}]
  <2>1. \A r \in Slots : slot_task'[r] \in Tasks \cup {NoTask}
    <3>1. \A u \in ToSet(ChildrenOf[t]) : u \in Tasks
      BY <1>2, <1>3, <1>10
    <3>2. slot_task \in [Slots -> Tasks \cup {NoTask}]
      BY DEF TypeOK
    <3> QED  BY <1>1, <1>14, <3>1, <3>2
  <2>2. slot_task' = [r \in Slots |-> slot_task'[r]]
    BY <1>7, Zenon
  <2> QED  BY <2>1, <2>2
<1>16. state' \in [Slots -> States]
  <2>1. \A r \in Slots : state'[r] \in States
    <3>1. state \in [Slots -> States]
      BY DEF TypeOK
    <3>2. "STARTED" \in States /\ "WAIT_OTHER" \in States
      BY DEF States
    <3> QED  BY <1>14, <3>1, <3>2
  <2>2. state' = [r \in Slots |-> state'[r]]
    BY <1>7, Zenon
  <2> QED  BY <2>1, <2>2
<1> QED  BY <1>12, <1>13, <1>14, <1>15, <1>16 DEF Seated

LEMMA LaunchKeeps ==
    ASSUME IInv, NEW t \in Requests, hand = <<RunTask(t)>>, Seated(t),
           queue_tasks' = queue_tasks, queue_tasks_deferred' = queue_tasks_deferred,
           answer' = answer, hand' = <<>>, request' = request
    PROVE  TaskInv'
<1>1. TypeOK /\ TaskInv /\ QueueInv /\ StateInv
  BY DEF IInv, TaskInv
<1>2. queue_tasks \in Seq(QueuedTasks) /\ queue_tasks_deferred \in Seq(RunTasks)
  BY <1>1, TypesOfQueues
<1>3. \A x : hand = <<x>> <=> x = RunTask(t)
  OBVIOUS
<1>4. Carried(t)
  BY <1>3 DEF Carried
<1>5. Untouched(t) /\ request[t] # "new"
  BY <1>1, <1>4 DEF QueueInv
<1>6. \A v \in Requests : Family(v) \subseteq Tasks
  BY Families DEF FamilyFacts, Requests
<1>7. NoTask \notin Tasks
  BY SlotsAssumption DEF NoTask
<1>8. \A s \in Slots : slot_task'[s] = slot_task[s] \/ (slot_task[s] = NoTask /\ slot_task'[s] \in Family(t))
  BY <1>1 DEF Seated, StateInv, Family
<1>9. HandMeans(t)
  BY <1>1, <1>2, SingleMeans DEF QueueInv
<1>10. \A v \in Requests : Carried(v)' <=> v # t /\ Carried(v)
  BY <1>3, <1>9, TaskFacts DEF Carried, HandMeans
<1>11. \A v \in Tasks : Pending(v)' <=> Pending(v)
  BY <1>3, TaskFacts DEF Pending
<1>12. ASSUME NEW v \in Requests
       PROVE  SingleIn(v)'
  <2>1. SingleIn(v)
    BY <1>1 DEF QueueInv
  <2> QED  BY <2>1 DEF SingleIn, Queues
<1>13. \A v \in Requests : v # t => \A u \in Family(v) : u \notin Family(t)
  BY Families DEF FamilyFacts
<1>14. \A v \in Requests : v # t => (Untouched(v) => Untouched(v)')
  BY <1>8, <1>13 DEF Untouched
<1>15. QueueInv'
  BY <1>1, <1>5, <1>10, <1>12, <1>14 DEF QueueInv
<1>16. HomeInv'
  <2>1. \A s \in Slots : slot_task[s] \notin Family(t)
    BY <1>5 DEF Untouched
  <2>2. ASSUME NEW s \in Slots, NEW r \in Slots, slot_task'[s] = slot_task'[r], slot_task'[s] # NoTask
        PROVE  s = r
    <3>1. CASE slot_task'[s] \in Family(t)
      BY <2>2, <3>1 DEF Seated
    <3>2. CASE slot_task'[s] \notin Family(t)
      <4>1. slot_task'[s] = slot_task[s] /\ slot_task'[r] = slot_task[r]
        BY <1>8, <2>2, <3>2
      <4> QED  BY <1>1, <2>2, <4>1 DEF TaskInv, HomeInv
    <3> QED  BY <3>1, <3>2
  <2>3. ASSUME NEW s \in Slots, slot_task'[s] # NoTask
        PROVE  answer'[slot_task'[s]] = "none"
    <3>1. CASE slot_task'[s] \in Family(t)
      BY <1>5, <3>1 DEF Untouched
    <3>2. CASE slot_task'[s] = slot_task[s]
      BY <1>1, <2>3, <3>2 DEF TaskInv, HomeInv
    <3> QED  BY <1>8, <3>1, <3>2
  <2> QED  BY <2>2, <2>3 DEF HomeInv
<1>17. CancelInv'
  <2> SUFFICES ASSUME NEW v \in Requests, NEW u \in Family(v)
               PROVE  /\ Pending(u)' => request'[v] \in {"failed", "left"}
                      /\ request'[v] = "failed" /\ (\E s \in Slots : slot_task'[s] = u) => Pending(u)'
    BY DEF CancelInv
  <2>1. /\ Pending(u) => request[v] \in {"failed", "left"}
        /\ request[v] = "failed" /\ (\E s \in Slots : slot_task[s] = u) => Pending(u)
    BY <1>1 DEF TaskInv, CancelInv
  <2>2. u \in Tasks
    BY <1>6
  <2>3. request[t] # "failed"
    BY <1>1, <1>5 DEF TaskInv, EndInv, Untouched
  <2>4. CASE v = t
    BY <1>11, <2>1, <2>2, <2>3, <2>4
  <2>5. CASE v # t
    <3>1. u \notin Family(t)
      BY <1>13, <2>5
    <3>2. \A s \in Slots : slot_task'[s] = u => slot_task[s] = u
      BY <1>8, <3>1
    <3> QED  BY <1>11, <2>1, <2>2, <3>2
  <2> QED  BY <2>4, <2>5
<1>18. EndInv'
  BY <1>1 DEF TaskInv, EndInv
<1>19. ASSUME NEW v \in Requests
       PROVE  Remembered(v)'
  <2>1. CASE v = t
    BY <2>1 DEF Remembered, Seated
  <2>2. CASE v # t
    <3>1. Remembered(v) /\ (Carried(v)' <=> Carried(v))
      BY <1>1, <1>10, <2>2 DEF TaskInv
    <3>2. \A u \in Family(v) : (\E s \in Slots : slot_task[s] = u) => \E s \in Slots : slot_task'[s] = u
      BY <1>6, <1>7, <1>8
    <3> QED  BY <3>1, <3>2 DEF Remembered
  <2> QED  BY <2>1, <2>2
<1> QED  BY <1>15, <1>16, <1>17, <1>18, <1>19 DEF TaskInv

-----------------------------------------------------------------------------
(* The main loop processes a task *)

\* A cancel frees the slot of its task.
LEMMA CancelKeeps ==
    ASSUME IInv, NEW u \in Tasks, hand = <<CancelTask(u)>>, SameQueues,
           \A s \in Slots : slot_task'[s] = IF slot_task[s] = u THEN NoTask ELSE slot_task[s],
           hand' = <<>>, answer' = answer, request' = request
    PROVE  TaskInv'
<1>1. TypeOK /\ TaskInv /\ QueueInv
  BY DEF IInv, TaskInv
<1>2. \A x : hand = <<x>> <=> x = CancelTask(u)
  OBVIOUS
<1>3. \A t \in Requests : Carried(t)' <=> Carried(t)
  <2>1. \A t : Carried(t) <=> InEither(Queues, RunTask(t)) \/ hand = <<RunTask(t)>>
    BY CarriedMeans
  <2>2. \A t : Carried(t)' <=> InEither(Queues', RunTask(t))
    BY DEF Carried, InEither, Queues
  <2>3. \A t : hand # <<RunTask(t)>>
    BY <1>2, TaskFacts
  <2> QED  BY <2>1, <2>2, <2>3 DEF SameQueues
<1>4. \A v \in Tasks : /\ Pending(v)' => Pending(v)
                       /\ v # u => (Pending(v)' <=> Pending(v))
  BY <1>2, TaskFacts DEF Pending, SameQueues
<1>5. \A t \in Requests : SingleIn(t)'
  BY <1>1 DEF QueueInv, SingleIn, SameQueues
<1>6. \A t \in Requests : Family(t) \subseteq Tasks
  BY Families DEF FamilyFacts, Requests
<1>7. NoTask \notin Tasks
  BY SlotsAssumption DEF NoTask
<1>8. \A v \in Tasks : \A s \in Slots : slot_task'[s] = v <=> v # u /\ slot_task[s] = v
  BY <1>7
<1>9. \A t \in Requests : Untouched(t) => Untouched(t)'
  BY <1>6, <1>8 DEF Untouched
<1>10. QueueInv'
  BY <1>1, <1>3, <1>5, <1>9 DEF QueueInv
<1>11. HomeInv'
  BY <1>1 DEF TaskInv, HomeInv
<1>12. CancelInv'
  BY <1>1, <1>4, <1>6, <1>8 DEF TaskInv, CancelInv
<1>13. EndInv'
  BY <1>1 DEF TaskInv, EndInv
<1>14. ASSUME NEW t \in Requests
       PROVE  Remembered(t)'
  <2>1. CASE u \in Family(t)
    <3>1. Pending(u)
      BY <1>2 DEF Pending
    <3>2. request[t] # "waiting"
      BY <1>1, <2>1, <3>1 DEF TaskInv, CancelInv
    <3> QED  BY <3>2 DEF Remembered
  <2>2. CASE u \notin Family(t)
    <3>1. Remembered(t)
      BY <1>1 DEF TaskInv
    <3>2. \A v \in Family(t) : \A s \in Slots : slot_task'[s] = v <=> slot_task[s] = v
      BY <1>6, <1>8, <2>2
    <3> QED  BY <1>3, <3>1, <3>2 DEF Remembered
  <2> QED  BY <2>1, <2>2
<1> QED  BY <1>10, <1>11, <1>12, <1>13, <1>14 DEF TaskInv

\* Tasks that have no slot to be in.
LEMMA NoTaskAside == NoTask \notin Tasks /\ Requests \subseteq Tasks
BY SlotsAssumption DEF NoTask, Requests

\* What a task leaves behind once it is processed.
Processed ==
    /\ TaskInv'
    /\ queue_tasks' \in Seq(QueuedTasks)
    /\ queue_tasks_deferred' \in Seq(RunTasks)
    /\ state' \in [Slots -> States]
    /\ slot_task' \in [Slots -> Tasks \cup {NoTask}]
    /\ has_prompt' \subseteq Slots
    /\ n_empty_consecutive' \in {0, n_empty_consecutive}
    /\ answer' \in [Tasks -> {"none", "final", "error"}]
    /\ \A s \in Slots :
          /\ state'[s] = "IDLE" <=> slot_task'[s] = NoTask
          /\ state'[s] \in {"STARTED", "PROCESSING_PROMPT"} => slot_task'[s] \in Requests
          /\ state'[s] = "WAIT_OTHER" => slot_task'[s] \notin Requests
          /\ state'[s] # "DONE_PROMPT"

LEMMA RunIsProcessed ==
    ASSUME IInv, loop = "process", NEW t \in Requests, hand = <<RunTask(t)>>, ProcessRun(t),
           hand' = <<>>, request' = request
    PROVE  Processed
<1>1. TypeOK /\ TaskInv /\ QueueInv /\ StateInv
  BY DEF IInv, TaskInv
<1>2. queue_tasks \in Seq(QueuedTasks) /\ queue_tasks_deferred \in Seq(RunTasks)
  BY <1>1, TypesOfQueues
<1>3. /\ state \in [Slots -> States] /\ slot_task \in [Slots -> Tasks \cup {NoTask}]
      /\ has_prompt \subseteq Slots /\ answer \in [Tasks -> {"none", "final", "error"}]
  BY <1>1 DEF TypeOK
<1>4. \A s \in Slots :
          /\ state[s] = "IDLE" <=> slot_task[s] = NoTask
          /\ state[s] \in {"STARTED", "PROCESSING_PROMPT"} => slot_task[s] \in Requests
          /\ state[s] = "WAIT_OTHER" => slot_task[s] \notin Requests
          /\ state[s] # "DONE_PROMPT"
  BY <1>1 DEF StateInv
<1>5. CASE Defer(RunTask(t))
  <2>1. TaskInv' /\ queue_tasks_deferred' \in Seq(RunTasks)
    BY <1>5, DeferKeeps
  <2>2. /\ queue_tasks' = queue_tasks /\ state' = state /\ slot_task' = slot_task
        /\ has_prompt' = has_prompt /\ n_empty_consecutive' = n_empty_consecutive
        /\ answer' = answer
    BY <1>5 DEF Defer, slotVars
  <2> QED  BY <1>2, <1>3, <1>4, <2>1, <2>2 DEF Processed
<1>6. ASSUME NEW u \in Family(t), NEW what \in {"final", "error"},
             what = "final" => Family(t) = {u}, Answer({u}, what)
      PROVE  Processed
  <2>1. TaskInv' /\ answer' \in [Tasks -> {"none", "final", "error"}]
    BY <1>6, AnswerKeeps
  <2>2. /\ queue_tasks' = queue_tasks /\ queue_tasks_deferred' = queue_tasks_deferred
        /\ state' = state /\ slot_task' = slot_task
        /\ has_prompt' = has_prompt /\ n_empty_consecutive' = n_empty_consecutive
    BY <1>6 DEF Answer, queueVars, slotVars
  <2> QED  BY <1>2, <1>3, <1>4, <2>1, <2>2 DEF Processed
<1>7. ASSUME NEW s, NEW others, Seats(t, s, others), Launch(t, s, others)
      PROVE  Processed
  <2>1. Carried(t)
    BY DEF Carried
  <2>2. \A r \in Slots : slot_task[r] \notin Family(t)
    BY <1>1, <2>1 DEF QueueInv, Untouched
  <2>3. Seated(t) /\ slot_task' \in [Slots -> Tasks \cup {NoTask}] /\ state' \in [Slots -> States]
    BY <1>1, <1>7, <2>2, LaunchSeats
  <2>4. /\ queue_tasks' = queue_tasks /\ queue_tasks_deferred' = queue_tasks_deferred
        /\ answer' = answer /\ n_empty_consecutive' = 0
        /\ has_prompt' = has_prompt \ ({s} \cup ToSet(others))
    BY <1>7 DEF Launch, queueVars
  <2>5. TaskInv'
    BY <2>3, <2>4, LaunchKeeps
  <2>6. t \in Tasks /\ \A c \in ToSet(ChildrenOf[t]) : c \notin Requests /\ c \in Tasks
    <3>1. t \in Tasks /\ Family(t) \subseteq Tasks
      BY NoTaskAside, Families DEF FamilyFacts
    <3>2. \A c \in ToSet(ChildrenOf[t]) : c \in Family(t)
      BY DEF Family
    <3> QED  BY <3>1, <3>2, Families DEF FamilyFacts
  <2>7. \A r \in Slots :
          /\ state'[r] = "IDLE" <=> slot_task'[r] = NoTask
          /\ state'[r] \in {"STARTED", "PROCESSING_PROMPT"} => slot_task'[r] \in Requests
          /\ state'[r] = "WAIT_OTHER" => slot_task'[r] \notin Requests
          /\ state'[r] # "DONE_PROMPT"
    BY <1>4, <2>3, <2>6, NoTaskAside DEF Seated
  <2>8. has_prompt' \subseteq Slots
    BY <1>3, <2>4
  <2> QED  BY <1>2, <1>3, <2>3, <2>4, <2>5, <2>7, <2>8 DEF Processed
<1>8. CASE Family(t) = {t} /\ Answer({t}, "final")
  BY <1>6, <1>8
<1>9. CASE \E u \in Family(t) : Answer({u}, "error")
  BY <1>6, <1>9
<1>10. CASE \E s, others : Seats(t, s, others) /\ Launch(t, s, others)
  BY <1>7, <1>10
<1> QED  BY <1>1, <1>5, <1>8, <1>9, <1>10, ProcessRunMeans

LEMMA CancelIsProcessed ==
    ASSUME IInv, loop = "process", NEW u \in Tasks, hand = <<CancelTask(u)>>, ProcessCancel(u),
           hand' = <<>>, request' = request
    PROVE  Processed
<1>1. TypeOK /\ StateInv
  BY DEF IInv
<1>2. SlotsOf({u}) \in SUBSET Slots
  BY DEF SlotsOf
<1>3. PICK order : order = InSlotOrder(SlotsOf({u}))
  OBVIOUS
<1>4. order \in Seq(Slots) /\ ToSet(order) = SlotsOf({u})
  BY <1>2, <1>3, InOrder
<1>5. /\ Release(order, state, has_prompt, queue_tasks)
      /\ n_empty_consecutive' = n_empty_consecutive /\ answer' = answer
  BY <1>3 DEF ProcessCancel
<1>6. queue_tasks \in Seq(QueuedTasks)
  BY <1>1, TypesOfQueues
<1>7. /\ state' = [s \in Slots |-> IF s \in ToSet(order) THEN "IDLE" ELSE state[s]]
      /\ slot_task' = [s \in Slots |-> IF s \in ToSet(order) THEN NoTask ELSE slot_task[s]]
      /\ has_prompt' = has_prompt \ ToSet(order)
      /\ queue_tasks' \in Seq(QueuedTasks)
      /\ queue_tasks_deferred' \in Seq(RunTasks)
      /\ SameQueues
  BY <1>1, <1>4, <1>5, <1>6, ReleaseMeans
<1>8. \A s \in Slots : s \in ToSet(order) <=> slot_task[s] = u
  BY <1>4 DEF SlotsOf
<1>9. \A s \in Slots :
        /\ slot_task'[s] = IF slot_task[s] = u THEN NoTask ELSE slot_task[s]
        /\ state'[s] = IF slot_task[s] = u THEN "IDLE" ELSE state[s]
  BY <1>7, <1>8
<1>10. TaskInv'
  BY <1>5, <1>7, <1>9, CancelKeeps
<1>11. state' \in [Slots -> States] /\ slot_task' \in [Slots -> Tasks \cup {NoTask}]
  <2>1. state \in [Slots -> States] /\ slot_task \in [Slots -> Tasks \cup {NoTask}]
    BY <1>1 DEF TypeOK
  <2>2. "IDLE" \in States
    BY DEF States
  <2> QED  BY <1>7, <2>1, <2>2
<1>12. has_prompt' \subseteq Slots /\ answer' \in [Tasks -> {"none", "final", "error"}]
  BY <1>1, <1>5, <1>7 DEF TypeOK
<1>13. \A s \in Slots :
          /\ state'[s] = "IDLE" <=> slot_task'[s] = NoTask
          /\ state'[s] \in {"STARTED", "PROCESSING_PROMPT"} => slot_task'[s] \in Requests
          /\ state'[s] = "WAIT_OTHER" => slot_task'[s] \notin Requests
          /\ state'[s] # "DONE_PROMPT"
  BY <1>1, <1>9 DEF StateInv
<1> QED  BY <1>5, <1>7, <1>10, <1>11, <1>12, <1>13 DEF Processed

LEMMA ProcessTaskKeeps ==
    ASSUME IInv, ProcessTask, fate' = fate
    PROVE  IInv'
<1>1. TypeOK /\ TaskInv /\ StateInv /\ QueueInv
  BY DEF IInv, TaskInv
<1>2. /\ loop = "process" /\ loop' = "drain" /\ hand' = <<>> /\ request' = request
      /\ batch' = batch /\ views' = views /\ aborted' = aborted
  BY DEF ProcessTask
<1>3. PICK task \in QueuedTasks : hand = <<task>>
  <2>1. hand # <<>> /\ hand \in {<<>>} \cup {<<task>> : task \in QueuedTasks}
    BY <1>1, <1>2 DEF IInv, TypeOK
  <2> QED  BY <2>1
<1>4. hand[1] = task
  BY <1>3
<1>5. \/ task.type = "run" /\ ProcessRun(task.id)
      \/ task.type = "cancel" /\ ProcessCancel(task.target)
      \/ task.type = "next_response" /\ UNCHANGED <<queueVars, slotVars, n_empty_consecutive, answer>>
  BY <1>4 DEF ProcessTask
<1>6. \/ \E t \in Requests : task = RunTask(t)
      \/ \E u \in Tasks : task = CancelTask(u)
      \/ task = NextResponse
  BY <1>3 DEF QueuedTasks
<1>7. ASSUME \E t \in Requests : task = RunTask(t)
      PROVE  Processed
  <2>1. PICK t \in Requests : task = RunTask(t)
    BY <1>7
  <2>2. task.type = "run" /\ task.id = t
    BY <2>1, TaskFacts
  <2>3. ProcessRun(t)
    BY <1>5, <2>2
  <2> QED  BY <1>2, <1>3, <2>1, <2>3, RunIsProcessed
<1>8. ASSUME \E u \in Tasks : task = CancelTask(u)
      PROVE  Processed
  <2>1. PICK u \in Tasks : task = CancelTask(u)
    BY <1>8
  <2>2. task.type = "cancel" /\ task.target = u
    BY <2>1, TaskFacts
  <2>3. ProcessCancel(u)
    BY <1>5, <2>2
  <2> QED  BY <1>2, <1>3, <2>1, <2>3, CancelIsProcessed
<1>9. ASSUME task = NextResponse
      PROVE  Processed
  <2>1. task.type = "next_response"
    BY <1>9, TaskFacts
  <2>2. /\ queue_tasks' = queue_tasks /\ queue_tasks_deferred' = queue_tasks_deferred
        /\ state' = state /\ slot_task' = slot_task /\ has_prompt' = has_prompt
        /\ n_empty_consecutive' = n_empty_consecutive /\ answer' = answer
    BY <1>5, <2>1 DEF queueVars, slotVars
  <2>3. \A t : hand # <<RunTask(t)>> /\ hand # <<CancelTask(t)>>
    BY <1>3, <1>9, TaskFacts
  <2>4. KeepsQueues
    BY <1>2, <2>2, <2>3 DEF KeepsQueues, SingleIn, Carried, Pending, Queues
  <2>5. TaskInv'
    BY <1>1, <1>2, <2>2, <2>4, StillKeeps
  <2> QED  BY <1>1, <1>2, <2>2, <2>5, TypesOfQueues DEF Processed, TypeOK, StateInv
<1>10. Processed
  BY <1>6, <1>7, <1>8, <1>9
<1>11. n_empty_consecutive' \in 0 .. (IF aborted' THEN 4 ELSE 3)
  BY <1>1, <1>2, <1>10 DEF Processed, TypeOK
<1>12. TypeOK'
  <2>1. queue_tasks_deferred' \in Seq({RunTask(t) : t \in Requests})
    BY <1>10 DEF Processed, RunTasks
  <2>2. /\ batch' \in Seq(Slots) /\ views' \in 0 .. MaxViews /\ aborted' \in BOOLEAN
        /\ request' \in [Requests -> {"new", "waiting", "served", "failed", "left"}]
        /\ \A t \in Requests : fate'[t] \in Fates[t]
    BY <1>1, <1>2 DEF TypeOK
  <2> QED  BY <1>2, <1>10, <1>11, <2>1, <2>2 DEF Processed, TypeOK
<1>13. StateInv' /\ BatchInv' /\ TaskInv'
  BY <1>2, <1>10 DEF Processed, StateInv, BatchInv
<1> QED  BY <1>2, <1>12, <1>13 DEF IInv
-----------------------------------------------------------------------------
(* The main loop ends what runs in some slots *)

\* release() of the slots of a sequence, whose tasks are answered.
LEMMA ReleasedEnd ==
    ASSUME IInv, loop # "process", hand' = hand, request' = request,
           NEW order \in Seq(Slots), NEW st, NEW prompts,
           NEW tasks \in {queue_tasks, Push(queue_tasks, NextResponse, FALSE)},
           Release(order, st, prompts, tasks),
           \A s \in ToSet(order) : state[s] # "IDLE",
           \A t \in Tasks : IF t \in TasksIn(ToSet(order)) THEN answer'[t] \in {"final", "error"}
                            ELSE answer'[t] = answer[t]
    PROVE  /\ TaskInv'
           /\ state' = [s \in Slots |-> IF s \in ToSet(order) THEN "IDLE" ELSE st[s]]
           /\ slot_task' = [s \in Slots |-> IF s \in ToSet(order) THEN NoTask ELSE slot_task[s]]
           /\ has_prompt' = prompts \ ToSet(order)
           /\ queue_tasks' \in Seq(QueuedTasks)
           /\ queue_tasks_deferred' \in Seq(RunTasks)
<1>1. TypeOK /\ TaskInv /\ StateInv
  BY DEF IInv
<1>2. queue_tasks \in Seq(QueuedTasks)
  BY <1>1, TypesOfQueues
<1>3. NextResponse \in QueuedTasks /\ NextResponse.id \notin Tasks
  BY TaskFacts
<1>4. PICK more : more = Push(queue_tasks, NextResponse, FALSE)
  OBVIOUS
<1>5. /\ more \in Seq(QueuedTasks)
      /\ \A u : In(more, u) <=> u = NextResponse \/ In(queue_tasks, u)
  BY <1>2, <1>3, <1>4, PushProperties
<1>6. \A t \in Tasks : OccursOnce(queue_tasks, t) => OccursOnce(more, t)
  <2> SUFFICES ASSUME NEW t \in Tasks, OccursOnce(queue_tasks, t)
               PROVE  OccursOnce(more, t)
    OBVIOUS
  <2>1. NextResponse.id = t => ~Holds(queue_tasks, t)
    BY <1>3
  <2> QED  BY <1>2, <1>3, <1>4, <2>1, PushOnce
<1>7. /\ tasks \in Seq(QueuedTasks)
      /\ \A u : In(tasks, u) <=> In(queue_tasks, u) \/ (u = NextResponse /\ In(tasks, u))
      /\ \A t \in Tasks : OccursOnce(queue_tasks, t) => OccursOnce(tasks, t)
  <2>1. CASE tasks = queue_tasks
    BY <1>2, <2>1
  <2>2. CASE tasks = more
    BY <1>5, <1>6, <2>2
  <2> QED  BY <1>4, <2>1, <2>2
<1>8. /\ state' = [s \in Slots |-> IF s \in ToSet(order) THEN "IDLE" ELSE st[s]]
      /\ slot_task' = [s \in Slots |-> IF s \in ToSet(order) THEN NoTask ELSE slot_task[s]]
      /\ has_prompt' = prompts \ ToSet(order)
      /\ queue_tasks' \in Seq(QueuedTasks)
      /\ queue_tasks_deferred' \in Seq(RunTasks)
      /\ SameQueues
  BY <1>1, <1>7, ReleaseMeans
<1>9. PICK R : R = ToSet(order)
  OBVIOUS
<1>10. R \in SUBSET Slots
  BY <1>9 DEF ToSet
<1>11. \A s \in R : slot_task[s] # NoTask
  BY <1>1, <1>9, <1>10 DEF StateInv
<1>12. KeepsQueues
  BY <1>8, SameKept
<1>13. Ends(R)
  BY <1>8, <1>9, <1>12 DEF Ends
<1>14. TaskInv'
  BY <1>1, <1>10, <1>11, <1>13, EndsKeeps
<1> QED  BY <1>8, <1>14

\* Two sets of slots, each in the order of the slots.
LEMMA TwoInOrder ==
    ASSUME NEW a \in SUBSET Slots, NEW b \in SUBSET Slots
    PROVE  /\ InSlotOrder(a) \o InSlotOrder(b) \in Seq(Slots)
           /\ ToSet(InSlotOrder(a) \o InSlotOrder(b)) = a \cup b
           /\ a \cap b = {} => IsInjective(InSlotOrder(a) \o InSlotOrder(b))
<1>1. PICK p, q : p = InSlotOrder(a) /\ q = InSlotOrder(b)
  OBVIOUS
<1>2. /\ p \in Seq(Slots) /\ ToSet(p) = a /\ IsInjective(p)
      /\ q \in Seq(Slots) /\ ToSet(q) = b /\ IsInjective(q)
  BY <1>1, InOrder
<1>3. PICK m, n, r : m = Len(p) /\ n = Len(q) /\ r = p \o q
  OBVIOUS
<1>4. /\ r \in Seq(Slots) /\ m \in Nat /\ n \in Nat
      /\ DOMAIN p = 1 .. m /\ DOMAIN q = 1 .. n /\ DOMAIN r = 1 .. m + n
      /\ \A i \in 1 .. m + n : r[i] = IF i <= m THEN p[i] ELSE q[i - m]
  BY <1>2, <1>3
<1>5. \A i \in DOMAIN p : p[i] \in a
  BY <1>2 DEF ToSet
<1>6. \A i \in DOMAIN q : q[i] \in b
  BY <1>2 DEF ToSet
<1>7. \A i \in DOMAIN r : \/ i \in DOMAIN p /\ r[i] = p[i]
                          \/ i - m \in DOMAIN q /\ r[i] = q[i - m]
  BY <1>4
<1>8. \A i \in DOMAIN p : i \in DOMAIN r /\ r[i] = p[i]
  BY <1>4
<1>9. \A i \in DOMAIN q : i + m \in DOMAIN r /\ r[i + m] = q[i]
  <2> SUFFICES ASSUME NEW i \in DOMAIN q
               PROVE  i + m \in DOMAIN r /\ r[i + m] = q[i]
    OBVIOUS
  <2>1. i + m \in 1 .. m + n /\ ~(i + m <= m) /\ (i + m) - m = i
    BY <1>4
  <2> QED  BY <1>4, <2>1
<1>10. ToSet(r) = a \cup b
  <2>1. \A x \in ToSet(r) : x \in a \cup b
    BY <1>5, <1>6, <1>7 DEF ToSet
  <2>2. \A x \in a : x \in ToSet(r)
    BY <1>2, <1>8 DEF ToSet
  <2>3. \A x \in b : x \in ToSet(r)
    BY <1>2, <1>9 DEF ToSet
  <2> QED  BY <2>1, <2>2, <2>3
<1>11. ASSUME a \cap b = {}, NEW i \in DOMAIN r, NEW j \in DOMAIN r, r[i] = r[j]
       PROVE  i = j
  <2>1. CASE i \in DOMAIN p /\ r[i] = p[i] /\ j \in DOMAIN p /\ r[j] = p[j]
    BY <1>2, <1>11, <2>1 DEF IsInjective
  <2>2. CASE i - m \in DOMAIN q /\ r[i] = q[i - m] /\ j - m \in DOMAIN q /\ r[j] = q[j - m]
    <3>1. i - m = j - m
      BY <1>2, <1>11, <2>2 DEF IsInjective
    <3> QED  BY <1>4, <3>1
  <2>3. CASE i \in DOMAIN p /\ r[i] = p[i] /\ j - m \in DOMAIN q /\ r[j] = q[j - m]
    BY <1>5, <1>6, <1>11, <2>3
  <2>4. CASE i - m \in DOMAIN q /\ r[i] = q[i - m] /\ j \in DOMAIN p /\ r[j] = p[j]
    BY <1>5, <1>6, <1>11, <2>4
  <2> QED  BY <1>7, <2>1, <2>2, <2>3, <2>4
<1>12. a \cap b = {} => IsInjective(r)
  BY <1>11 DEF IsInjective
<1> QED  BY <1>1, <1>3, <1>4, <1>10, <1>12, Zenon

-----------------------------------------------------------------------------
(* update_slots fills a batch *)

\* The tasks of a set of slots whose prompts have this fate.
EndedBy(unfit, what) == TasksIn({s \in unfit : fate[slot_task[s]] = what})

\* PrepareBatch, for the slots that contribute to the batch, those that are refused
\* and those whose prompt is fed.
Prepared(outgrown, batched, unfit, fed, done) ==
    /\ outgrown \subseteq Generating /\ batched \subseteq Generating \ outgrown
    /\ unfit \subseteq Unfit /\ fed \subseteq Prompting \ unfit /\ done \subseteq fed
    /\ answer' = Answered(Answered(answer, TasksIn(outgrown) \cup EndedBy(unfit, "too_long"), "error"),
                          EndedBy(unfit, "empty"), "final")
    /\ Release(InSlotOrder(outgrown) \o InSlotOrder(unfit),
               [s \in Slots |-> IF s \in done THEN "DONE_PROMPT"
                                ELSE IF s \in fed THEN "PROCESSING_PROMPT" ELSE state[s]],
               has_prompt,
               Push(queue_tasks, NextResponse, FALSE))
    /\ batch' = InSlotOrder(batched) \o InSlotOrder(done)
    /\ views' = 0
    /\ n_empty_consecutive' \in {0, n_empty_consecutive + 1}
    /\ aborted' = (n_empty_consecutive' > 3)
    /\ loop' \in {"drain", "decode"} /\ (loop' = "drain" => fed = {})

LEMMA UpdatePrepares ==
    ASSUME UpdateSlots
    PROVE  \E outgrown, batched, unfit, fed, done : Prepared(outgrown, batched, unfit, fed, done)
<1>1. PICK outgrown \in SUBSET MayOutgrow, cut \in Slots, done \in SUBSET Prompting :
         PrepareBatch(outgrown, cut, done)
  BY DEF UpdateSlots
<1>2. PICK gen : gen = Generating \ outgrown
  OBVIOUS
<1>3. PICK reached : reached = {s \in Prompting \cap Compatible(gen) : s <= cut}
  OBVIOUS
<1>4. PICK unfit : unfit = reached \cap Unfit
  OBVIOUS
<1>5. PICK fed : fed = reached \ unfit
  OBVIOUS
<1>6. PICK n : n = IF gen \cup fed = {} THEN n_empty_consecutive + 1 ELSE 0
  OBVIOUS
<1>7. PICK batched : batched = gen \cap Compatible(gen)
  OBVIOUS
<1>8. /\ done \subseteq fed
      /\ answer' = Answered(Answered(answer, TasksIn(outgrown) \cup EndedBy(unfit, "too_long"), "error"),
                            EndedBy(unfit, "empty"), "final")
      /\ Release(InSlotOrder(outgrown) \o InSlotOrder(unfit),
                 [s \in Slots |-> IF s \in done THEN "DONE_PROMPT"
                                  ELSE IF s \in fed THEN "PROCESSING_PROMPT" ELSE state[s]],
                 has_prompt,
                 Push(queue_tasks, NextResponse, FALSE))
      /\ batch' = InSlotOrder(batched) \o InSlotOrder(done)
      /\ views' = 0
      /\ n_empty_consecutive' = n
      /\ aborted' = (n > 3)
      /\ loop' = IF gen \cup fed = {} THEN "drain" ELSE "decode"
  BY <1>1, <1>2, <1>3, <1>4, <1>5, <1>6, <1>7, Zenon
     DEF PrepareBatch, Refused, KillSwitch, EndedBy
<1>9. outgrown \subseteq Generating
  BY DEF MayOutgrow
<1>10. /\ batched \subseteq Generating \ outgrown /\ unfit \subseteq Unfit
       /\ fed \subseteq Prompting \ unfit
  BY <1>2, <1>3, <1>4, <1>5, <1>7
<1>11. /\ n_empty_consecutive' \in {0, n_empty_consecutive + 1}
       /\ aborted' = (n_empty_consecutive' > 3)
       /\ loop' \in {"drain", "decode"} /\ (loop' = "drain" => fed = {})
  BY <1>6, <1>8
<1>12. Prepared(outgrown, batched, unfit, fed, done)
  BY <1>8, <1>9, <1>10, <1>11, Zenon DEF Prepared
<1> QED  BY <1>12

\* The tasks that are refused have one answer.
LEMMA RefusedAnswers ==
    ASSUME IInv, NEW outgrown \in SUBSET Generating, NEW unfit \in SUBSET Unfit, NEW t \in Tasks,
           answer' = Answered(Answered(answer, TasksIn(outgrown) \cup EndedBy(unfit, "too_long"), "error"),
                              EndedBy(unfit, "empty"), "final")
    PROVE  IF t \in TasksIn(outgrown \cup unfit) THEN answer'[t] \in {"final", "error"}
           ELSE answer'[t] = answer[t]
<1>1. /\ \A s, r \in Slots : slot_task[s] = slot_task[r] /\ slot_task[s] # NoTask => s = r
      /\ \A s \in Slots : slot_task[s] # NoTask => answer[slot_task[s]] = "none"
  BY DEF IInv, TaskInv, HomeInv
<1>2. \A s \in outgrown : s \in Slots /\ state[s] = "GENERATING"
  BY DEF Generating, In_
<1>3. \A s \in unfit : s \in Slots /\ state[s] = "STARTED" /\ fate[slot_task[s]] \in {"empty", "too_long"}
  BY DEF Unfit, In_
<1>4. t # NoTask
  BY NoTaskAside
<1>5. PICK errors, finals : errors = TasksIn(outgrown) \cup EndedBy(unfit, "too_long")
                            /\ finals = EndedBy(unfit, "empty")
  OBVIOUS
<1>6. PICK ans : ans = Answered(answer, errors, "error")
  OBVIOUS
<1>7. /\ ans[t] = IF t \notin errors THEN answer[t] ELSE IF answer[t] = "none" THEN "error" ELSE "twice"
      /\ answer'[t] = IF t \notin finals THEN ans[t] ELSE IF ans[t] = "none" THEN "final" ELSE "twice"
  <2>1. answer' = Answered(ans, finals, "final")
    BY <1>5, <1>6
  <2> QED  BY <1>6, <2>1 DEF Answered
<1>8. t \in errors <=> \/ \E s \in outgrown : slot_task[s] = t
                       \/ \E s \in unfit : slot_task[s] = t /\ fate[t] = "too_long"
  BY <1>5 DEF TasksIn, EndedBy
<1>9. t \in finals <=> \E s \in unfit : slot_task[s] = t /\ fate[t] = "empty"
  BY <1>5 DEF TasksIn, EndedBy
<1>10. t \in TasksIn(outgrown \cup unfit) <=> \E s \in outgrown \cup unfit : slot_task[s] = t
  BY DEF TasksIn
<1>11. t \in TasksIn(outgrown \cup unfit) <=> t \in errors \/ t \in finals
  BY <1>3, <1>8, <1>9, <1>10
<1>12. t \in errors => t \notin finals
  <2>1. "empty" # "too_long"
    OBVIOUS
  <2>2. \A s \in outgrown : \A r \in unfit : slot_task[s] = t => slot_task[r] # t
    BY <1>1, <1>2, <1>3, <1>4
  <2> QED  BY <1>8, <1>9, <2>1, <2>2
<1>13. t \in TasksIn(outgrown \cup unfit) => answer[t] = "none"
  BY <1>1, <1>2, <1>3, <1>4, <1>10
<1> QED  BY <1>7, <1>11, <1>12, <1>13

LEMMA UpdateSlotsKeeps ==
    ASSUME IInv, UpdateSlots, ~aborted, fate' = fate
    PROVE  IInv'
<1>1. TypeOK /\ StateInv
  BY DEF IInv
<1>2. loop = "update" /\ hand' = hand /\ request' = request /\ hand = <<>>
  BY DEF UpdateSlots, IInv
<1>3. PICK outgrown, batched, unfit, fed, done : Prepared(outgrown, batched, unfit, fed, done)
  BY UpdatePrepares
<1>4. /\ outgrown \subseteq Generating /\ batched \subseteq Generating \ outgrown
      /\ unfit \subseteq Unfit /\ fed \subseteq Prompting \ unfit /\ done \subseteq fed
  BY <1>3 DEF Prepared
<1>5. /\ answer' = Answered(Answered(answer, TasksIn(outgrown) \cup EndedBy(unfit, "too_long"), "error"),
                            EndedBy(unfit, "empty"), "final")
      /\ Release(InSlotOrder(outgrown) \o InSlotOrder(unfit),
                 [s \in Slots |-> IF s \in done THEN "DONE_PROMPT"
                                  ELSE IF s \in fed THEN "PROCESSING_PROMPT" ELSE state[s]],
                 has_prompt,
                 Push(queue_tasks, NextResponse, FALSE))
  BY <1>3, Zenon DEF Prepared
<1>6. /\ batch' = InSlotOrder(batched) \o InSlotOrder(done)
      /\ views' = 0
      /\ n_empty_consecutive' \in {0, n_empty_consecutive + 1}
      /\ aborted' = (n_empty_consecutive' > 3)
      /\ loop' \in {"drain", "decode"} /\ (loop' = "drain" => fed = {})
  BY <1>3, Zenon DEF Prepared
<1>7. /\ \A s \in Generating : s \in Slots /\ state[s] = "GENERATING"
      /\ \A s \in Unfit : s \in Slots /\ state[s] = "STARTED"
      /\ \A s \in Prompting : s \in Slots /\ state[s] \in {"STARTED", "PROCESSING_PROMPT"}
                              /\ slot_task[s] \in Requests
  BY <1>1 DEF Generating, Unfit, Prompting, In_, StateInv
<1>8. /\ outgrown \in SUBSET Slots /\ unfit \in SUBSET Slots /\ batched \in SUBSET Slots
      /\ done \in SUBSET Slots /\ fed \in SUBSET Slots
  BY <1>4, <1>7
<1>9. PICK order : order = InSlotOrder(outgrown) \o InSlotOrder(unfit)
  OBVIOUS
<1>10. order \in Seq(Slots) /\ ToSet(order) = outgrown \cup unfit
  BY <1>8, <1>9, TwoInOrder
<1>11. PICK st : st = [s \in Slots |-> IF s \in done THEN "DONE_PROMPT"
                                       ELSE IF s \in fed THEN "PROCESSING_PROMPT" ELSE state[s]]
  OBVIOUS
<1>12. \A t \in Tasks : IF t \in TasksIn(ToSet(order)) THEN answer'[t] \in {"final", "error"}
                        ELSE answer'[t] = answer[t]
  <2>1. outgrown \in SUBSET Generating /\ unfit \in SUBSET Unfit
    BY <1>4
  <2>2. ASSUME NEW t \in Tasks
        PROVE  IF t \in TasksIn(outgrown \cup unfit) THEN answer'[t] \in {"final", "error"}
               ELSE answer'[t] = answer[t]
    BY <1>5, <2>1, RefusedAnswers, Zenon
  <2> QED  BY <1>10, <2>2, Zenon
<1>13. Release(order, st, has_prompt, Push(queue_tasks, NextResponse, FALSE))
  BY <1>5, <1>9, <1>11
<1>14. \A s \in ToSet(order) : state[s] # "IDLE"
  BY <1>4, <1>7, <1>10
<1>15. /\ TaskInv'
       /\ state' = [s \in Slots |-> IF s \in ToSet(order) THEN "IDLE" ELSE st[s]]
       /\ slot_task' = [s \in Slots |-> IF s \in ToSet(order) THEN NoTask ELSE slot_task[s]]
       /\ has_prompt' = has_prompt \ ToSet(order)
       /\ queue_tasks' \in Seq(QueuedTasks)
       /\ queue_tasks_deferred' \in Seq(RunTasks)
  BY <1>2, <1>10, <1>12, <1>13, <1>14, ReleasedEnd
<1>16. \A s \in Slots :
          /\ state'[s] = IF s \in outgrown \cup unfit THEN "IDLE"
                         ELSE IF s \in done THEN "DONE_PROMPT"
                         ELSE IF s \in fed THEN "PROCESSING_PROMPT" ELSE state[s]
          /\ slot_task'[s] = IF s \in outgrown \cup unfit THEN NoTask ELSE slot_task[s]
  BY <1>10, <1>11, <1>15
<1>17. \A s \in done : s \notin outgrown \cup unfit
  BY <1>4, <1>7
<1>18. \A s \in batched : s \notin outgrown \cup unfit /\ s \notin fed /\ s \notin done
  BY <1>4, <1>7
<1>19. \A s \in Slots : state[s] # "DONE_PROMPT"
  BY <1>1, <1>2 DEF StateInv
<1>20. /\ \A s \in batched : state'[s] = "GENERATING"
       /\ \A s \in done : state'[s] = "DONE_PROMPT" /\ slot_task'[s] \in Requests
       /\ \A s \in Slots : state'[s] = "DONE_PROMPT" => s \in done
  BY <1>4, <1>7, <1>8, <1>16, <1>17, <1>18, <1>19
<1>21. /\ batch' \in Seq(Slots) /\ ToSet(batch') = batched \cup done /\ IsInjective(batch')
  <2>1. batched \cap done = {}
    BY <1>18
  <2> QED  BY <1>6, <1>8, <2>1, TwoInOrder
<1>22. BatchGood'
  <2>1. \A i \in DOMAIN batch' : batch'[i] \in batched \cup done
    BY <1>21 DEF ToSet
  <2>2. \A s \in done : \E i \in DOMAIN batch' : batch'[i] = s
    BY <1>21 DEF ToSet
  <2> QED  BY <1>20, <1>21, <2>1, <2>2 DEF BatchGood
<1>23. BatchInv'
  BY <1>22 DEF BatchInv
<1>24. StateInv'
  <2>1. \A s \in Slots : state'[s] = "DONE_PROMPT" => loop' = "decode"
    BY <1>4, <1>6, <1>20
  <2>2. \A s \in Slots :
          /\ state'[s] = "IDLE" <=> slot_task'[s] = NoTask
          /\ state'[s] \in {"STARTED", "PROCESSING_PROMPT"} => slot_task'[s] \in Requests
          /\ state'[s] = "WAIT_OTHER" => slot_task'[s] \notin Requests
    BY <1>1, <1>4, <1>7, <1>16, NoTaskAside DEF StateInv
  <2> QED  BY <2>1, <2>2 DEF StateInv
<1>25. /\ state' \in [Slots -> States]
       /\ slot_task' \in [Slots -> Tasks \cup {NoTask}]
       /\ has_prompt' \subseteq Slots
  <2>1. \A s \in Slots : state[s] \in States /\ slot_task[s] \in Tasks \cup {NoTask}
    BY <1>1 DEF TypeOK
  <2>2. {"IDLE", "DONE_PROMPT", "PROCESSING_PROMPT"} \subseteq States
    BY DEF States
  <2>3. has_prompt \subseteq Slots
    BY <1>1 DEF TypeOK
  <2>4. \A s \in Slots : state'[s] \in States /\ slot_task'[s] \in Tasks \cup {NoTask}
    BY <1>16, <2>1, <2>2
  <2> QED  BY <1>15, <2>3, <2>4
<1>26. answer' \in [Tasks -> {"none", "final", "error"}]
  <2>1. answer' = [t \in Tasks |-> answer'[t]]
    BY <1>5 DEF Answered
  <2>2. \A t \in Tasks : answer'[t] \in {"none", "final", "error"}
    BY <1>1, <1>12 DEF TypeOK
  <2> QED  BY <2>1, <2>2
<1>27. aborted' \in BOOLEAN /\ n_empty_consecutive' \in 0 .. (IF aborted' THEN 4 ELSE 3)
  <2>1. n_empty_consecutive \in 0 .. 3
    BY <1>1 DEF TypeOK
  <2>2. n_empty_consecutive' \in 0 .. 4
    BY <1>6, <2>1
  <2>3. CASE n_empty_consecutive' > 3
    <3>1. aborted' = TRUE
      BY <1>6, <2>3
    <3> QED  BY <2>2, <3>1
  <2>4. CASE ~(n_empty_consecutive' > 3)
    <3>1. aborted' = FALSE
      <4>1. aborted' = (n_empty_consecutive' > 3)
        BY <1>6
      <4>2. (n_empty_consecutive' > 3) = FALSE
        BY <2>2, <2>4
      <4> QED  BY <4>1, <4>2, Zenon
    <3>2. n_empty_consecutive' \in 0 .. 3
      BY <2>2, <2>4
    <3> QED  BY <3>1, <3>2
  <2> QED  BY <2>3, <2>4
<1>28. views' \in 0 .. MaxViews
  BY <1>6, SlotsAssumption
<1>29. TypeOK'
  <2>1. queue_tasks_deferred' \in Seq({RunTask(t) : t \in Requests})
    BY <1>15 DEF RunTasks
  <2>2. /\ request' \in [Requests -> {"new", "waiting", "served", "failed", "left"}]
        /\ \A t \in Requests : fate'[t] \in Fates[t]
    BY <1>1, <1>2 DEF TypeOK
  <2>3. loop' \in {"wait", "drain", "process", "update", "decode"}
        /\ hand' \in {<<>>} \cup {<<task>> : task \in QueuedTasks}
    BY <1>2, <1>6
  <2> QED  BY <1>15, <1>21, <1>25, <1>26, <1>27, <1>28, <2>1, <2>2, <2>3 DEF TypeOK
<1>30. hand' = <<>> <=> loop' # "process"
  BY <1>2, <1>6
<1> QED  BY <1>15, <1>23, <1>24, <1>29, <1>30 DEF IInv

-----------------------------------------------------------------------------
(* A view of the batch is decoded *)

\* A slot that waits for its parent, or is woken with it, and the parent.
OfParent(s, p) == slot_task[s] \in ToSet(ChildrenOf[slot_task[p]])

LEMMA ParentsAreRequests ==
    ASSUME TypeOK, StateInv, NEW s \in Slots, NEW p \in Slots, state[p] # "IDLE", OfParent(s, p)
    PROVE  slot_task[p] \in Requests /\ slot_task[s] \notin Requests
<1>1. slot_task[p] \in Tasks
  BY DEF TypeOK, StateInv
<1> QED  BY <1>1, Families DEF FamilyFacts, OfParent

\* What is decoded: the slots that sampled a token, and those of them that end.
Decoded(k, view, sampled, ended) ==
    /\ view = {batch[i] : i \in 1 .. k}
    /\ sampled = Sampled(view) /\ ended \subseteq sampled
    /\ answer' = Answered(answer, TasksIn(ended), "final")
    /\ Release(InSlotOrder(ended),
               [s \in Slots |-> IF s \in sampled THEN "GENERATING"
                                ELSE IF s \in Activated THEN "DONE_PROMPT" ELSE state[s]],
               has_prompt \cup view \cup (sampled \cap Activated), queue_tasks)
    /\ batch' = SubSeq(batch, k + 1, Len(batch))

LEMMA DecodeMeans ==
    ASSUME TypeOK, NEW k \in 0 .. Len(batch), NEW ended, DecodeView(k, ended)
    PROVE  \E view, sampled : Decoded(k, view, sampled, ended)
<1>1. PICK view : view = ToSet(SubSeq(batch, 1, k))
  OBVIOUS
<1>2. PICK sampled : sampled = Sampled(view)
  OBVIOUS
<1>3. view = {batch[i] : i \in 1 .. k}
  <2>1. batch \in Seq(Slots) /\ Len(batch) \in Nat
    BY DEF TypeOK
  <2>2. PICK q : q = SubSeq(batch, 1, k)
    OBVIOUS
  <2>3. Len(q) = k /\ DOMAIN q = 1 .. k /\ \A i \in 1 .. k : q[i] = batch[i]
    BY <2>1, <2>2
  <2> QED  BY <1>1, <2>2, <2>3 DEF ToSet
<1>4. /\ ended \subseteq sampled
      /\ answer' = Answered(answer, TasksIn(ended), "final")
      /\ Release(InSlotOrder(ended),
                 [s \in Slots |-> IF s \in sampled THEN "GENERATING"
                                  ELSE IF s \in Activated THEN "DONE_PROMPT" ELSE state[s]],
                 has_prompt \cup view \cup (sampled \cap Activated), queue_tasks)
      /\ batch' = SubSeq(batch, k + 1, Len(batch))
  BY <1>1, <1>2, Zenon DEF DecodeView
<1>5. Decoded(k, view, sampled, ended)
  BY <1>2, <1>3, <1>4, Zenon DEF Decoded
<1> QED  BY <1>5

\* The slots after a view; the rest of the batch is as good as the whole was.
AfterView ==
    /\ TaskInv' /\ BatchGood'
    /\ queue_tasks' \in Seq(QueuedTasks) /\ queue_tasks_deferred' \in Seq(RunTasks)
    /\ state' \in [Slots -> States] /\ slot_task' \in [Slots -> Tasks \cup {NoTask}]
    /\ has_prompt' \subseteq Slots /\ batch' \in Seq(Slots)
    /\ answer' \in [Tasks -> {"none", "final", "error"}]
    /\ \A s \in Slots :
          /\ state'[s] = "IDLE" <=> slot_task'[s] = NoTask
          /\ state'[s] \in {"STARTED", "PROCESSING_PROMPT"} => slot_task'[s] \in Requests
          /\ state'[s] = "WAIT_OTHER" => slot_task'[s] \notin Requests

LEMMA DecodedKeeps ==
    ASSUME IInv, loop = "decode", NEW k \in 0 .. Len(batch), NEW view, NEW sampled, NEW ended,
           Decoded(k, view, sampled, ended), hand' = hand, request' = request
    PROVE  AfterView
<1>1. TypeOK /\ StateInv /\ BatchGood
  BY DEF IInv, BatchInv
<1>2. PICK n : n = Len(batch)
  OBVIOUS
<1>3. /\ n \in Nat /\ k \in 0 .. n /\ batch \in Seq(Slots) /\ DOMAIN batch = 1 .. n
      /\ \A i \in 1 .. n : batch[i] \in Slots
      /\ \A i, j \in 1 .. n : batch[i] = batch[j] => i = j
      /\ \A i \in 1 .. n :
            \/ state[batch[i]] = "GENERATING"
            \/ state[batch[i]] = "DONE_PROMPT" /\ slot_task[batch[i]] \in Requests
      /\ \A s \in Slots : state[s] = "DONE_PROMPT" =>
            \E i \in 1 .. n : state[batch[i]] = "DONE_PROMPT" /\ (s = batch[i] \/ OfParent(s, batch[i]))
  <2>1. batch \in Seq(Slots)
    BY <1>1 DEF TypeOK
  <2>2. n \in Nat /\ k \in 0 .. n /\ DOMAIN batch = 1 .. n /\ \A i \in 1 .. n : batch[i] \in Slots
    BY <1>2, <2>1
  <2> QED  BY <1>1, <2>1, <2>2 DEF BatchGood, IsInjective, OfParent
<1>4. /\ view = {batch[i] : i \in 1 .. k}
      /\ sampled = Sampled(view) /\ ended \subseteq sampled
      /\ answer' = Answered(answer, TasksIn(ended), "final")
      /\ batch' = SubSeq(batch, k + 1, Len(batch))
  BY Zenon DEF Decoded
<1>5. \A s \in view : s \in Slots /\ state[s] # "IDLE" /\ state[s] \in {"GENERATING", "DONE_PROMPT"}
  BY <1>3, <1>4
<1>6. \A s \in Activated : s \in Slots /\ state[s] = "WAIT_OTHER"
                           /\ \E p \in Slots : state[p] = "DONE_PROMPT" /\ OfParent(s, p)
  BY DEF Activated, In_, OfParent
<1>7. \A s : s \in sampled <=>
         \/ s \in view
         \/ /\ s \in Activated \/ (s \in Slots /\ state[s] = "DONE_PROMPT")
            /\ \E p \in view : OfParent(s, p)
  BY <1>4 DEF Sampled, In_, OfParent
<1>8. \A s \in sampled : s \in Slots /\ state[s] \in {"GENERATING", "DONE_PROMPT", "WAIT_OTHER"}
  BY <1>5, <1>6, <1>7
<1>9. \A s, p \in Slots : state[p] # "IDLE" /\ OfParent(s, p) =>
         slot_task[p] \in Requests /\ slot_task[s] \notin Requests
  BY <1>1, ParentsAreRequests
<1>10. ended \in SUBSET Slots
  BY <1>4, <1>8
<1>11. PICK order, st, prompts :
          /\ order = InSlotOrder(ended)
          /\ st = [s \in Slots |-> IF s \in sampled THEN "GENERATING"
                                   ELSE IF s \in Activated THEN "DONE_PROMPT" ELSE state[s]]
          /\ prompts = has_prompt \cup view \cup (sampled \cap Activated)
  OBVIOUS
<1>12. Release(order, st, prompts, queue_tasks)
  BY <1>11 DEF Decoded
<1>13. order \in Seq(Slots) /\ ToSet(order) = ended
  BY <1>10, <1>11, InOrder
<1>14. \A s \in ToSet(order) : state[s] # "IDLE"
  BY <1>4, <1>8, <1>13
<1>15. \A t \in Tasks : answer'[t] = IF t \in TasksIn(ended) THEN "final" ELSE answer[t]
  <2>1. \A t \in Tasks : t \in TasksIn(ended) => answer[t] = "none"
    BY <1>10, NoTaskAside DEF IInv, TaskInv, HomeInv, TasksIn
  <2> QED  BY <1>4, <2>1 DEF Answered
<1>16. \A t \in Tasks : IF t \in TasksIn(ToSet(order)) THEN answer'[t] \in {"final", "error"}
                        ELSE answer'[t] = answer[t]
  BY <1>13, <1>15
<1>17. /\ TaskInv'
       /\ state' = [s \in Slots |-> IF s \in ToSet(order) THEN "IDLE" ELSE st[s]]
       /\ slot_task' = [s \in Slots |-> IF s \in ToSet(order) THEN NoTask ELSE slot_task[s]]
       /\ has_prompt' = prompts \ ToSet(order)
       /\ queue_tasks' \in Seq(QueuedTasks)
       /\ queue_tasks_deferred' \in Seq(RunTasks)
  BY <1>12, <1>13, <1>14, <1>16, ReleasedEnd
<1>18. \A s \in Slots :
          /\ state'[s] = IF s \in ended THEN "IDLE"
                         ELSE IF s \in sampled THEN "GENERATING"
                         ELSE IF s \in Activated THEN "DONE_PROMPT" ELSE state[s]
          /\ slot_task'[s] = IF s \in ended THEN NoTask ELSE slot_task[s]
  BY <1>11, <1>13, <1>17
<1>19. ASSUME NEW i \in k + 1 .. n
       PROVE  batch[i] \in Slots /\ batch[i] \notin sampled /\ batch[i] \notin Activated
  <2>1. i \in 1 .. n /\ \A j \in 1 .. k : j \in 1 .. n /\ i # j
    BY <1>3
  <2>2. batch[i] \notin view
    BY <1>3, <1>4, <2>1
  <2>3. batch[i] \notin Activated
    BY <1>3, <1>6, <2>1
  <2>4. \A p \in view : ~(state[batch[i]] = "DONE_PROMPT" /\ OfParent(batch[i], p))
    BY <1>3, <1>5, <1>9, <2>1
  <2> QED  BY <1>3, <1>7, <2>1, <2>2, <2>3, <2>4
<1>20. ASSUME NEW i \in k + 1 .. n
       PROVE  state'[batch[i]] = state[batch[i]] /\ slot_task'[batch[i]] = slot_task[batch[i]]
  BY <1>4, <1>18, <1>19
<1>21. /\ batch' \in Seq(Slots) /\ Len(batch') = n - k /\ DOMAIN batch' = 1 .. n - k
       /\ \A i \in 1 .. n - k : i + k \in k + 1 .. n /\ i + k \in 1 .. n /\ batch'[i] = batch[i + k]
       /\ \A i \in k + 1 .. n : i - k \in 1 .. n - k /\ batch'[i - k] = batch[i]
  <2>1. PICK q : q = SubSeq(batch, k + 1, n)
    OBVIOUS
  <2>2. q \in Seq(Slots) /\ Len(q) = n - k /\ \A i \in 1 .. n - k : q[i] = batch[i + k]
    BY <1>2, <1>3, <2>1
  <2>3. DOMAIN q = 1 .. n - k
    BY <2>2
  <2>4. \A i \in 1 .. n - k : i + k \in k + 1 .. n /\ i + k \in 1 .. n
    BY <1>3
  <2>5. \A i \in k + 1 .. n : i - k \in 1 .. n - k /\ (i - k) + k = i
    BY <1>3
  <2> QED  BY <1>2, <1>4, <2>1, <2>2, <2>3, <2>4, <2>5
<1>22. ASSUME NEW s \in Slots, state'[s] = "DONE_PROMPT"
       PROVE  \E i \in DOMAIN batch' :
                 /\ state'[batch'[i]] = "DONE_PROMPT"
                 /\ s = batch'[i] \/ slot_task'[s] \in ToSet(ChildrenOf[slot_task'[batch'[i]]])
  <2>1. /\ s \notin sampled /\ slot_task'[s] = slot_task[s]
        /\ s \in Activated \/ state[s] = "DONE_PROMPT"
    BY <1>4, <1>18, <1>22
  <2>2. \E i \in 1 .. n : state[batch[i]] = "DONE_PROMPT" /\ (s = batch[i] \/ OfParent(s, batch[i]))
    <3>1. CASE s \in Activated
      <4>1. PICK p \in Slots : state[p] = "DONE_PROMPT" /\ OfParent(s, p)
        BY <1>6, <3>1
      <4>2. PICK i \in 1 .. n : state[batch[i]] = "DONE_PROMPT" /\ (p = batch[i] \/ OfParent(p, batch[i]))
        BY <1>3, <4>1
      <4>3. ~OfParent(p, batch[i])
        BY <1>3, <1>9, <4>1, <4>2
      <4> QED  BY <4>1, <4>2, <4>3
    <3>2. CASE state[s] = "DONE_PROMPT"
      BY <1>3, <3>2
    <3> QED  BY <2>1, <3>1, <3>2
  <2>3. PICK i \in 1 .. n : state[batch[i]] = "DONE_PROMPT" /\ (s = batch[i] \/ OfParent(s, batch[i]))
    BY <2>2
  <2>4. i \in k + 1 .. n
    <3>1. CASE i \in 1 .. k
      <4>1. batch[i] \in view
        BY <1>4, <3>1
      <4> QED  BY <1>7, <2>1, <2>3, <4>1
    <3> QED  BY <1>3, <3>1
  <2>5. i - k \in DOMAIN batch' /\ batch'[i - k] = batch[i]
    BY <1>21, <2>4
  <2>6. state'[batch[i]] = "DONE_PROMPT" /\ slot_task'[batch[i]] = slot_task[batch[i]]
    BY <1>20, <2>3, <2>4
  <2>7. s = batch[i] \/ slot_task'[s] \in ToSet(ChildrenOf[slot_task'[batch[i]]])
    BY <2>1, <2>3, <2>6 DEF OfParent
  <2> QED  BY <2>5, <2>6, <2>7
<1>23. BatchGood'
  <2>1. ASSUME NEW i \in DOMAIN batch', NEW j \in DOMAIN batch', batch'[i] = batch'[j]
        PROVE  i = j
    <3>1. i + k = j + k
      BY <1>3, <1>21, <2>1
    <3> QED  BY <1>3, <1>21, <3>1
  <2>2. ASSUME NEW i \in DOMAIN batch'
        PROVE  \/ state'[batch'[i]] = "GENERATING"
               \/ state'[batch'[i]] = "DONE_PROMPT" /\ slot_task'[batch'[i]] \in Requests
    <3>1. PICK j : j = i + k
      OBVIOUS
    <3>2. j \in k + 1 .. n /\ j \in 1 .. n /\ batch'[i] = batch[j]
      BY <1>21, <3>1, <2>2
    <3>3. state'[batch[j]] = state[batch[j]] /\ slot_task'[batch[j]] = slot_task[batch[j]]
      BY <1>20, <3>2
    <3> QED  BY <1>3, <3>2, <3>3
  <2>3. IsInjective(batch')
    BY <2>1 DEF IsInjective
  <2> QED  BY <1>22, <2>2, <2>3 DEF BatchGood
<1>24. \A s \in Slots :
          /\ state'[s] = "IDLE" <=> slot_task'[s] = NoTask
          /\ state'[s] \in {"STARTED", "PROCESSING_PROMPT"} => slot_task'[s] \in Requests
          /\ state'[s] = "WAIT_OTHER" => slot_task'[s] \notin Requests
  BY <1>1, <1>6, <1>8, <1>18 DEF StateInv
<1>25. state' \in [Slots -> States] /\ slot_task' \in [Slots -> Tasks \cup {NoTask}]
  <2>1. \A s \in Slots : state[s] \in States /\ slot_task[s] \in Tasks \cup {NoTask}
    BY <1>1 DEF TypeOK
  <2>2. {"IDLE", "DONE_PROMPT", "GENERATING"} \subseteq States
    BY DEF States
  <2>3. \A s \in Slots : state'[s] \in States /\ slot_task'[s] \in Tasks \cup {NoTask}
    BY <1>18, <2>1, <2>2
  <2> QED  BY <1>17, <2>3
<1>26. has_prompt' \subseteq Slots
  <2>1. has_prompt \subseteq Slots
    BY <1>1 DEF TypeOK
  <2> QED  BY <1>5, <1>6, <1>11, <1>17, <2>1
<1>27. answer' \in [Tasks -> {"none", "final", "error"}]
  <2>1. answer' = [t \in Tasks |-> answer'[t]]
    BY <1>4 DEF Answered
  <2>2. \A t \in Tasks : answer'[t] \in {"none", "final", "error"}
    BY <1>1, <1>15 DEF TypeOK
  <2> QED  BY <2>1, <2>2
<1> QED  BY <1>17, <1>21, <1>23, <1>24, <1>25, <1>26, <1>27 DEF AfterView

LEMMA DecodeKeeps ==
    ASSUME IInv, Decode \/ DecodePart, fate' = fate
    PROVE  IInv'
<1>1. /\ loop = "decode" /\ hand' = hand /\ request' = request
      /\ n_empty_consecutive' = n_empty_consecutive /\ aborted' = aborted
  BY DEF Decode, DecodePart
<1>2. TypeOK /\ hand = <<>>
  BY <1>1 DEF IInv
<1>3. PICK n : n = Len(batch)
  OBVIOUS
<1>4. n \in Nat /\ batch \in Seq(Slots)
  BY <1>2, <1>3 DEF TypeOK
<1>5. ASSUME NEW k \in 0 .. n, NEW ended, DecodeView(k, ended)
      PROVE  AfterView /\ batch' = SubSeq(batch, k + 1, n)
  <2>1. k \in 0 .. Len(batch)
    BY <1>3
  <2>2. PICK view, sampled : Decoded(k, view, sampled, ended)
    BY <1>2, <1>5, <2>1, DecodeMeans
  <2> QED  BY <1>1, <1>3, <2>1, <2>2, DecodedKeeps DEF Decoded
<1>6. /\ AfterView
      /\ views' \in 0 .. MaxViews
      /\ loop' \in {"decode", "drain"}
      /\ loop' = "drain" => \A s \in Slots : state'[s] # "DONE_PROMPT"
  <2>1. CASE Decode
    <3>1. PICK ended : DecodeView(n, ended)
      BY <1>3, <2>1 DEF Decode
    <3>2. n \in 0 .. n
      BY <1>4
    <3>3. AfterView /\ batch' = SubSeq(batch, n + 1, n)
      BY <1>5, <3>1, <3>2
    <3>4. batch' = <<>>
      BY <1>4, <3>3
    <3>5. \A s \in Slots : state'[s] # "DONE_PROMPT"
      <4>1. BatchGood'
        BY <3>3 DEF AfterView
      <4>2. DOMAIN batch' = {}
        BY <3>4
      <4> QED  BY <4>1, <4>2 DEF BatchGood
    <3>6. loop' = "drain" /\ views' = views
      BY <2>1 DEF Decode
    <3> QED  BY <1>2, <3>3, <3>5, <3>6 DEF TypeOK
  <2>2. CASE DecodePart
    <3>1. PICK k \in 0 .. n, ended \in SUBSET Slots : DecodeView(k, ended)
      BY <1>3, <2>2 DEF DecodePart
    <3>2. AfterView
      BY <1>5, <3>1
    <3>3. views < MaxViews /\ views' = views + 1 /\ loop' = loop
      BY <2>2 DEF DecodePart
    <3>4. views' \in 0 .. MaxViews
      <4>1. views \in 0 .. MaxViews /\ MaxViews \in Nat
        BY <1>2, SlotsAssumption DEF TypeOK
      <4> QED  BY <3>3, <4>1
    <3> QED  BY <1>1, <3>2, <3>3, <3>4
  <2> QED  BY <2>1, <2>2
<1>7. TypeOK'
  <2>1. queue_tasks_deferred' \in Seq({RunTask(t) : t \in Requests})
    BY <1>6 DEF AfterView, RunTasks
  <2>2. /\ request' \in [Requests -> {"new", "waiting", "served", "failed", "left"}]
        /\ \A t \in Requests : fate'[t] \in Fates[t]
        /\ aborted' \in BOOLEAN
        /\ n_empty_consecutive' \in 0 .. (IF aborted' THEN 4 ELSE 3)
    BY <1>1, <1>2 DEF TypeOK
  <2>3. hand' \in {<<>>} \cup {<<task>> : task \in QueuedTasks}
    BY <1>1, <1>2
  <2> QED  BY <1>6, <2>1, <2>2, <2>3 DEF AfterView, TypeOK
<1>8. StateInv' /\ BatchInv' /\ TaskInv'
  BY <1>6 DEF AfterView, StateInv, BatchInv
<1>9. hand' = <<>> <=> loop' # "process"
  BY <1>1, <1>2, <1>6
<1> QED  BY <1>7, <1>8, <1>9 DEF IInv

\* llama_decode fails.
LEMMA DecodeFailsKeeps ==
    ASSUME IInv, DecodeFails, fate' = fate
    PROVE  IInv'
<1>1. /\ loop = "decode" /\ loop' = "drain" /\ hand' = hand /\ request' = request
      /\ n_empty_consecutive' = n_empty_consecutive /\ aborted' = aborted /\ views' = views
      /\ batch' = <<>>
      /\ answer' = Answered(answer, TasksIn(Slots \ Free), "error")
  BY DEF DecodeFails
<1>2. TypeOK /\ StateInv /\ hand = <<>>
  BY <1>1 DEF IInv
<1>3. PICK busy, order : busy = Slots \ Free /\ order = InSlotOrder(busy)
  OBVIOUS
<1>4. busy \in SUBSET Slots /\ \A s \in Slots : s \in busy <=> state[s] # "IDLE"
  BY <1>3 DEF Free, IsProcessing
<1>5. order \in Seq(Slots) /\ ToSet(order) = busy
  BY <1>3, <1>4, InOrder
<1>6. Release(order, state, has_prompt, queue_tasks)
  BY <1>3 DEF DecodeFails
<1>7. \A t \in Tasks : answer'[t] = IF t \in TasksIn(busy) THEN "error" ELSE answer[t]
  <2>1. \A t \in Tasks : t \in TasksIn(busy) => answer[t] = "none"
    BY <1>4, NoTaskAside DEF IInv, TaskInv, HomeInv, TasksIn
  <2> QED  BY <1>1, <1>3, <2>1 DEF Answered
<1>8. \A t \in Tasks : IF t \in TasksIn(ToSet(order)) THEN answer'[t] \in {"final", "error"}
                       ELSE answer'[t] = answer[t]
  BY <1>5, <1>7
<1>9. \A s \in ToSet(order) : state[s] # "IDLE"
  BY <1>4, <1>5
<1>10. /\ TaskInv'
       /\ state' = [s \in Slots |-> IF s \in ToSet(order) THEN "IDLE" ELSE state[s]]
       /\ slot_task' = [s \in Slots |-> IF s \in ToSet(order) THEN NoTask ELSE slot_task[s]]
       /\ has_prompt' = has_prompt \ ToSet(order)
       /\ queue_tasks' \in Seq(QueuedTasks)
       /\ queue_tasks_deferred' \in Seq(RunTasks)
  BY <1>1, <1>5, <1>6, <1>8, <1>9, ReleasedEnd
<1>11. \A s \in Slots : state'[s] = "IDLE" /\ slot_task'[s] = NoTask
  BY <1>2, <1>4, <1>5, <1>10 DEF StateInv
<1>12. StateInv' /\ BatchInv'
  BY <1>1, <1>11 DEF StateInv, BatchInv
<1>13. TypeOK'
  <2>1. queue_tasks_deferred' \in Seq({RunTask(t) : t \in Requests})
    BY <1>10 DEF RunTasks
  <2>2. /\ request' \in [Requests -> {"new", "waiting", "served", "failed", "left"}]
        /\ \A t \in Requests : fate'[t] \in Fates[t]
        /\ aborted' \in BOOLEAN /\ views' \in 0 .. MaxViews
        /\ n_empty_consecutive' \in 0 .. (IF aborted' THEN 4 ELSE 3)
        /\ has_prompt' \subseteq Slots
    BY <1>1, <1>2, <1>10 DEF TypeOK
  <2>3. hand' \in {<<>>} \cup {<<task>> : task \in QueuedTasks} /\ batch' \in Seq(Slots)
    BY <1>1, <1>2
  <2>4. state' \in [Slots -> States] /\ slot_task' \in [Slots -> Tasks \cup {NoTask}]
    <3>1. "IDLE" \in States
      BY DEF States
    <3> QED  BY <1>10, <1>11, <3>1
  <2>5. answer' \in [Tasks -> {"none", "final", "error"}]
    <3>1. answer' = [t \in Tasks |-> answer'[t]]
      BY <1>1 DEF Answered
    <3>2. \A t \in Tasks : answer'[t] \in {"none", "final", "error"}
      BY <1>2, <1>7 DEF TypeOK
    <3> QED  BY <3>1, <3>2
  <2> QED  BY <1>1, <1>10, <2>1, <2>2, <2>3, <2>4, <2>5 DEF TypeOK
<1> QED  BY <1>1, <1>2, <1>10, <1>12, <1>13 DEF IInv

-----------------------------------------------------------------------------
(* The invariant, and what follows from it *)

LEMMA NextKeeps ==
    ASSUME IInv, [Next]_vars
    PROVE  IInv'
<1>1. CASE UNCHANGED vars
  <2>1. /\ queue_tasks' = queue_tasks /\ queue_tasks_deferred' = queue_tasks_deferred
        /\ loop' = loop /\ hand' = hand /\ state' = state /\ slot_task' = slot_task
        /\ has_prompt' = has_prompt /\ batch' = batch /\ views' = views
        /\ n_empty_consecutive' = n_empty_consecutive /\ aborted' = aborted
        /\ answer' = answer /\ request' = request /\ fate' = fate
    BY <1>1 DEF vars, queueVars, slotVars, batchVars
  <2>2. TypeOK /\ TaskInv
    BY DEF IInv
  <2>3. TypeOK' /\ StateInv' /\ BatchInv' /\ (hand' = <<>> <=> loop' # "process")
    BY <2>1 DEF IInv, TypeOK, StateInv, BatchInv, BatchGood
  <2>4. KeepsQueues
    BY <2>1 DEF KeepsQueues, SingleIn, Carried, Pending, Queues
  <2>5. TaskInv'
    BY <2>1, <2>2, <2>4, StillKeeps
  <2> QED  BY <2>3, <2>5 DEF IInv
<1>2. CASE Live(MainLoop)
  <2>1. MainLoop /\ ~aborted /\ fate' = fate
    BY <1>2 DEF Live
  <2>2. CASE PopTask
    BY <2>1, <2>2, PopTaskKeeps
  <2>3. CASE ProcessTask
    BY <2>1, <2>3, ProcessTaskKeeps
  <2>4. CASE Wait \/ AllIdle
    BY <2>1, <2>4, WaitKeeps
  <2>5. CASE UpdateSlots
    BY <2>1, <2>5, UpdateSlotsKeeps
  <2>6. CASE Decode \/ DecodePart
    BY <2>1, <2>6, DecodeKeeps
  <2>7. CASE DecodeFails
    BY <2>1, <2>7, DecodeFailsKeeps
  <2> QED  BY <2>1, <2>2, <2>3, <2>4, <2>5, <2>6, <2>7 DEF MainLoop
<1>3. ASSUME NEW t \in Requests, Live(Post(t) \/ RequestStep(t) \/ Leave(t))
      PROVE  IInv'
  <2>1. (Post(t) \/ RequestStep(t) \/ Leave(t)) /\ fate' = fate
    BY <1>3 DEF Live
  <2>2. CASE Post(t)
    BY <2>1, <2>2, PostKeeps
  <2>3. CASE Complete(t)
    BY <2>1, <2>3, CompleteKeeps
  <2>4. CASE Fail(t) \/ Leave(t)
    BY <2>1, <2>4, GiveUpKeeps
  <2> QED  BY <2>1, <2>2, <2>3, <2>4 DEF RequestStep
<1> QED  BY <1>1, <1>2, <1>3 DEF Next

LEMMA Invariance == Spec => []IInv
<1>1. IInv /\ [Next]_vars => IInv'
  BY NextKeeps
<1> QED  BY <1>1, StartsRight, PTL DEF Spec

(***************************************************************************)
(* The types of the variables: no task is answered twice, and the kill     *)
(* switch of update_slots ends the server before n_empty_consecutive       *)
(* passes its limit.                                                       *)
(***************************************************************************)
THEOREM TypeCorrect == Spec => []TypeOK
<1>1. IInv => TypeOK
  BY DEF IInv
<1> QED  BY <1>1, Invariance, PTL

\* A set whose elements are all the same.
LEMMA OneAtMost ==
    ASSUME NEW S, \A x, y \in S : x = y
    PROVE  Cardinality(S) \in {0, 1} /\ (Cardinality(S) = 0 <=> S = {})
<1>1. CASE S = {}
  BY <1>1, FS_EmptySet
<1>2. CASE S # {}
  <2>1. PICK x \in S : TRUE
    BY <1>2
  <2>2. S = {x}
    BY <2>1
  <2>3. Cardinality({x}) = 1
    BY FS_Singleton
  <2> QED  BY <1>2, <2>2, <2>3
<1> QED  BY <1>1, <1>2

\* The parts of Occurrences(t).
Counted(t, a, b, c, d) ==
    /\ Occurrences(t) = a + b + c + d
    /\ a \in {0, 1} /\ (a = 0 <=> ~In(queue_tasks, RunTask(t)))
    /\ b \in {0, 1} /\ (b = 0 <=> ~In(queue_tasks_deferred, RunTask(t)))
    /\ c \in {0, 1} /\ (c = 0 <=> hand # <<RunTask(t)>>)
    /\ d = Cardinality(SlotsOf({t})) /\ d \in {0, 1} /\ (d = 0 <=> SlotsOf({t}) = {})

LEMMA HandFrom ==
    ASSUME NEW x, hand \in {<<>>} \cup {<<task>> : task \in QueuedTasks}, hand = <<x>>
    PROVE  x \in QueuedTasks
<1>1. hand # <<>>
  OBVIOUS
<1>2. PICK task \in QueuedTasks : hand = <<task>>
  BY <1>1
<1>3. hand[1] = task /\ hand[1] = x
  BY <1>2
<1> QED  BY <1>3

LEMMA Counts ==
    ASSUME IInv, NEW t \in Tasks
    PROVE  \E a, b, c, d : Counted(t, a, b, c, d)
<1>1. TypeOK /\ QueueInv /\ HomeInv
  BY DEF IInv, TaskInv
<1>2. queue_tasks \in Seq(QueuedTasks) /\ queue_tasks_deferred \in Seq(QueuedTasks)
  BY <1>1, TypesOfQueues, DeferredAreQueued
<1>3. t \in Requests => OccursOnce(queue_tasks, t) /\ OccursOnce(queue_tasks_deferred, t)
  BY <1>1 DEF QueueInv, SingleIn, Once, Queues
<1>4. ASSUME NEW q \in Seq(QueuedTasks), t \in Requests => OccursOnce(q, t)
      PROVE  /\ Cardinality({i \in DOMAIN q : q[i] = RunTask(t)}) \in {0, 1}
             /\ Cardinality({i \in DOMAIN q : q[i] = RunTask(t)}) = 0 <=> ~In(q, RunTask(t))
  <2>1. PICK at : at = {i \in DOMAIN q : q[i] = RunTask(t)}
    OBVIOUS
  <2>2. \A i, j \in at : i = j
    <3> SUFFICES ASSUME NEW i \in at, NEW j \in at
                 PROVE  i = j
      OBVIOUS
    <3>1. /\ i \in DOMAIN q /\ q[i] = RunTask(t) /\ q[i].id = t
          /\ j \in DOMAIN q /\ q[j] = RunTask(t) /\ q[j].id = t
      BY <2>1, TaskFacts
    <3>2. q[i] \in QueuedTasks
      BY <1>4, <3>1
    <3>3. t \in Requests
      BY <3>1, <3>2, TaskFacts DEF QueuedTasks
    <3> QED  BY <1>4, <3>1, <3>3 DEF OccursOnce
  <2>3. Cardinality(at) \in {0, 1} /\ (Cardinality(at) = 0 <=> at = {})
    BY <2>2, OneAtMost
  <2>4. at = {} <=> ~In(q, RunTask(t))
    BY <2>1 DEF In
  <2> QED  BY <2>1, <2>3, <2>4
<1>5. PICK a : a = Cardinality({i \in DOMAIN queue_tasks : queue_tasks[i] = RunTask(t)})
  OBVIOUS
<1>6. PICK b : b = Cardinality({i \in DOMAIN queue_tasks_deferred : queue_tasks_deferred[i] = RunTask(t)})
  OBVIOUS
<1>7. PICK c : c = IF hand = <<RunTask(t)>> THEN 1 ELSE 0
  OBVIOUS
<1>8. PICK d : d = Cardinality(SlotsOf({t}))
  OBVIOUS
<1>9. a \in {0, 1} /\ (a = 0 <=> ~In(queue_tasks, RunTask(t)))
  BY <1>2, <1>3, <1>4, <1>5
<1>10. b \in {0, 1} /\ (b = 0 <=> ~In(queue_tasks_deferred, RunTask(t)))
  BY <1>2, <1>3, <1>4, <1>6
<1>11. c \in {0, 1} /\ (c = 0 <=> hand # <<RunTask(t)>>)
  BY <1>7
<1>12. d \in {0, 1} /\ (d = 0 <=> SlotsOf({t}) = {})
  <2>1. \A s, r \in SlotsOf({t}) : s = r
    BY <1>1, NoTaskAside DEF HomeInv, SlotsOf
  <2> QED  BY <1>8, <2>1, OneAtMost
<1>13. Occurrences(t) = a + b + c + d
  BY <1>5, <1>6, <1>7, <1>8, Zenon DEF Occurrences
<1>14. Counted(t, a, b, c, d)
  BY <1>8, <1>9, <1>10, <1>11, <1>12, <1>13, Zenon DEF Counted
<1> QED  BY <1>14

\* A task in a queue or in the hand is in no slot, nor is its family.
LEMMA OnePlaceHolds == IInv => OnePlace
<1> SUFFICES ASSUME IInv, NEW t \in Requests
             PROVE  /\ Occurrences(t) <= 1
                    /\ \A x \in ToSet(ChildrenOf[t]) :
                          /\ Occurrences(x) <= 1
                          /\ SlotsOf({x}) # {} => Occurrences(t) = Cardinality(SlotsOf({t}))
  BY DEF OnePlace
<1>1. TypeOK /\ QueueInv
  BY DEF IInv, TaskInv
<1>2. t \in Tasks /\ Family(t) \subseteq Tasks
  BY NoTaskAside, Families DEF FamilyFacts
<1>3. PICK a, b, c, d : Counted(t, a, b, c, d)
  BY <1>2, Counts
<1>4. HandMeans(t)
  BY <1>1, SingleMeans, TypesOfQueues DEF QueueInv
<1>5. Carried(t) <=> a # 0 \/ b # 0 \/ c # 0
  BY <1>3 DEF Counted, Carried
<1>6. Carried(t) => a + b + c = 1
  BY <1>3, <1>4, <1>5 DEF Counted, HandMeans
<1>7. Carried(t) => \A u \in Family(t) : SlotsOf({u}) = {}
  BY <1>1 DEF QueueInv, Untouched, SlotsOf
<1>8. t \in Family(t)
  BY DEF Family
<1>9. Occurrences(t) <= 1
  BY <1>3, <1>5, <1>6, <1>7, <1>8 DEF Counted
<1>10. ASSUME NEW x \in ToSet(ChildrenOf[t])
       PROVE  /\ Occurrences(x) <= 1
              /\ SlotsOf({x}) # {} => Occurrences(t) = Cardinality(SlotsOf({t}))
  <2>1. x \in Family(t) /\ x \in Tasks /\ x \notin Requests
    BY <1>2, Families DEF Family, FamilyFacts
  <2>2. PICK e, f, g, h : Counted(x, e, f, g, h)
    BY <2>1, Counts
  <2>3. e = 0 /\ f = 0 /\ g = 0
    <3>1. RunTask(x) \notin QueuedTasks
      BY <2>1, TaskFacts DEF QueuedTasks
    <3>2. queue_tasks \in Seq(QueuedTasks) /\ queue_tasks_deferred \in Seq(QueuedTasks)
          /\ hand \in {<<>>} \cup {<<task>> : task \in QueuedTasks}
      BY <1>1, TypesOfQueues, DeferredAreQueued DEF TypeOK
    <3>3. hand # <<RunTask(x)>>
      BY <3>1, <3>2, HandFrom
    <3>4. ~In(queue_tasks, RunTask(x)) /\ ~In(queue_tasks_deferred, RunTask(x))
      BY <3>1, <3>2 DEF In
    <3> QED  BY <2>2, <3>3, <3>4 DEF Counted
  <2>4. Occurrences(x) <= 1
    BY <2>2, <2>3 DEF Counted
  <2>5. SlotsOf({x}) # {} => Occurrences(t) = Cardinality(SlotsOf({t}))
    BY <1>3, <1>5, <1>7, <2>1 DEF Counted
  <2> QED  BY <2>4, <2>5
<1> QED  BY <1>9, <1>10

(***************************************************************************)
(* A task is in one place at most on its way through the two deques, the   *)
(* hands of the main loop and the slots (server_queue::post, defer,        *)
(* pop_deferred_task, launch_slot_with_task), and no child runs while its  *)
(* parent task is queued.                                                  *)
(***************************************************************************)
THEOREM AlwaysOnePlace == Spec => []OnePlace
BY OnePlaceHolds, Invariance, PTL

LEMMA AnsweredIsGone == IInv => GoneWhenAnswered
<1> SUFFICES ASSUME IInv, NEW t \in Tasks, answer[t] # "none"
             PROVE  Occurrences(t) = 0
  BY DEF GoneWhenAnswered
<1>1. TypeOK /\ QueueInv /\ HomeInv
  BY DEF IInv, TaskInv
<1>2. PICK a, b, c, d : Counted(t, a, b, c, d)
  BY Counts
<1>3. SlotsOf({t}) = {}
  BY <1>1, NoTaskAside DEF HomeInv, SlotsOf
<1>4. ~Carried(t)
  <2>1. CASE t \in Requests
    <3>1. t \in Family(t)
      BY DEF Family
    <3> QED  BY <1>1, <2>1, <3>1 DEF QueueInv, Untouched
  <2>2. CASE t \notin Requests
    <3>1. RunTask(t) \notin QueuedTasks
      BY <2>2, TaskFacts DEF QueuedTasks
    <3>2. queue_tasks \in Seq(QueuedTasks) /\ queue_tasks_deferred \in Seq(QueuedTasks)
          /\ hand \in {<<>>} \cup {<<task>> : task \in QueuedTasks}
      BY <1>1, TypesOfQueues, DeferredAreQueued DEF TypeOK
    <3>3. hand # <<RunTask(t)>>
      BY <3>1, <3>2, HandFrom
    <3> QED  BY <3>1, <3>2, <3>3 DEF Carried, In
  <2> QED  BY <2>1, <2>2
<1> QED  BY <1>2, <1>3, <1>4 DEF Counted, Carried

(***************************************************************************)
(* Whatever ends a task (a final result, an error of its prompt, of its    *)
(* launch or of a batch, a failed decode) leaves it in no slot and in no   *)
(* queue: nothing answers it again.                                        *)
(***************************************************************************)
THEOREM AlwaysGoneWhenAnswered == Spec => []GoneWhenAnswered
BY AnsweredIsGone, Invariance, PTL

LEMMA RememberedMeans == IInv => NobodyForgotten
<1> SUFFICES ASSUME IInv, NEW t \in Requests, request[t] = "waiting"
             PROVE  \/ \E u \in Family(t) : answer[u] = "error"
                    \/ \A u \in Family(t) : answer[u] # "none" \/ SlotsOf({u}) # {} \/ Carried(t)
  BY DEF NobodyForgotten
<1>1. Remembered(t)
  BY DEF IInv, TaskInv
<1>2. \A u : (\E s \in Slots : slot_task[s] = u) => SlotsOf({u}) # {}
  BY DEF SlotsOf
<1> QED  BY <1>1, <1>2 DEF Remembered

(***************************************************************************)
(* No request waits for a task that is nowhere: each task of its family    *)
(* has its answer, has a slot, or is carried by the parent task, or there  *)
(* is an error for the request to read.                                    *)
(***************************************************************************)
THEOREM AlwaysRemembered == Spec => []NobodyForgotten
BY RememberedMeans, Invariance, PTL

-----------------------------------------------------------------------------
(* Children wait for a parent that wakes them, and prompts are whole *)

\* Parents whose requests are not left, and whose prompt has tokens.
ParentsStay == \A t \in Requests : IsParent(t) => t \notin Impatient /\ "empty" \notin Fates[t]

Erred(p) == \E u \in Family(p) : answer[u] = "error"
Wakes(p) == \E r \in Slots : /\ state[r] \in {"STARTED", "PROCESSING_PROMPT", "DONE_PROMPT"}
                             /\ slot_task[r] = p

\* A child waits in s, of the request p.
Waits(s, p) == state[s] = "WAIT_OTHER" /\ slot_task[s] \in ToSet(ChildrenOf[p])

WakeInv == \A s \in Slots, p \in Requests : Waits(s, p) => Erred(p) \/ Wakes(p)

\* While a batch is decoded as a whole, no child is woken before its parent is
\* decoded.
WholeInv ==
    /\ \A s \in Slots : state[s] = "GENERATING" => s \in has_prompt
    /\ \A s \in Slots : state[s] = "DONE_PROMPT" => slot_task[s] \in Requests

SameSlots == state' = state /\ slot_task' = slot_task /\ has_prompt' = has_prompt

\* What update_slots does to the slots.
LEMMA PreparedSlots ==
    ASSUME IInv, loop = "update", NEW outgrown, NEW batched, NEW unfit, NEW fed, NEW done,
           Prepared(outgrown, batched, unfit, fed, done)
    PROVE  /\ \A s \in Slots :
                 /\ state'[s] = IF s \in outgrown \cup unfit THEN "IDLE"
                                ELSE IF s \in done THEN "DONE_PROMPT"
                                ELSE IF s \in fed THEN "PROCESSING_PROMPT" ELSE state[s]
                 /\ slot_task'[s] = IF s \in outgrown \cup unfit THEN NoTask ELSE slot_task[s]
           /\ has_prompt' = has_prompt \ (outgrown \cup unfit)
           /\ \A s \in outgrown : state[s] = "GENERATING"
           /\ \A s \in unfit : s \in Slots /\ state[s] = "STARTED"
           /\ \A s \in fed \cup done : state[s] \in {"STARTED", "PROCESSING_PROMPT"}
           /\ done \subseteq fed /\ fed \cap unfit = {}
           /\ outgrown \in SUBSET Generating /\ unfit \in SUBSET Unfit
<1>1. /\ outgrown \subseteq Generating /\ unfit \subseteq Unfit /\ fed \subseteq Prompting \ unfit
      /\ done \subseteq fed
  BY DEF Prepared
<1>2. outgrown \in SUBSET Slots /\ unfit \in SUBSET Slots
  BY <1>1 DEF Generating, Unfit, In_
<1>3. PICK order : order = InSlotOrder(outgrown) \o InSlotOrder(unfit)
  OBVIOUS
<1>4. ToSet(order) = outgrown \cup unfit
  BY <1>2, <1>3, TwoInOrder
<1>5. /\ state' = [s \in Slots |->
                      IF s \in ToSet(order) THEN "IDLE"
                      ELSE [r \in Slots |-> IF r \in done THEN "DONE_PROMPT"
                               ELSE IF r \in fed THEN "PROCESSING_PROMPT" ELSE state[r]][s]]
      /\ slot_task' = [s \in Slots |-> IF s \in ToSet(order) THEN NoTask ELSE slot_task[s]]
      /\ has_prompt' = has_prompt \ ToSet(order)
  BY <1>3, Zenon DEF Prepared, Release
<1>6. \A s \in Slots :
         /\ state'[s] = IF s \in outgrown \cup unfit THEN "IDLE"
                        ELSE IF s \in done THEN "DONE_PROMPT"
                        ELSE IF s \in fed THEN "PROCESSING_PROMPT" ELSE state[s]
         /\ slot_task'[s] = IF s \in outgrown \cup unfit THEN NoTask ELSE slot_task[s]
  BY <1>4, <1>5
<1> QED  BY <1>1, <1>4, <1>5, <1>6 DEF Generating, Unfit, Prompting, In_

\* What a view does to the slots.
LEMMA DecodedSlots ==
    ASSUME IInv, loop = "decode", NEW k \in 0 .. Len(batch), NEW view, NEW sampled, NEW ended,
           Decoded(k, view, sampled, ended)
    PROVE  /\ \A s \in Slots :
                 /\ state'[s] = IF s \in ended THEN "IDLE"
                                ELSE IF s \in sampled THEN "GENERATING"
                                ELSE IF s \in Activated THEN "DONE_PROMPT" ELSE state[s]
                 /\ slot_task'[s] = IF s \in ended THEN NoTask ELSE slot_task[s]
           /\ has_prompt' = (has_prompt \cup view \cup (sampled \cap Activated)) \ ended
           /\ ended \subseteq sampled
           /\ \A s \in sampled : state[s] \in {"GENERATING", "DONE_PROMPT", "WAIT_OTHER"}
           /\ \A s \in sampled : s \in view \/ s \in Activated \/ state[s] = "DONE_PROMPT"
<1>1. batch \in Seq(Slots) /\ BatchGood
  BY DEF IInv, TypeOK, BatchInv
<1>2. view = {batch[i] : i \in 1 .. k} /\ sampled = Sampled(view) /\ ended \subseteq sampled
  BY Zenon DEF Decoded
<1>3. \A i \in 1 .. k : i \in DOMAIN batch
  BY <1>1
<1>4. \A s \in view : s \in Slots /\ state[s] \in {"GENERATING", "DONE_PROMPT"}
  BY <1>1, <1>2, <1>3 DEF BatchGood
<1>5. \A s \in sampled : \/ s \in view
                         \/ s \in Slots /\ s \in Activated
                         \/ s \in Slots /\ state[s] = "DONE_PROMPT"
  BY <1>2 DEF Sampled, Activated, In_
<1>6. \A s \in Activated : state[s] = "WAIT_OTHER"
  BY DEF Activated, In_
<1>7. ended \in SUBSET Slots
  BY <1>2, <1>4, <1>5
<1>8. PICK order : order = InSlotOrder(ended)
  OBVIOUS
<1>9. ToSet(order) = ended
  BY <1>7, <1>8, InOrder
<1>10. /\ state' = [s \in Slots |->
                       IF s \in ToSet(order) THEN "IDLE"
                       ELSE [r \in Slots |-> IF r \in sampled THEN "GENERATING"
                                ELSE IF r \in Activated THEN "DONE_PROMPT" ELSE state[r]][s]]
       /\ slot_task' = [s \in Slots |-> IF s \in ToSet(order) THEN NoTask ELSE slot_task[s]]
       /\ has_prompt' = (has_prompt \cup view \cup (sampled \cap Activated)) \ ToSet(order)
  BY <1>8, Zenon DEF Decoded, Release
<1>11. \A s \in Slots :
          /\ state'[s] = IF s \in ended THEN "IDLE"
                         ELSE IF s \in sampled THEN "GENERATING"
                         ELSE IF s \in Activated THEN "DONE_PROMPT" ELSE state[s]
          /\ slot_task'[s] = IF s \in ended THEN NoTask ELSE slot_task[s]
  BY <1>9, <1>10
<1> QED  BY <1>2, <1>4, <1>5, <1>6, <1>9, <1>10, <1>11

\* An error stays the answer of its task.
LEMMA ErrorsStay ==
    ASSUME IInv', NEW ts, NEW what, answer' = Answered(answer, ts, what), NEW p \in Requests, Erred(p)
    PROVE  Erred(p)'
<1>1. PICK u \in Family(p) : answer[u] = "error"
  BY DEF Erred
<1>2. u \in Tasks
  BY NoTaskAside, Families DEF FamilyFacts
<1>3. answer'[u] \in {"error", "twice"}
  BY <1>1, <1>2 DEF Answered
<1>4. answer'[u] \in {"none", "final", "error"}
  BY <1>2 DEF IInv, TypeOK
<1> QED  BY <1>3, <1>4 DEF Erred

LEMMA StillWakes ==
    ASSUME WakeInv, state' = state, slot_task' = slot_task,
           \A p \in Requests : Erred(p) => Erred(p)'
    PROVE  WakeInv'
BY DEF WakeInv, Waits, Wakes

\* A child has one parent.
LEMMA OneParent ==
    ASSUME NEW t \in Requests, NEW p \in Requests, NEW u \in Family(t), u \in ToSet(ChildrenOf[p])
    PROVE  p = t
<1>1. u \in Family(p)
  BY DEF Family
<1> QED  BY <1>1, Families DEF FamilyFacts

\* A task is processed.
LEMMA ProcessWakes ==
    ASSUME IInv, IInv', ParentsStay, WakeInv, ProcessTask
    PROVE  WakeInv'
<1>1. TypeOK /\ TaskInv /\ QueueInv /\ StateInv
  BY DEF IInv, TaskInv
<1>2. loop = "process"
  BY DEF ProcessTask
<1>3. PICK task \in QueuedTasks : hand = <<task>>
  <2>1. hand # <<>> /\ hand \in {<<>>} \cup {<<task>> : task \in QueuedTasks}
    BY <1>1, <1>2 DEF IInv, TypeOK
  <2> QED  BY <2>1
<1>4. \/ task.type = "run" /\ ProcessRun(task.id)
      \/ task.type = "cancel" /\ ProcessCancel(task.target)
      \/ task.type = "next_response" /\ UNCHANGED <<queueVars, slotVars, n_empty_consecutive, answer>>
  <2>1. hand[1] = task
    BY <1>3
  <2> QED  BY <2>1 DEF ProcessTask
<1>5. \/ \E t \in Requests : task = RunTask(t)
      \/ \E u \in Tasks : task = CancelTask(u)
      \/ task = NextResponse
  BY <1>3 DEF QueuedTasks
<1>6. ASSUME answer' = answer
      PROVE  \A p \in Requests : Erred(p) => Erred(p)'
  BY <1>6 DEF Erred
<1>7. ASSUME NEW t \in Requests, task = RunTask(t)
      PROVE  WakeInv'
  <2>1. ProcessRun(t)
    BY <1>4, <1>7, TaskFacts
  <2>2. CASE Defer(RunTask(t))
    <3>1. answer' = answer /\ state' = state /\ slot_task' = slot_task
      BY <2>2 DEF Defer, slotVars
    <3> QED  BY <1>6, <3>1, StillWakes
  <2>3. ASSUME NEW u, NEW what, Answer({u}, what)
        PROVE  WakeInv'
    <3>1. /\ state' = state /\ slot_task' = slot_task
          /\ answer' = Answered(answer, {u}, what)
      BY <2>3 DEF Answer, slotVars
    <3>2. \A p \in Requests : Erred(p) => Erred(p)'
      BY <3>1, ErrorsStay
    <3> QED  BY <3>1, <3>2, StillWakes
  <2>4. ASSUME NEW s, NEW others, Seats(t, s, others), Launch(t, s, others)
        PROVE  WakeInv'
    <3>1. Carried(t)
      BY <1>3, <1>7 DEF Carried
    <3>2. \A r \in Slots : slot_task[r] \notin Family(t)
      BY <1>1, <3>1 DEF QueueInv, Untouched
    <3>3. Seated(t) /\ answer' = answer
      BY <1>1, <2>4, <3>2, LaunchSeats DEF Launch
    <3>4. t \in Family(t) /\ ToSet(ChildrenOf[t]) \subseteq Family(t) /\ t \notin ToSet(ChildrenOf[t])
      BY NoTaskAside, Families DEF Family, FamilyFacts
    <3>5. \A r \in Slots :
            \/ slot_task'[r] = slot_task[r] /\ state'[r] = state[r]
            \/ /\ state[r] = "IDLE"
               /\ \/ slot_task'[r] = t /\ state'[r] = "STARTED"
                  \/ slot_task'[r] \in ToSet(ChildrenOf[t]) /\ state'[r] = "WAIT_OTHER"
      BY <3>3 DEF Seated
    <3>6. Wakes(t)'
      <4>1. PICK r \in Slots : slot_task'[r] = t
        BY <3>3, <3>4 DEF Seated
      <4>2. state'[r] = "STARTED"
        BY <3>2, <3>4, <3>5, <4>1
      <4> QED  BY <4>1, <4>2 DEF Wakes
    <3> SUFFICES ASSUME NEW r \in Slots, NEW p \in Requests, Waits(r, p)'
                 PROVE  Erred(p)' \/ Wakes(p)'
      BY DEF WakeInv
    <3>7. state'[r] = "WAIT_OTHER" /\ slot_task'[r] \in ToSet(ChildrenOf[p])
      BY DEF Waits
    <3>8. CASE slot_task'[r] \in ToSet(ChildrenOf[t])
      <4>1. p = t
        BY <3>4, <3>7, <3>8, OneParent
      <4> QED  BY <3>6, <4>1
    <3>9. CASE slot_task'[r] = slot_task[r] /\ state'[r] = state[r]
      <4>1. Waits(r, p)
        BY <3>7, <3>9 DEF Waits
      <4>2. Erred(p) \/ Wakes(p)
        BY <4>1 DEF WakeInv
      <4>3. Wakes(p) => Wakes(p)'
        BY <3>5 DEF Wakes
      <4> QED  BY <1>6, <3>3, <4>2, <4>3
    <3> QED  BY <3>5, <3>7, <3>8, <3>9
  <2>5. \/ Defer(RunTask(t))
        \/ \E u, what : Answer({u}, what)
        \/ \E s, others : Seats(t, s, others) /\ Launch(t, s, others)
    BY <1>1, <2>1, ProcessRunMeans
  <2> QED  BY <2>2, <2>3, <2>4, <2>5
<1>8. ASSUME NEW u \in Tasks, task = CancelTask(u)
      PROVE  WakeInv'
  <2>1. ProcessCancel(u)
    BY <1>4, <1>8, TaskFacts
  <2>2. SlotsOf({u}) \in SUBSET Slots
    BY DEF SlotsOf
  <2>3. ToSet(InSlotOrder(SlotsOf({u}))) = SlotsOf({u})
    BY <2>2, InOrder
  <2>4. /\ answer' = answer
        /\ \A s \in Slots :
              /\ slot_task'[s] = IF slot_task[s] = u THEN NoTask ELSE slot_task[s]
              /\ state'[s] = IF slot_task[s] = u THEN "IDLE" ELSE state[s]
    BY <2>1, <2>3 DEF ProcessCancel, Release, SlotsOf
  <2>5. Pending(u)
    BY <1>3, <1>8 DEF Pending
  <2> SUFFICES ASSUME NEW s \in Slots, NEW p \in Requests, Waits(s, p)'
               PROVE  Erred(p)' \/ Wakes(p)'
    BY DEF WakeInv
  <2>6. Waits(s, p) /\ IsParent(p)
    <3>1. ToSet(<<>>) = {}
      BY DEF ToSet
    <3> QED  BY <2>4, <3>1 DEF Waits, IsParent
  <2>7. CASE u = p
    <3>1. request[p] \in {"failed", "left"}
      <4>1. p \in Family(p)
        BY DEF Family
      <4> QED  BY <1>1, <2>5, <2>7, <4>1 DEF TaskInv, CancelInv
    <3>2. request[p] = "failed"
      BY <1>1, <2>6, <3>1 DEF TaskInv, EndInv, ParentsStay
    <3>3. Erred(p)
      BY <1>1, <3>2 DEF TaskInv, EndInv, Erred
    <3> QED  BY <1>6, <2>4, <3>3
  <2>8. CASE u # p
    <3>1. Erred(p) \/ Wakes(p)
      BY <2>6 DEF WakeInv
    <3>2. Wakes(p) => Wakes(p)'
      BY <2>4, <2>8 DEF Wakes
    <3> QED  BY <1>6, <2>4, <3>1, <3>2
  <2> QED  BY <2>7, <2>8
<1>9. ASSUME task = NextResponse
      PROVE  WakeInv'
  <2>1. answer' = answer /\ state' = state /\ slot_task' = slot_task
    BY <1>4, <1>9, TaskFacts DEF slotVars
  <2> QED  BY <1>6, <2>1, StillWakes
<1> QED  BY <1>5, <1>7, <1>8, <1>9

\* A batch is filled.
LEMMA UpdateWakes ==
    ASSUME IInv, IInv', ParentsStay, WakeInv, UpdateSlots
    PROVE  WakeInv'
<1>1. loop = "update" /\ TypeOK /\ StateInv /\ HomeInv
  BY DEF UpdateSlots, IInv, TaskInv
<1>2. PICK outgrown, batched, unfit, fed, done : Prepared(outgrown, batched, unfit, fed, done)
  BY UpdatePrepares
<1>3. /\ \A s \in Slots :
            /\ state'[s] = IF s \in outgrown \cup unfit THEN "IDLE"
                           ELSE IF s \in done THEN "DONE_PROMPT"
                           ELSE IF s \in fed THEN "PROCESSING_PROMPT" ELSE state[s]
            /\ slot_task'[s] = IF s \in outgrown \cup unfit THEN NoTask ELSE slot_task[s]
      /\ \A s \in outgrown : state[s] = "GENERATING"
      /\ \A s \in unfit : s \in Slots /\ state[s] = "STARTED"
      /\ \A s \in fed \cup done : state[s] \in {"STARTED", "PROCESSING_PROMPT"}
      /\ outgrown \in SUBSET Generating /\ unfit \in SUBSET Unfit
  BY <1>1, <1>2, PreparedSlots
<1>4. PICK errors, finals, ans :
         /\ errors = TasksIn(outgrown) \cup EndedBy(unfit, "too_long")
         /\ finals = EndedBy(unfit, "empty")
         /\ ans = Answered(answer, errors, "error")
  OBVIOUS
<1>5. answer' = Answered(ans, finals, "final")
  BY <1>2, <1>4 DEF Prepared
<1>6. \A t \in Tasks : answer'[t] \in {"none", "final", "error"}
  BY DEF IInv, TypeOK
<1>7. \A t \in Tasks : ans[t] = "error" => answer'[t] = "error"
  BY <1>5, <1>6 DEF Answered
<1>8. \A t \in Tasks : answer[t] = "error" => answer'[t] = "error"
  <2>1. \A t \in Tasks : answer[t] = "error" => ans[t] \in {"error", "twice"}
    BY <1>4 DEF Answered
  <2>2. \A t \in Tasks : ans[t] = "twice" => answer'[t] = "twice"
    BY <1>5 DEF Answered
  <2> QED  BY <1>6, <1>7, <2>1, <2>2
<1>9. \A p \in Requests : Family(p) \subseteq Tasks /\ p \in Tasks /\ p \in Family(p)
  BY NoTaskAside, Families DEF FamilyFacts
<1> SUFFICES ASSUME NEW s \in Slots, NEW p \in Requests, Waits(s, p)'
             PROVE  Erred(p)' \/ Wakes(p)'
  BY DEF WakeInv
<1>10. Waits(s, p) /\ IsParent(p)
  <2>1. ToSet(<<>>) = {}
    BY DEF ToSet
  <2> QED  BY <1>3, <2>1 DEF Waits, IsParent
<1>11. CASE Erred(p)
  BY <1>8, <1>9, <1>11 DEF Erred
<1>12. CASE Wakes(p)
  <2>1. PICK r \in Slots : state[r] \in {"STARTED", "PROCESSING_PROMPT", "DONE_PROMPT"} /\ slot_task[r] = p
    BY <1>12 DEF Wakes
  <2>2. r \notin outgrown
    BY <1>3, <2>1
  <2>3. CASE r \in unfit
    <3>1. fate[p] \in {"empty", "too_long"}
      BY <1>3, <2>1, <2>3 DEF Unfit
    <3>2. fate[p] # "empty"
      BY <1>1, <1>10 DEF TypeOK, ParentsStay
    <3>3. p \in errors
      BY <1>4, <2>1, <2>3, <3>1, <3>2 DEF EndedBy, TasksIn
    <3>4. answer[p] = "none"
      BY <1>1, <1>9, <2>1, NoTaskAside DEF HomeInv
    <3>5. ans[p] = "error"
      BY <1>4, <1>9, <3>3, <3>4 DEF Answered
    <3> QED  BY <1>7, <1>9, <3>5 DEF Erred
  <2>4. CASE r \notin unfit
    BY <1>3, <2>1, <2>2, <2>4 DEF Wakes
  <2> QED  BY <2>3, <2>4
<1> QED  BY <1>10, <1>11, <1>12 DEF WakeInv

\* A view is decoded, or fails.
LEMMA DecodeWakes ==
    ASSUME IInv, IInv', WakeInv, Decode \/ DecodePart \/ DecodeFails
    PROVE  WakeInv'
<1>1. loop = "decode" /\ TypeOK /\ StateInv
  BY DEF Decode, DecodePart, DecodeFails, IInv
<1>2. ASSUME NEW k \in 0 .. Len(batch), NEW ended, DecodeView(k, ended)
      PROVE  WakeInv'
  <2>1. PICK view, sampled : Decoded(k, view, sampled, ended)
    BY <1>1, <1>2, DecodeMeans
  <2>2. /\ \A s \in Slots :
              /\ state'[s] = IF s \in ended THEN "IDLE"
                             ELSE IF s \in sampled THEN "GENERATING"
                             ELSE IF s \in Activated THEN "DONE_PROMPT" ELSE state[s]
              /\ slot_task'[s] = IF s \in ended THEN NoTask ELSE slot_task[s]
        /\ ended \subseteq sampled
        /\ \A s \in sampled : state[s] \in {"GENERATING", "DONE_PROMPT", "WAIT_OTHER"}
    BY <1>1, <2>1, DecodedSlots
  <2>3. answer' = Answered(answer, TasksIn(ended), "final")
    BY <2>1 DEF Decoded
  <2> SUFFICES ASSUME NEW s \in Slots, NEW p \in Requests, Waits(s, p)'
               PROVE  Erred(p)' \/ Wakes(p)'
    BY DEF WakeInv
  <2>4. Waits(s, p) /\ s \notin Activated
    BY <2>2 DEF Waits
  <2>5. CASE Erred(p)
    BY <2>3, <2>5, ErrorsStay
  <2>6. CASE Wakes(p)
    <3>1. PICK r \in Slots : state[r] \in {"STARTED", "PROCESSING_PROMPT", "DONE_PROMPT"} /\ slot_task[r] = p
      BY <2>6 DEF Wakes
    <3>2. state[r] # "DONE_PROMPT"
      BY <2>4, <3>1 DEF Waits, Activated, In_
    <3>3. r \notin sampled /\ r \notin Activated
      BY <2>2, <3>1, <3>2 DEF Activated, In_
    <3> QED  BY <2>2, <3>1, <3>3 DEF Wakes
  <2> QED  BY <2>4, <2>5, <2>6 DEF WakeInv
<1>3. CASE Decode
  <2>1. Len(batch) \in 0 .. Len(batch)
    BY <1>1 DEF TypeOK
  <2> QED  BY <1>2, <1>3, <2>1 DEF Decode
<1>4. CASE DecodePart
  BY <1>2, <1>4 DEF DecodePart
<1>5. CASE DecodeFails
  <2>1. PICK busy : busy = Slots \ Free
    OBVIOUS
  <2>2. busy \in SUBSET Slots /\ \A s \in Slots : s \in busy <=> state[s] # "IDLE"
    BY <2>1 DEF Free, IsProcessing
  <2>3. ToSet(InSlotOrder(busy)) = busy
    BY <2>2, InOrder
  <2>4. \A s \in Slots : state'[s] = IF s \in busy THEN "IDLE" ELSE state[s]
    BY <1>5, <2>1, <2>3 DEF DecodeFails, Release
  <2>5. \A s \in Slots : state'[s] = "IDLE"
    BY <2>2, <2>4
  <2> QED  BY <2>5 DEF WakeInv, Waits
<1> QED  BY <1>3, <1>4, <1>5

LEMMA WakeKeeps ==
    ASSUME IInv, IInv', ParentsStay, WakeInv, [Next]_vars
    PROVE  WakeInv'
<1>1. ASSUME state' = state, slot_task' = slot_task, answer' = answer
      PROVE  WakeInv'
  <2>1. \A p \in Requests : Erred(p) => Erred(p)'
    BY <1>1 DEF Erred
  <2> QED  BY <1>1, <2>1, StillWakes
<1>2. CASE UNCHANGED vars
  BY <1>1, <1>2 DEF vars, slotVars
<1>3. CASE Live(MainLoop)
  <2>1. MainLoop
    BY <1>3 DEF Live
  <2>2. CASE PopTask \/ Wait \/ AllIdle
    BY <1>1, <2>2 DEF PopTask, Wait, AllIdle, slotVars
  <2>3. CASE ProcessTask
    BY <2>3, ProcessWakes
  <2>4. CASE UpdateSlots
    BY <2>4, UpdateWakes
  <2>5. CASE Decode \/ DecodePart \/ DecodeFails
    BY <2>5, DecodeWakes
  <2> QED  BY <2>1, <2>2, <2>3, <2>4, <2>5 DEF MainLoop
<1>4. ASSUME NEW t \in Requests, Live(Post(t) \/ RequestStep(t) \/ Leave(t))
      PROVE  WakeInv'
  BY <1>1, <1>4 DEF Live, RequestStep, Post, Complete, Fail, Leave, slotVars
<1> QED  BY <1>2, <1>3, <1>4 DEF Next

LEMMA WokenOrErred ==
    ASSUME IInv, ParentsStay, WakeInv
    PROVE  NoOrphans
<1> SUFFICES ASSUME NEW s \in In_({"WAIT_OTHER"}), NEW p, p = ParentOf(slot_task[s])
             PROVE  \/ \E r \in In_({"STARTED", "PROCESSING_PROMPT", "DONE_PROMPT"}) : slot_task[r] = p
                    \/ request[p] = "waiting" /\ \E u \in Family(p) : answer[u] = "error"
                    \/ hand = <<CancelTask(slot_task[s])>>
                    \/ In(queue_tasks, CancelTask(slot_task[s]))
  BY DEF NoOrphans
<1>1. TypeOK /\ StateInv /\ QueueInv /\ CancelInv /\ EndInv /\ HomeInv
  BY DEF IInv, TaskInv
<1>2. s \in Slots /\ state[s] = "WAIT_OTHER"
  BY DEF In_
<1>3. PICK u : u = slot_task[s]
  OBVIOUS
<1>4. u \in Tasks /\ u \notin Requests
  BY <1>1, <1>2, <1>3 DEF TypeOK, StateInv
<1>5. p \in Tasks /\ u \in ToSet(ChildrenOf[p])
  <2>1. \E q \in Tasks : u \in ToSet(ChildrenOf[q])
    BY <1>4 DEF Requests, IsChild
  <2> QED  BY <1>3, <2>1 DEF ParentOf
<1>6. p \in Requests /\ u \in Family(p)
  BY <1>5, Families DEF FamilyFacts, Family
<1>7. Erred(p) \/ Wakes(p)
  BY <1>2, <1>3, <1>5, <1>6 DEF WakeInv, Waits
<1>8. CASE Wakes(p)
  BY <1>8 DEF Wakes, In_
<1>9. CASE Erred(p)
  <2>1. answer[u] = "none"
    BY <1>1, <1>2, <1>3, <1>4, NoTaskAside DEF HomeInv
  <2>2. request[p] \in {"new", "waiting", "served", "failed", "left"}
    BY <1>1, <1>6 DEF TypeOK
  <2>3. request[p] # "new" /\ request[p] # "served"
    BY <1>1, <1>2, <1>3, <1>6, <2>1 DEF QueueInv, Untouched, EndInv
  <2>4. request[p] # "left"
    <3>1. IsParent(p)
      BY <1>5 DEF IsParent, ToSet
    <3> QED  BY <1>1, <1>6, <3>1 DEF EndInv, ParentsStay
  <2>5. request[p] = "failed" => Pending(u)
    BY <1>1, <1>2, <1>3, <1>6 DEF CancelInv
  <2>6. CASE request[p] = "waiting"
    BY <1>9, <2>6 DEF Erred
  <2>7. CASE Pending(u)
    BY <1>3, <2>7 DEF Pending
  <2> QED  BY <2>2, <2>3, <2>4, <2>5, <2>6, <2>7
<1> QED  BY <1>7, <1>8, <1>9

(***************************************************************************)
(* A child that waits for its parent's prompt is woken with it, or is      *)
(* cancelled, or its request has an error to read, provided that requests  *)
(* with children are not left and their prompts are not empty: when such a *)
(* parent ends, nothing ends its children in the same step.                *)
(***************************************************************************)
THEOREM NoOrphansIfParentsStay ==
    ASSUME ParentsStay
    PROVE  Spec => []NoOrphans
<1>1. Init => WakeInv
  BY DEF Init, WakeInv, Waits
<1>2. IInv /\ IInv' /\ WakeInv /\ [Next]_vars => WakeInv'
  BY WakeKeeps
<1>3. IInv /\ WakeInv => NoOrphans
  BY WokenOrErred
<1> QED  BY <1>1, <1>2, <1>3, Invariance, PTL DEF Spec

-----------------------------------------------------------------------------
(* Whole prompts *)

\* Every step but those of update_slots.
LEMMA OthersKeepWhole ==
    ASSUME IInv, WholeInv, PopTask \/ Wait \/ AllIdle \/ ProcessTask \/ DecodeFails
    PROVE  WholeInv'
<1>1. TypeOK /\ TaskInv /\ QueueInv /\ StateInv
  BY DEF IInv, TaskInv
<1>2. ASSUME SameSlots
      PROVE  WholeInv'
  BY <1>2 DEF SameSlots, WholeInv
<1>3. ASSUME NEW R \in SUBSET Slots,
             \A s \in Slots : /\ state'[s] = IF s \in R THEN "IDLE" ELSE state[s]
                              /\ slot_task'[s] = IF s \in R THEN NoTask ELSE slot_task[s],
             has_prompt' = has_prompt \ R
      PROVE  WholeInv'
  BY <1>3 DEF WholeInv
<1>4. CASE PopTask \/ Wait \/ AllIdle
  BY <1>2, <1>4 DEF PopTask, Wait, AllIdle, slotVars, SameSlots
<1>5. CASE DecodeFails
  <2>1. PICK busy : busy = Slots \ Free
    OBVIOUS
  <2>2. busy \in SUBSET Slots
    BY <2>1
  <2>3. ToSet(InSlotOrder(busy)) = busy
    BY <2>2, InOrder
  <2>4. /\ \A s \in Slots : /\ state'[s] = IF s \in busy THEN "IDLE" ELSE state[s]
                            /\ slot_task'[s] = IF s \in busy THEN NoTask ELSE slot_task[s]
        /\ has_prompt' = has_prompt \ busy
    BY <1>5, <2>1, <2>3 DEF DecodeFails, Release
  <2> QED  BY <1>3, <2>2, <2>4
<1>6. CASE ProcessTask
  <2>1. loop = "process"
    BY <1>6 DEF ProcessTask
  <2>2. PICK task \in QueuedTasks : hand = <<task>>
    <3>1. hand # <<>> /\ hand \in {<<>>} \cup {<<task>> : task \in QueuedTasks}
      BY <1>1, <2>1 DEF IInv, TypeOK
    <3> QED  BY <3>1
  <2>3. \/ task.type = "run" /\ ProcessRun(task.id)
        \/ task.type = "cancel" /\ ProcessCancel(task.target)
        \/ task.type = "next_response"
           /\ UNCHANGED <<queueVars, slotVars, n_empty_consecutive, answer>>
    <3>1. hand[1] = task
      BY <2>2
    <3> QED  BY <1>6, <3>1 DEF ProcessTask
  <2>4. \/ \E t \in Requests : task = RunTask(t)
        \/ \E u \in Tasks : task = CancelTask(u)
        \/ task = NextResponse
    BY <2>2 DEF QueuedTasks
  <2>5. ASSUME NEW t \in Requests, task = RunTask(t)
        PROVE  WholeInv'
    <3>1. \/ Defer(RunTask(t))
          \/ \E u, what : Answer({u}, what)
          \/ \E s, others : Seats(t, s, others) /\ Launch(t, s, others)
      <4>1. ProcessRun(t)
        BY <2>3, <2>5, TaskFacts
      <4> QED  BY <1>1, <4>1, ProcessRunMeans
    <3>2. CASE Defer(RunTask(t)) \/ \E u, what : Answer({u}, what)
      BY <1>2, <3>2 DEF Defer, Answer, slotVars, SameSlots
    <3>3. ASSUME NEW s, NEW others, Seats(t, s, others), Launch(t, s, others)
          PROVE  WholeInv'
      <4>1. Carried(t)
        BY <2>2, <2>5 DEF Carried
      <4>2. \A r \in Slots : slot_task[r] \notin Family(t)
        BY <1>1, <4>1 DEF QueueInv, Untouched
      <4>3. \A r \in Slots :
              \/ slot_task'[r] = slot_task[r] /\ state'[r] = state[r]
              \/ state'[r] \in {"STARTED", "WAIT_OTHER"}
        BY <1>1, <3>3, <4>2, LaunchSeats DEF Seated
      <4>4. PICK seats : seats = {s} \cup ToSet(others)
        OBVIOUS
      <4>5. \A r \in seats : state[r] = "IDLE"
        <5>1. \A i \in DOMAIN others : others[i] \in Free
          BY <3>3 DEF Seats
        <5> QED  BY <3>3, <4>4, <5>1 DEF Seats, ToSet, Free, IsProcessing
      <4>6. has_prompt' = has_prompt \ seats
        BY <3>3, <4>4 DEF Launch
      <4> QED  BY <4>3, <4>5, <4>6 DEF WholeInv
    <3> QED  BY <3>1, <3>2, <3>3
  <2>6. ASSUME NEW u \in Tasks, task = CancelTask(u)
        PROVE  WholeInv'
    <3>1. ProcessCancel(u)
      BY <2>3, <2>6, TaskFacts
    <3>2. PICK R : R = SlotsOf({u})
      OBVIOUS
    <3>3. R \in SUBSET Slots
      BY <3>2 DEF SlotsOf
    <3>4. ToSet(InSlotOrder(R)) = R
      BY <3>3, InOrder
    <3>5. /\ \A s \in Slots : /\ state'[s] = IF s \in R THEN "IDLE" ELSE state[s]
                              /\ slot_task'[s] = IF s \in R THEN NoTask ELSE slot_task[s]
          /\ has_prompt' = has_prompt \ R
      BY <3>1, <3>2, <3>4 DEF ProcessCancel, Release
    <3> QED  BY <1>3, <3>3, <3>5
  <2>7. CASE task = NextResponse
    BY <1>2, <2>3, <2>7, TaskFacts DEF slotVars, SameSlots
  <2> QED  BY <2>4, <2>5, <2>6, <2>7
<1> QED  BY <1>4, <1>5, <1>6

LEMMA UpdateKeepsWhole ==
    ASSUME IInv, WholeInv, UpdateSlots
    PROVE  WholeInv'
<1>1. loop = "update" /\ StateInv
  BY DEF UpdateSlots, IInv
<1>2. PICK outgrown, batched, unfit, fed, done : Prepared(outgrown, batched, unfit, fed, done)
  BY UpdatePrepares
<1>3. /\ \A s \in Slots :
            /\ state'[s] = IF s \in outgrown \cup unfit THEN "IDLE"
                           ELSE IF s \in done THEN "DONE_PROMPT"
                           ELSE IF s \in fed THEN "PROCESSING_PROMPT" ELSE state[s]
            /\ slot_task'[s] = IF s \in outgrown \cup unfit THEN NoTask ELSE slot_task[s]
      /\ has_prompt' = has_prompt \ (outgrown \cup unfit)
      /\ \A s \in fed \cup done : state[s] \in {"STARTED", "PROCESSING_PROMPT"}
  BY <1>1, <1>2, PreparedSlots
<1>4. \A s \in Slots : state'[s] = "GENERATING" => state[s] = "GENERATING" /\ s \notin outgrown \cup unfit
  BY <1>3
<1>5. \A s \in Slots : state'[s] = "DONE_PROMPT" => slot_task'[s] \in Requests
  BY <1>1, <1>3 DEF StateInv
<1> QED  BY <1>3, <1>4, <1>5 DEF WholeInv

LEMMA DecodeKeepsWhole ==
    ASSUME IInv, IInv', WholeInv, Decode
    PROVE  WholeInv'
<1>1. loop = "decode" /\ loop' = "drain" /\ TypeOK /\ StateInv /\ BatchGood
  BY DEF Decode, IInv, BatchInv
<1>2. PICK ended : DecodeView(Len(batch), ended)
  BY DEF Decode
<1>3. Len(batch) \in 0 .. Len(batch) /\ DOMAIN batch = 1 .. Len(batch)
      /\ \A i \in DOMAIN batch : batch[i] \in Slots
  BY <1>1 DEF TypeOK
<1>4. PICK view, sampled : Decoded(Len(batch), view, sampled, ended)
  BY <1>1, <1>2, <1>3, DecodeMeans
<1>5. /\ \A s \in Slots :
            /\ state'[s] = IF s \in ended THEN "IDLE"
                           ELSE IF s \in sampled THEN "GENERATING"
                           ELSE IF s \in Activated THEN "DONE_PROMPT" ELSE state[s]
            /\ slot_task'[s] = IF s \in ended THEN NoTask ELSE slot_task[s]
      /\ has_prompt' = (has_prompt \cup view \cup (sampled \cap Activated)) \ ended
      /\ \A s \in sampled : s \in view \/ s \in Activated \/ state[s] = "DONE_PROMPT"
  BY <1>1, <1>3, <1>4, DecodedSlots
<1>6. view = {batch[i] : i \in DOMAIN batch}
  BY <1>3, <1>4 DEF Decoded
<1>7. \A s \in Slots : state[s] = "DONE_PROMPT" => s \in view
  <2> SUFFICES ASSUME NEW s \in Slots, state[s] = "DONE_PROMPT"
               PROVE  s \in view
    OBVIOUS
  <2>1. PICK i \in DOMAIN batch : /\ state[batch[i]] = "DONE_PROMPT"
                                  /\ s = batch[i] \/ OfParent(s, batch[i])
    BY <1>1 DEF BatchGood, OfParent
  <2>2. ~OfParent(s, batch[i])
    <3>1. slot_task[s] \in Requests
      BY DEF WholeInv
    <3> QED  BY <1>1, <1>3, <2>1, <3>1, ParentsAreRequests
  <2> QED  BY <1>6, <2>1, <2>2
<1>8. ASSUME NEW s \in Slots, state'[s] = "GENERATING"
      PROVE  s \in has_prompt'
  <2>1. s \notin ended
    BY <1>5, <1>8
  <2>2. CASE s \in sampled
    BY <1>5, <1>7, <2>1, <2>2
  <2>3. CASE s \notin sampled
    <3>1. state[s] = "GENERATING"
      BY <1>5, <1>8, <2>1, <2>3
    <3> QED  BY <1>5, <2>1, <3>1 DEF WholeInv
  <2> QED  BY <2>2, <2>3
<1>9. \A s \in Slots : state'[s] # "DONE_PROMPT"
  BY <1>1 DEF IInv, StateInv
<1> QED  BY <1>8, <1>9 DEF WholeInv

LEMMA WholeKeeps ==
    ASSUME MaxViews = 0, IInv, IInv', WholeInv, [Next]_vars
    PROVE  WholeInv'
<1>1. ASSUME SameSlots
      PROVE  WholeInv'
  BY <1>1 DEF SameSlots, WholeInv
<1>2. CASE UNCHANGED vars
  BY <1>1, <1>2 DEF vars, slotVars, SameSlots
<1>3. CASE Live(MainLoop)
  <2>1. MainLoop
    BY <1>3 DEF Live
  <2>2. CASE PopTask \/ Wait \/ AllIdle \/ ProcessTask \/ DecodeFails
    BY <2>2, OthersKeepWhole
  <2>3. CASE UpdateSlots
    BY <2>3, UpdateKeepsWhole
  <2>4. CASE Decode
    BY <2>4, DecodeKeepsWhole
  <2>5. ~DecodePart
    <3>1. views \in 0 .. 0
      BY DEF IInv, TypeOK
    <3> QED  BY <3>1 DEF DecodePart
  <2> QED  BY <2>1, <2>2, <2>3, <2>4, <2>5 DEF MainLoop
<1>4. ASSUME NEW t \in Requests, Live(Post(t) \/ RequestStep(t) \/ Leave(t))
      PROVE  WholeInv'
  BY <1>1, <1>4 DEF Live, RequestStep, Post, Complete, Fail, Leave, slotVars, SameSlots
<1> QED  BY <1>2, <1>3, <1>4 DEF Next

(***************************************************************************)
(* While every batch is decoded in one view, a slot generates only from a  *)
(* whole prompt, a child from that of its parent.  With partial views this *)
(* is not so: ServerSlots.Activated has the reason.                        *)
(***************************************************************************)
THEOREM WholePromptIfOneView ==
    ASSUME MaxViews = 0
    PROVE  Spec => []WholePrompt
<1>1. Init => WholeInv
  BY DEF Init, WholeInv
<1>2. IInv /\ IInv' /\ WholeInv /\ [Next]_vars => WholeInv'
  BY WholeKeeps
<1>3. WholeInv => WholePrompt
  BY DEF WholeInv, WholePrompt, Generating, In_
<1> QED  BY <1>1, <1>2, <1>3, Invariance, PTL DEF Spec

-----------------------------------------------------------------------------
(* Deferred tasks are served *)

\* Requests that are not left, whose tasks launch whenever the slots are there.  The
\* task of another may be moved from the deferred ones, and leave its slot to nobody.
Steady ==
    \A t \in Requests : t \notin Impatient /\ "invalid" \notin Fates[t] /\ Kind[t] # "slot_action"

\* The main loop has a task to launch, or is about to have one.
ToLaunch == \E t \in Requests : In(queue_tasks, RunTask(t)) \/ hand = <<RunTask(t)>>

\* While tasks are deferred, a slot processes or the main loop is about to launch one
\* that was deferred before.
DeferInv ==
    queue_tasks_deferred # <<>> =>
        /\ loop # "wait"
        /\ Free = Slots => loop # "update" /\ ToLaunch

\* A slot that is released brings a task back, if there is one.
LEMMA PopDeferredServes ==
    ASSUME NEW q \in QueuePairs, NEW s, PopDeferred(q, s).deferred # <<>>
    PROVE  \E t \in Requests : In(PopDeferred(q, s).tasks, RunTask(t))
<1>1. q.deferred # <<>>
  BY DEF PopDeferred
<1> DEFINE i == ForSlot(q.deferred, s)
           u == q.deferred[i]
           w == q.tasks
<1>2. q.tasks \in Seq(QueuedTasks) /\ q.deferred \in Seq(RunTasks)
  BY DEF QueuePairs
<1>3. i \in DOMAIN q.deferred
  BY <1>1, <1>2, ForSlotIn
<1>4. u \in RunTasks /\ u \in QueuedTasks
  BY <1>2, <1>3, TaskFacts
<1>5. PopDeferred(q, s).tasks = Push(w, u, TRUE)
  BY <1>1 DEF PopDeferred
<1>6. w \in Seq(QueuedTasks)
  BY <1>2
<1> HIDE DEF i, u, w
<1>7. In(Push(w, u, TRUE), u)
  BY <1>4, <1>6, PushProperties
<1> QED  BY <1>4, <1>5, <1>7 DEF RunTasks

LEMMA PoppedServes ==
    ASSUME NEW q \in QueuePairs, NEW order, Len(order) \in Nat, Len(order) # 0,
           Popped(q, order).deferred # <<>>
    PROVE  \E t \in Requests : In(Popped(q, order).tasks, RunTask(t))
<1> DEFINE n == Len(order)
<1>1. PICK f : f = CHOOSE h : Popping(q, order, n, h)
  OBVIOUS
<1>2. Popping(q, order, n, f)
  BY <1>1, PoppingExists
<1>3. Popped(q, order) = f[n]
  BY <1>1, PoppedMeans
<1>4. n \in 0 .. n /\ n - 1 \in 0 .. n
  OBVIOUS
<1>5. \A k \in 0 .. n : f[k] = IF k = 0 THEN q ELSE PopDeferred(f[k - 1], order[k])
  BY <1>2, Zenon DEF Popping
<1>6. f[n] = PopDeferred(f[n - 1], order[n])
  BY <1>4, <1>5
<1>7. f[n - 1] \in QueuePairs
  <2>1. Moved(q, f[n - 1])
    BY <1>2, <1>4, PoppingMoves
  <2> QED  BY <2>1 DEF Moved
<1> QED  BY <1>3, <1>6, <1>7, PopDeferredServes

\* No slot processes after slots were released: a deferred task has come back, or
\* none was released and none processed before.
LEMMA ReleaseServes ==
    ASSUME TypeOK, NEW order \in Seq(Slots), NEW st, NEW prompts, NEW tasks \in Seq(QueuedTasks),
           Release(order, st, prompts, tasks),
           \A u : In(queue_tasks, u) => In(tasks, u),
           \A s \in Slots : state[s] # "IDLE" => st[s] # "IDLE",
           queue_tasks_deferred # <<>> /\ Free = Slots => \E t \in Requests : In(queue_tasks, RunTask(t)),
           queue_tasks_deferred' # <<>>, Free' = Slots
    PROVE  \E t \in Requests : In(queue_tasks', RunTask(t))
<1> DEFINE q == [tasks |-> tasks, deferred |-> queue_tasks_deferred]
<1>1. /\ state' = [s \in Slots |-> IF s \in ToSet(order) THEN "IDLE" ELSE st[s]]
      /\ queue_tasks' = Popped(q, order).tasks /\ queue_tasks_deferred' = Popped(q, order).deferred
  BY DEF Release
<1>2. q \in QueuePairs
  BY DEF QueuePairs, TypeOK, RunTasks
<1>3. Len(order) \in Nat
  OBVIOUS
<1>4. CASE Len(order) # 0
  <2> HIDE DEF q
  <2> QED  BY <1>1, <1>2, <1>3, <1>4, PoppedServes
<1>5. CASE Len(order) = 0
  <2>1. ToSet(order) = {}
    BY <1>5 DEF ToSet
  <2>2. \A s \in Slots : state'[s] = "IDLE"
    BY DEF Free, IsProcessing
  <2>3. \A s \in Slots : state[s] = "IDLE"
    BY <1>1, <2>1, <2>2
  <2>4. Free = Slots
    BY <2>3 DEF Free, IsProcessing
  <2>5. Popped(q, order) = q
    <3> HIDE DEF q
    <3>1. PICK f : f = CHOOSE h : Popping(q, order, 0, h)
      OBVIOUS
    <3>2. Popping(q, order, 0, f)
      BY <3>1, PoppingExists
    <3>3. f[0] = q
      <4>1. 0 \in 0 .. 0
        OBVIOUS
      <4> QED  BY <3>2, <4>1, Zenon DEF Popping
    <3> QED  BY <1>5, <3>1, <3>3, PoppedMeans
  <2>6. queue_tasks' = tasks /\ queue_tasks_deferred' = queue_tasks_deferred
    BY <1>1, <2>5
  <2> QED  BY <2>4, <2>6
<1> QED  BY <1>4, <1>5

\* Every family fits into idle slots.
LEMMA IdleSlotsSuffice ==
    ASSUME NEW t \in Tasks, NEW s \in Slots, Free = Slots
    PROVE  Len(FreeSlots(Len(ChildrenOf[t]), s)) = Len(ChildrenOf[t])
<1>1. NSlots \in Nat /\ ChildrenOf[t] \in Seq(Tasks) /\ Len(ChildrenOf[t]) < NSlots
  BY SlotsAssumption
<1>2. PICK n : n = Len(ChildrenOf[t])
  OBVIOUS
<1>3. n \in Nat /\ n < NSlots
  BY <1>1, <1>2
<1>4. Cardinality(Slots) = NSlots
  BY <1>1, <1>3, FS_Interval DEF Slots
<1>5. Cardinality(Slots \ {s}) = NSlots - 1
  BY <1>4, SlotsFinite, FS_RemoveElement
<1>6. PICK free : free = InSlotOrder(Slots \ {s})
  OBVIOUS
<1>7. Slots \ {s} \in SUBSET Slots
  OBVIOUS
<1>8. free \in Seq(Slots) /\ Len(free) = NSlots - 1
  BY <1>5, <1>6, <1>7, InOrder
<1>9. FreeSlots(n, s) = SubSeq(free, 1, IF n < Len(free) THEN n ELSE Len(free))
  BY <1>6 DEF FreeSlots
<1>10. (IF n < Len(free) THEN n ELSE Len(free)) = n
  BY <1>1, <1>3, <1>8
<1>11. FreeSlots(n, s) = SubSeq(free, 1, n)
  BY <1>9, <1>10
<1>12. Len(SubSeq(free, 1, n)) = n
  BY <1>1, <1>3, <1>8
<1> QED  BY <1>2, <1>11, <1>12

\* A task of a steady request is launched or finds a slot that processes.
LEMMA RunKeepsBusy ==
    ASSUME TypeOK, Steady, NEW t \in Requests, ProcessRun(t)
    PROVE  Free' # Slots
<1>1. t \in Tasks /\ Kind[t] # "slot_action" /\ fate[t] # "invalid"
  BY NoTaskAside DEF TypeOK, Steady
<1>2. ASSUME NEW s, NEW others, s \in Slots, Launch(t, s, others)
      PROVE  Free' # Slots
  <2>1. state'[s] = "STARTED"
    BY <1>2 DEF Launch
  <2> QED  BY <1>2, <2>1 DEF Free, IsProcessing
<1>3. CASE Free = Slots
  <2>1. PICK s \in Slots : RunInSlot(t, s)
    <3>1. IdSlot[t] \in 0 .. NSlots /\ NSlots \in Nat \ {0}
      BY <1>1, SlotsAssumption
    <3>2. IdSlot[t] # 0 => IdSlot[t] \in Slots
      BY <3>1 DEF Slots
    <3>3. 1 \in Free
      BY <1>3, <3>1 DEF Slots
    <3> QED  BY <1>1, <1>3, <3>2, <3>3 DEF ProcessRun
  <2>2. ~IsProcessing(s)
    BY <1>3 DEF Free
  <2>3. PICK n : n = Len(ChildrenOf[t])
    OBVIOUS
  <2>4. n \in Nat
    <3>1. ChildrenOf[t] \in Seq(Tasks)
      BY <1>1, SlotsAssumption
    <3> QED  BY <2>3, <3>1
  <2>5. Len(FreeSlots(n, s)) = n
    BY <1>1, <1>3, <2>3, IdleSlotsSuffice
  <2>6. ~(Len(FreeSlots(n, s)) < n)
    BY <2>4, <2>5
  <2>7. Launch(t, s, FreeSlots(n, s))
    BY <1>1, <2>1, <2>2, <2>3, <2>6, Zenon DEF RunInSlot
  <2> QED  BY <1>2, <2>7
<1>4. CASE Free # Slots
  <2>1. PICK r \in Slots : state[r] # "IDLE"
    BY <1>4 DEF Free, IsProcessing
  <2>2. ASSUME state' = state
        PROVE  Free' # Slots
    BY <1>4, <2>2 DEF Free, IsProcessing
  <2>3. \/ Defer(RunTask(t))
        \/ \E u, what : Answer({u}, what)
        \/ \E s, others : Seats(t, s, others) /\ Launch(t, s, others)
    BY ProcessRunMeans
  <2>4. CASE Defer(RunTask(t))
    BY <2>2, <2>4 DEF Defer, slotVars
  <2>5. CASE \E u, what : Answer({u}, what)
    BY <2>2, <2>5 DEF Answer, slotVars
  <2>6. CASE \E s, others : Seats(t, s, others) /\ Launch(t, s, others)
    BY <1>2, <2>6 DEF Seats
  <2> QED  BY <2>3, <2>4, <2>5, <2>6
<1> QED  BY <1>3, <1>4

\* A task is processed.
LEMMA ProcessServes ==
    ASSUME IInv, Steady, DeferInv, ProcessTask
    PROVE  DeferInv'
<1>1. TypeOK /\ loop = "process" /\ loop' = "drain" /\ hand' = <<>>
  BY DEF IInv, ProcessTask
<1>2. PICK task \in QueuedTasks : hand = <<task>>
  <2>1. hand # <<>> /\ hand \in {<<>>} \cup {<<task>> : task \in QueuedTasks}
    BY <1>1 DEF IInv, TypeOK
  <2> QED  BY <2>1
<1>3. \/ task.type = "run" /\ ProcessRun(task.id)
      \/ task.type = "cancel" /\ ProcessCancel(task.target)
      \/ task.type = "next_response" /\ UNCHANGED <<queueVars, slotVars, n_empty_consecutive, answer>>
  <2>1. hand[1] = task
    BY <1>2
  <2> QED  BY <2>1 DEF ProcessTask
<1>4. \/ \E t \in Requests : task = RunTask(t)
      \/ \E u \in Tasks : task = CancelTask(u)
      \/ task = NextResponse
  BY <1>2 DEF QueuedTasks
<1>5. CASE \E t \in Requests : task = RunTask(t)
  <2>1. PICK t \in Requests : ProcessRun(t)
    BY <1>3, <1>5, TaskFacts
  <2>2. Free' # Slots
    BY <1>1, <2>1, RunKeepsBusy
  <2>3. Slots' = Slots
    BY DEF Slots
  <2> QED  BY <1>1, <2>2, <2>3 DEF DeferInv
<1>6. ASSUME \A t : task # RunTask(t)
      PROVE  queue_tasks_deferred # <<>> /\ Free = Slots => \E t \in Requests : In(queue_tasks, RunTask(t))
  <2>1. \A t : hand # <<RunTask(t)>>
    BY <1>2, <1>6
  <2> QED  BY <2>1 DEF DeferInv, ToLaunch
<1>7. ASSUME NEW u \in Tasks, task = CancelTask(u)
      PROVE  DeferInv'
  <2>1. ProcessCancel(u) /\ \A t : task # RunTask(t)
    BY <1>3, <1>7, TaskFacts
  <2>2. PICK order : order = InSlotOrder(SlotsOf({u}))
    OBVIOUS
  <2>3. SlotsOf({u}) \in SUBSET Slots
    BY DEF SlotsOf
  <2>4. order \in Seq(Slots)
    BY <2>2, <2>3, InOrder
  <2>5. Release(order, state, has_prompt, queue_tasks) /\ queue_tasks \in Seq(QueuedTasks)
    BY <1>1, <2>1, <2>2, TypesOfQueues DEF ProcessCancel
  <2>6. queue_tasks_deferred' # <<>> /\ Free' = Slots => \E t \in Requests : In(queue_tasks', RunTask(t))
    BY <1>1, <1>6, <2>1, <2>4, <2>5, ReleaseServes
  <2> QED  BY <1>1, <2>6 DEF DeferInv, ToLaunch, Slots
<1>8. ASSUME task = NextResponse
      PROVE  DeferInv'
  <2>1. \A t : task # RunTask(t)
    BY <1>8, TaskFacts
  <2>2. UNCHANGED <<queueVars, slotVars>>
    BY <1>3, <1>8, TaskFacts
  <2>3. queue_tasks' = queue_tasks /\ queue_tasks_deferred' = queue_tasks_deferred /\ state' = state
    BY <2>2 DEF queueVars, slotVars
  <2> QED  BY <1>1, <1>6, <2>1, <2>3 DEF DeferInv, ToLaunch, Free, IsProcessing, Slots
<1> QED  BY <1>4, <1>5, <1>7, <1>8

\* update_slots releases slots.
LEMMA UpdateServes ==
    ASSUME IInv, DeferInv, UpdateSlots \/ Decode \/ DecodePart \/ DecodeFails
    PROVE  DeferInv'
<1>1. TypeOK /\ StateInv /\ (loop = "decode" \/ (loop = "update" /\ Free # Slots)) /\ hand = <<>>
  BY DEF IInv, UpdateSlots, Decode, DecodePart, DecodeFails
<1>2. loop' \in {"drain", "decode"}
  <2>1. CASE UpdateSlots
    BY <2>1, UpdatePrepares DEF Prepared
  <2>2. CASE Decode \/ DecodePart \/ DecodeFails
    BY <1>1, <2>2 DEF Decode, DecodePart, DecodeFails, UpdateSlots
  <2> QED  BY <2>1, <2>2
<1>3. queue_tasks_deferred # <<>> /\ Free = Slots => \E t \in Requests : In(queue_tasks, RunTask(t))
  <2>1. \A t : hand # <<RunTask(t)>>
    BY <1>1
  <2> QED  BY <1>1, <2>1 DEF DeferInv, ToLaunch
<1>4. queue_tasks \in Seq(QueuedTasks)
  BY <1>1, TypesOfQueues
<1>5. ASSUME NEW order \in Seq(Slots), NEW st, NEW prompts, NEW tasks \in Seq(QueuedTasks),
             Release(order, st, prompts, tasks),
             \A u : In(queue_tasks, u) => In(tasks, u),
             \A s \in Slots : state[s] # "IDLE" => st[s] # "IDLE"
      PROVE  DeferInv'
  <2>1. queue_tasks_deferred' # <<>> /\ Free' = Slots => \E t \in Requests : In(queue_tasks', RunTask(t))
    BY <1>1, <1>3, <1>5, ReleaseServes
  <2> QED  BY <1>2, <2>1 DEF DeferInv, ToLaunch, Slots
<1>6. CASE UpdateSlots
  <2>1. PICK outgrown, batched, unfit, fed, done : Prepared(outgrown, batched, unfit, fed, done)
    BY <1>6, UpdatePrepares
  <2>2. PICK order, st, tasks :
          /\ order = InSlotOrder(outgrown) \o InSlotOrder(unfit)
          /\ st = [s \in Slots |-> IF s \in done THEN "DONE_PROMPT"
                                   ELSE IF s \in fed THEN "PROCESSING_PROMPT" ELSE state[s]]
          /\ tasks = Push(queue_tasks, NextResponse, FALSE)
    OBVIOUS
  <2>3. Release(order, st, has_prompt, tasks)
    BY <2>1, <2>2, Zenon DEF Prepared
  <2>4. outgrown \in SUBSET Slots /\ unfit \in SUBSET Slots
    BY <2>1 DEF Prepared, Generating, Unfit, In_
  <2>5. order \in Seq(Slots)
    BY <2>2, <2>4, InOrder
  <2>6. tasks \in Seq(QueuedTasks) /\ \A u : In(queue_tasks, u) => In(tasks, u)
    BY <1>4, <2>2, TaskFacts, PushProperties
  <2>7. \A s \in Slots : state[s] # "IDLE" => st[s] # "IDLE"
    BY <2>2
  <2> QED  BY <1>5, <2>3, <2>5, <2>6, <2>7
<1>7. CASE Decode \/ DecodePart
  <2>1. PICK k \in 0 .. Len(batch), ended \in SUBSET Slots : DecodeView(k, ended)
    <3>1. Len(batch) \in 0 .. Len(batch)
      <4>1. batch \in Seq(Slots)
        BY <1>1 DEF TypeOK
      <4> QED  BY <4>1
    <3> QED  BY <1>7, <3>1, Zenon DEF Decode, DecodePart
  <2>2. PICK view, sampled : Decoded(k, view, sampled, ended)
    BY <1>1, <2>1, DecodeMeans
  <2>3. PICK order, st, prompts :
          /\ order = InSlotOrder(ended)
          /\ st = [s \in Slots |-> IF s \in sampled THEN "GENERATING"
                                   ELSE IF s \in Activated THEN "DONE_PROMPT" ELSE state[s]]
          /\ prompts = has_prompt \cup view \cup (sampled \cap Activated)
    OBVIOUS
  <2>4. Release(order, st, prompts, queue_tasks)
    BY <2>2, <2>3, Zenon DEF Decoded
  <2>5. order \in Seq(Slots)
    BY <2>3, InOrder
  <2>6. \A s \in Slots : state[s] # "IDLE" => st[s] # "IDLE"
    BY <2>3
  <2> QED  BY <1>4, <1>5, <2>4, <2>5, <2>6
<1>8. CASE DecodeFails
  <2>1. Slots \ Free \in SUBSET Slots
    OBVIOUS
  <2>2. InSlotOrder(Slots \ Free) \in Seq(Slots)
    BY <2>1, InOrder
  <2>3. Release(InSlotOrder(Slots \ Free), state, has_prompt, queue_tasks)
    BY <1>8 DEF DecodeFails
  <2> QED  BY <1>4, <1>5, <2>2, <2>3
<1> QED  BY <1>6, <1>7, <1>8

\* The main loop takes a task or finds none; a request is given up.
LEMMA PopTaskServes ==
    ASSUME IInv, DeferInv, PopTask
    PROVE  DeferInv'
<1>1. /\ loop = "drain" /\ hand = <<>> /\ state' = state
      /\ queue_tasks_deferred' = queue_tasks_deferred
      /\ queue_tasks \in Seq(QueuedTasks)
  BY TypesOfQueues DEF IInv, PopTask, slotVars
<1>2. queue_tasks_deferred # <<>> /\ Free = Slots => \E t \in Requests : In(queue_tasks, RunTask(t))
  <2>1. \A t : hand # <<RunTask(t)>>
    BY <1>1
  <2> QED  BY <2>1 DEF DeferInv, ToLaunch
<1>3. CASE queue_tasks = <<>>
  <2>1. loop' = "update"
    BY <1>3 DEF PopTask
  <2>2. \A t : ~In(queue_tasks, RunTask(t))
    BY <1>3 DEF In
  <2> QED  BY <1>1, <1>2, <2>1, <2>2 DEF DeferInv, Free, IsProcessing, Slots
<1>4. CASE queue_tasks # <<>>
  <2>1. loop' = "process" /\ hand' = <<Head(queue_tasks)>> /\ queue_tasks' = Tail(queue_tasks)
    BY <1>4 DEF PopTask
  <2>2. \A u : In(queue_tasks, u) => In(queue_tasks', u) \/ hand' = <<u>>
    BY <1>1, <1>4, <2>1, PopProperties
  <2> QED  BY <1>1, <1>2, <2>1, <2>2 DEF DeferInv, ToLaunch, Free, IsProcessing, Slots
<1> QED  BY <1>3, <1>4

LEMMA FailServes ==
    ASSUME IInv, DeferInv, NEW t \in Requests, Fail(t)
    PROVE  DeferInv'
<1>1. TypeOK /\ QueueInv /\ PostCancels(t) /\ loop' = loop /\ hand' = hand /\ state' = state
  BY DEF IInv, TaskInv, Fail, slotVars
<1>2. ~Carried(t)
  <2>1. PICK u \in Family(t) : answer[u] = "error"
    BY DEF Fail
  <2> QED  BY <1>1, <2>1 DEF QueueInv, Untouched
<1>3. \A v \in Requests : In(queue_tasks, RunTask(v)) => In(queue_tasks', RunTask(v))
  BY <1>1, <1>2, CancelsMean DEF Carried
<1>4. queue_tasks_deferred' # <<>> => queue_tasks_deferred # <<>>
  <2>1. queue_tasks_deferred' \in Seq(RunTasks)
    BY <1>1, CancelsMean
  <2> SUFFICES ASSUME queue_tasks_deferred' # <<>>
               PROVE  queue_tasks_deferred # <<>>
    OBVIOUS
  <2>2. 1 \in DOMAIN queue_tasks_deferred' /\ queue_tasks_deferred'[1] \in RunTasks
    BY <2>1
  <2>3. PICK v \in Requests : queue_tasks_deferred'[1] = RunTask(v)
    BY <2>2 DEF RunTasks
  <2>4. In(queue_tasks_deferred', RunTask(v))
    BY <2>2, <2>3 DEF In
  <2>5. In(queue_tasks_deferred, RunTask(v))
    BY <1>1, <2>4, CancelsMean
  <2> QED  BY <2>5 DEF In
<1> QED  BY <1>1, <1>3, <1>4 DEF DeferInv, ToLaunch, Free, IsProcessing, Slots

LEMMA DeferKeepsServing ==
    ASSUME IInv, Steady, DeferInv, [Next]_vars
    PROVE  DeferInv'
<1>1. ASSUME queue_tasks' = queue_tasks, queue_tasks_deferred' = queue_tasks_deferred,
             hand' = hand, state' = state, loop' = loop \/ queue_tasks_deferred = <<>>
      PROVE  DeferInv'
  BY <1>1 DEF DeferInv, ToLaunch, Free, IsProcessing, Slots
<1>2. CASE UNCHANGED vars
  BY <1>1, <1>2 DEF vars, queueVars, slotVars
<1>3. CASE Live(MainLoop)
  <2>1. MainLoop
    BY <1>3 DEF Live
  <2>2. CASE Wait \/ AllIdle
    <3>1. queue_tasks_deferred = <<>>
      BY <2>2 DEF Wait, AllIdle, DeferInv
    <3> QED  BY <1>1, <2>2, <3>1 DEF Wait, AllIdle, queueVars, slotVars
  <2> QED  BY <2>1, <2>2, PopTaskServes, ProcessServes, UpdateServes DEF MainLoop
<1>4. ASSUME NEW t \in Requests, Live(Post(t) \/ RequestStep(t) \/ Leave(t))
      PROVE  DeferInv'
  <2>1. Post(t) \/ Complete(t) \/ Fail(t)
    BY <1>4 DEF Live, RequestStep, Leave, Steady
  <2>2. CASE Post(t)
    <3>1. queue_tasks \in Seq(QueuedTasks) /\ RunTask(t) \in QueuedTasks
      BY TypesOfQueues, TaskFacts DEF IInv
    <3>2. /\ queue_tasks' = Push(queue_tasks, RunTask(t), FALSE)
          /\ queue_tasks_deferred' = queue_tasks_deferred
          /\ hand' = hand /\ loop' = loop /\ state' = state
      BY <2>2 DEF Post, slotVars
    <3>3. \A u : In(queue_tasks, u) => In(queue_tasks', u)
      BY <3>1, <3>2, PushProperties
    <3> QED  BY <3>2, <3>3 DEF DeferInv, ToLaunch, Free, IsProcessing, Slots
  <2>3. CASE Complete(t)
    BY <1>1, <2>3 DEF Complete, queueVars, slotVars
  <2> QED  BY <2>1, <2>2, <2>3, FailServes
<1> QED  BY <1>2, <1>3, <1>4 DEF Next

(***************************************************************************)
(* No task is deferred when the main loop waits for new ones, all slots    *)
(* being idle: each release brings one task back, and a family always fits *)
(* into idle slots.  It takes that whatever comes back launches: a task    *)
(* that is refused, or done without a slot (a slot action), brings none    *)
(* back in its turn, and of a client that leaves, the task that came back  *)
(* is gone.                                                                *)
(***************************************************************************)
THEOREM DeferredServedIfSteady ==
    ASSUME Steady
    PROVE  Spec => []DeferredServed
<1>1. Init => DeferInv
  BY DEF Init, DeferInv
<1>2. IInv /\ DeferInv /\ [Next]_vars => DeferInv'
  BY DeferKeepsServing
<1>3. DeferInv => DeferredServed
  BY DEF DeferInv, DeferredServed
<1> QED  BY <1>1, <1>2, <1>3, Invariance, PTL DEF Spec
=============================================================================
