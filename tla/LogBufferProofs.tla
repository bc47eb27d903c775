-------------------------- MODULE LogBufferProofs --------------------------
(***************************************************************************)
(* Theorems about LogBuffer, for rings of every capacity, any number of    *)
(* messages, flags and files.  They follow from one inductive invariant,   *)
(* IInv: the worker runs exactly from a resume to the end of a pause       *)
(* (ControlInv), and the ring holds an end mark only between the pause     *)
(* that put it there and the worker that takes it, as its last entry       *)
(* (MarkLast).  What each operation does to the messages that wait is a    *)
(* lemma of its own, and the refinement of LogStream puts them together.   *)
(***************************************************************************)
EXTENDS LogBuffer, FiniteSetTheorems, SequenceTheorems, TLAPS

\* The entries are numbered from 0, and head and tail are numbers of entries.
RingInv ==
    \E N \in Nat \ {0} : /\ entries \in [0 .. N - 1 -> Entries]
                         /\ head \in 0 .. N - 1
                         /\ tail \in 0 .. N - 1

\* The worker, the controller and running.
ControlInv ==
    /\ running => pc = "idle" /\ worker \in {"check", "asleep", "print", "write"}
    /\ ~running /\ pc # "joining" => worker = "none" /\ head = tail
    /\ pc = "joining" => ~running /\ worker # "none"
    /\ worker = "exited" => pc = "joining" /\ head = tail

\* The end mark of a pause is the last entry of the ring, and no other entry
\* has one.
MarkLast == \A i \in 1 .. Length : At(i).is_end <=> Marked /\ i = Length

IInv == TypeOK /\ RingInv /\ ControlInv /\ MarkLast

-----------------------------------------------------------------------------
(* The ring *)

\* The distance of two entries and the position of the i-th entry from head,
\* without the remainder.
LEMMA Wrapped ==
    ASSUME NEW N \in Nat \ {0}, NEW h \in 0 .. N - 1, NEW t \in 0 .. N - 1
    PROVE  /\ (t - h) % N = IF t >= h THEN t - h ELSE t - h + N
           /\ \A i \in 1 .. N : (h + i - 1) % N = IF h + i - 1 < N THEN h + i - 1
                                                  ELSE h + i - 1 - N
           /\ (t + 1) % N = IF t + 1 < N THEN t + 1 ELSE 0
<1>0. ASSUME NEW a \in 0 .. N - 1
      PROVE  a % N = a /\ (a + N) % N = a /\ (a - N) % N = a
  OBVIOUS
<1>1. (t - h) % N = IF t >= h THEN t - h ELSE t - h + N
  <2>1. CASE t >= h
    <3>1. t - h \in 0 .. N - 1
      BY <2>1
    <3> QED  BY <2>1, <3>1, <1>0
  <2>2. CASE ~(t >= h)
    <3>1. t - h + N \in 0 .. N - 1 /\ t - h = (t - h + N) - N
      BY <2>2
    <3> QED  BY <2>2, <3>1, <1>0
  <2> QED  BY <2>1, <2>2
<1>2. ASSUME NEW i \in 1 .. N
      PROVE  (h + i - 1) % N = IF h + i - 1 < N THEN h + i - 1 ELSE h + i - 1 - N
  <2>1. CASE h + i - 1 < N
    <3>1. h + i - 1 \in 0 .. N - 1
      BY <2>1
    <3> QED  BY <2>1, <3>1, <1>0
  <2>2. CASE ~(h + i - 1 < N)
    <3>1. h + i - 1 - N \in 0 .. N - 1 /\ h + i - 1 = (h + i - 1 - N) + N
      BY <2>2
    <3> QED  BY <2>2, <3>1, <1>0
  <2> QED  BY <2>1, <2>2
<1>3. (t + 1) % N = IF t + 1 < N THEN t + 1 ELSE 0
  <2>1. CASE t + 1 < N
    BY <2>1, <1>0
  <2>2. CASE ~(t + 1 < N)
    <3>1. 0 \in 0 .. N - 1 /\ t + 1 = 0 + N
      BY <2>2
    <3> QED  BY <2>2, <3>1, <1>0
  <2> QED  BY <2>1, <2>2
<1> QED  BY <1>1, <1>2, <1>3

\* The size of a ring.
LEMMA SizeOf ==
    ASSUME NEW N \in Nat \ {0}, NEW ring, DOMAIN ring = 0 .. N - 1
    PROVE  Cardinality(DOMAIN ring) = N
<1>1. Cardinality(0 .. N - 1) = N
  BY FS_Interval
<1> QED  BY <1>1

\* What RingInv says in terms of Size.
LEMMA RingFacts ==
    ASSUME RingInv
    PROVE  /\ Size \in Nat \ {0}
           /\ entries \in [0 .. Size - 1 -> Entries]
           /\ head \in 0 .. Size - 1
           /\ tail \in 0 .. Size - 1
           /\ DOMAIN entries = 0 .. Size - 1
<1>1. PICK N \in Nat \ {0} : /\ entries \in [0 .. N - 1 -> Entries]
                             /\ head \in 0 .. N - 1
                             /\ tail \in 0 .. N - 1
  BY DEF RingInv
<1>2. DOMAIN entries = 0 .. N - 1
  BY <1>1
<1>3. Size = N
  BY <1>2, SizeOf DEF Size
<1> QED  BY <1>1, <1>2, <1>3

\* The position of the i-th entry that waits.
Position(h, i, n) == IF h + i - 1 < n THEN h + i - 1 ELSE h + i - 1 - n

\* The number of entries from h to t.
Distance(h, t, n) == IF t >= h THEN t - h ELSE t - h + n

\* What is in the ring, without the remainder.
RingView ==
    /\ Size \in Nat \ {0}
    /\ entries \in [0 .. Size - 1 -> Entries]
    /\ head \in 0 .. Size - 1
    /\ tail \in 0 .. Size - 1
    /\ Length = IF Full THEN Size ELSE Distance(head, tail, Size)
    /\ Length \in 0 .. Size
    /\ ~Full => Length \in 0 .. Size - 1
    /\ Length = 0 <=> head = tail /\ ~Full
    /\ \A i \in 1 .. Size : At(i) = entries[Position(head, i, Size)]
    /\ \A i \in 1 .. Size : At(i) \in Entries
    /\ After(head) = IF head + 1 < Size THEN head + 1 ELSE 0
    /\ After(tail) = IF tail + 1 < Size THEN tail + 1 ELSE 0

\* The positions of the entries that wait are numbers of entries.
LEMMA Positions ==
    ASSUME NEW N \in Nat \ {0}, NEW h \in 0 .. N - 1, NEW t \in 0 .. N - 1
    PROVE  /\ Distance(h, t, N) \in 0 .. N - 1
           /\ Distance(h, t, N) = 0 <=> h = t
           /\ \A i \in 1 .. N : Position(h, i, N) \in 0 .. N - 1
  BY DEF Distance, Position

\* The ring as RingView has it.
LEMMA InRing == RingInv => RingView
<1> SUFFICES ASSUME RingInv
             PROVE  RingView
  OBVIOUS
<1>1. /\ Size \in Nat \ {0}
      /\ entries \in [0 .. Size - 1 -> Entries]
      /\ head \in 0 .. Size - 1
      /\ tail \in 0 .. Size - 1
  BY RingFacts
<1>2. Length = IF Full THEN Size ELSE Distance(head, tail, Size)
  BY <1>1, Wrapped DEF Length, Distance
<1>3. \A i \in 1 .. Size : At(i) = entries[Position(head, i, Size)]
  BY <1>1, Wrapped DEF At, Position
<1>4. \A i \in 1 .. Size : At(i) \in Entries
  <2>1. \A i \in 1 .. Size : Position(head, i, Size) \in 0 .. Size - 1
    BY <1>1, Positions
  <2> QED  BY <1>1, <1>3, <2>1
<1>5. /\ After(head) = IF head + 1 < Size THEN head + 1 ELSE 0
      /\ After(tail) = IF tail + 1 < Size THEN tail + 1 ELSE 0
  BY <1>1, Wrapped DEF After
<1>6. Length \in 0 .. Size /\ (~Full => Length \in 0 .. Size - 1)
  BY <1>1, <1>2, Positions
<1>7. Length = 0 <=> head = tail /\ ~Full
  BY <1>1, <1>2, Positions
<1> QED  BY <1>1, <1>2, <1>3, <1>4, <1>5, <1>6, <1>7 DEF RingView

\* The same after a step.
LEMMA InRingNext == RingInv' => RingView'
  BY InRing, PTL

\* Of the places of a ring of n entries from h to t, no other one is t.
LEMMA TailIsFree ==
    ASSUME NEW N \in Nat \ {0}, NEW h \in 0 .. N - 1, NEW t \in 0 .. N - 1,
           NEW i \in 1 .. Distance(h, t, N)
    PROVE  /\ i \in 1 .. N
           /\ Position(h, i, N) # t
  BY DEF Distance, Position

\* One entry more at the end of the ring.
LEMMA OneMore ==
    ASSUME NEW N \in Nat \ {0}, NEW h \in 0 .. N - 1, NEW t \in 0 .. N - 1,
           NEW u, u = IF t + 1 < N THEN t + 1 ELSE 0
    PROVE  /\ u \in 0 .. N - 1
           /\ Position(h, Distance(h, t, N) + 1, N) = t
           /\ Distance(h, t, N) + 1 \in 1 .. N
           /\ u = h => Distance(h, t, N) + 1 = N
           /\ u # h => Distance(h, u, N) = Distance(h, t, N) + 1
  BY DEF Distance, Position

\* One entry less at the front of it.
LEMMA OneLess ==
    ASSUME NEW N \in Nat \ {0}, NEW h \in 0 .. N - 1, NEW t \in 0 .. N - 1, h # t,
           NEW u, u = IF h + 1 < N THEN h + 1 ELSE 0
    PROVE  /\ u \in 0 .. N - 1
           /\ Distance(u, t, N) = Distance(h, t, N) - 1
           /\ Position(h, 1, N) = h
           /\ \A i \in 1 .. N - 1 : Position(u, i, N) = Position(h, i + 1, N)
  BY DEF Distance, Position

\* The mark of a pause makes the ring longer than what waits in it.
WaitingView ==
    /\ Waiting \in Nat
    /\ Waiting <= Length
    /\ Waiting \in 0 .. Size
    /\ Marked => Length = Waiting + 1
    /\ ~Marked => Length = Waiting

\* The number of messages that wait, with and without the mark.
LEMMA WaitingIs == RingInv => WaitingView
<1> SUFFICES ASSUME RingInv
             PROVE  WaitingView
  OBVIOUS
<1>1. Length \in 0 .. Size /\ Size \in Nat
  BY InRing DEF RingView
<1>2. Marked => Length # 0
  BY InRing DEF RingView, Full
<1> QED  BY <1>1, <1>2 DEF Waiting, WaitingView

\* The same after a step.
LEMMA WaitingIsNext == RingInv' => WaitingView'
  BY WaitingIs, PTL

-----------------------------------------------------------------------------
(* What the operations do to the ring *)

\* add appends an entry, also when the ring grows.
LEMMA AddAppends ==
    ASSUME IInv, AddEntry
    PROVE  /\ RingInv'
           /\ ~Marked /\ ~Marked'
           /\ Length' = Length + 1
           /\ \A i \in 1 .. Length : At(i)' = At(i)
           /\ \A i \in {Length + 1} :
                 At(i)' = [id |-> count + 1, flags |-> flags, is_end |-> FALSE]
<1> DEFINE N == Size
           e == [id |-> count + 1, flags |-> flags, is_end |-> FALSE]
           filled == FillEntry(tail, count + 1)
<1>1. RingView
  BY InRing DEF IInv
<1>2. /\ N \in Nat \ {0}
      /\ entries \in [0 .. N - 1 -> Entries]
      /\ head \in 0 .. N - 1
      /\ tail \in 0 .. N - 1
      /\ \A i \in 1 .. N : At(i) = entries[Position(head, i, N)]
      /\ After(tail) = IF tail + 1 < N THEN tail + 1 ELSE 0
  BY <1>1 DEF RingView
<1>3. ~Marked /\ ~Marked' /\ ~Full /\ ~Full'
  BY DEF IInv, ControlInv, AddEntry, Marked, Full, controlVars
<1>4. Length = Distance(head, tail, N)
  BY <1>1, <1>3 DEF RingView
<1>5. e \in Entries
  <2>1. count + 1 \in Ids
    BY MessagesAssumption DEF IInv, TypeOK, AddEntry, Ids
  <2>2. flags \in SUBSET Flags
    BY DEF IInv, TypeOK
  <2> QED  BY <2>1, <2>2 DEF Entries
<1>6. /\ filled \in [0 .. N - 1 -> Entries]
      /\ filled[tail] = e
      /\ \A i \in 0 .. N - 1 : i # tail => filled[i] = entries[i]
  BY <1>2, <1>5 DEF FillEntry
<1> HIDE DEF filled, e
<1>7. /\ \A i \in 1 .. Length : filled[Position(head, i, N)] = At(i)
      /\ filled[Position(head, Length + 1, N)] = e
      /\ Length \in 0 .. N - 1
  <2>1. ASSUME NEW i \in 1 .. Length
        PROVE  filled[Position(head, i, N)] = At(i)
    <3>1. i \in 1 .. N /\ Position(head, i, N) # tail
      BY <1>2, <1>4, TailIsFree
    <3>2. Position(head, i, N) \in 0 .. N - 1
      BY <1>2, <3>1, Positions
    <3> QED  BY <1>2, <1>6, <3>1, <3>2
  <2>2. Position(head, Length + 1, N) = tail
    BY <1>2, <1>4, OneMore
  <2>3. Length \in 0 .. N - 1
    BY <1>2, <1>4, Positions
  <2> QED  BY <1>6, <2>1, <2>2, <2>3
<1>8. CASE After(tail) = head
  <2>1. entries' = Expanded(filled) /\ head' = 0 /\ tail' = N
    BY <1>8 DEF AddEntry, filled
  <2>2. Length + 1 = N
    BY <1>2, <1>4, <1>8, OneMore
  <2>3. \A i \in 0 .. N - 1 : (head + i) % N = Position(head, i + 1, N)
    <3>1. ASSUME NEW i \in 0 .. N - 1
          PROVE  (head + i) % N = Position(head, i + 1, N)
      <4>1. i + 1 \in 1 .. N /\ head + (i + 1) - 1 = head + i
        BY <1>2
      <4>2. (head + (i + 1) - 1) % N = Position(head, i + 1, N)
        BY <1>2, <4>1, Wrapped DEF Position
      <4> QED  BY <4>1, <4>2
    <3> QED  BY <3>1
  <2>4. entries' = [i \in 0 .. 2 * N - 1 |-> IF i < N THEN filled[Position(head, i + 1, N)]
                                              ELSE Blank]
    BY <2>1, <2>3, <1>2 DEF Expanded
  <2>5. Blank \in Entries
    BY MessagesAssumption DEF Blank, Entries, Ids
  <2>6. \A i \in 0 .. N - 1 : filled[Position(head, i + 1, N)] \in Entries
    <3>1. ASSUME NEW i \in 0 .. N - 1
          PROVE  filled[Position(head, i + 1, N)] \in Entries
      <4>1. i + 1 \in 1 .. N
        BY <1>2
      <4>2. Position(head, i + 1, N) \in 0 .. N - 1
        BY <1>2, <4>1, Positions
      <4> QED  BY <1>6, <4>2
    <3> QED  BY <3>1
  <2>7. entries' \in [0 .. 2 * N - 1 -> Entries]
    BY <2>4, <2>5, <2>6, <1>2
  <2>8. 2 * N \in Nat \ {0} /\ head' \in 0 .. 2 * N - 1 /\ tail' \in 0 .. 2 * N - 1
    BY <2>1, <1>2
  <2>9. RingInv'
    BY <2>7, <2>8 DEF RingInv
  <2>10. Size' = 2 * N
    <3>1. DOMAIN entries' = 0 .. 2 * N - 1
      BY <2>7
    <3> QED  BY <2>8, <3>1, SizeOf DEF Size
  <2>11. RingView'
    BY <2>9, InRingNext
  <2>12. Length' = N
    <3>1. Length' = Distance(head', tail', Size')
      BY <2>11, <1>3 DEF RingView
    <3> QED  BY <3>1, <2>1, <1>2 DEF Distance
  <2>13. ASSUME NEW i \in 1 .. N
         PROVE  At(i)' = filled[Position(head, i, N)]
    <3>1. i \in 1 .. Size' /\ i - 1 \in 0 .. N - 1 /\ (i - 1) + 1 = i
      BY <2>10, <1>2
    <3>2. At(i)' = entries'[Position(head', i, Size')]
      BY <2>11, <3>1 DEF RingView
    <3>3. Position(head', i, Size') = i - 1
      BY <2>1, <2>10, <1>2 DEF Position
    <3>4. i - 1 \in 0 .. 2 * N - 1 /\ i - 1 < N
      BY <3>1, <1>2
    <3>5. entries'[i - 1] = filled[Position(head, (i - 1) + 1, N)]
      BY <2>4, <3>4
    <3> QED  BY <3>1, <3>2, <3>3, <3>5
  <2>14. \A i \in 1 .. Length : At(i)' = At(i)
    BY <1>7, <2>13, <2>2, <1>2
  <2>15. \A i \in {Length + 1} : At(i)' = e
    BY <1>7, <2>13, <2>2, <1>2
  <2> QED  BY <1>3, <2>2, <2>9, <2>12, <2>14, <2>15 DEF e
<1>9. CASE After(tail) # head
  <2>1. entries' = filled /\ head' = head /\ tail' = After(tail)
    BY <1>9 DEF AddEntry, filled
  <2>2. tail' \in 0 .. N - 1 /\ Distance(head, tail', N) = Length + 1
    BY <1>2, <1>4, <1>9, <2>1, OneMore
  <2>3. RingInv'
    BY <1>2, <1>6, <2>1, <2>2 DEF RingInv
  <2>4. Size' = N
    <3>1. DOMAIN entries' = 0 .. N - 1
      BY <1>6, <2>1
    <3> QED  BY <1>2, <3>1, SizeOf DEF Size
  <2>5. RingView'
    BY <2>3, InRingNext
  <2>6. Length' = Length + 1
    BY <2>1, <2>2, <2>4, <2>5, <1>3 DEF RingView
  <2>7. \A i \in 1 .. N : At(i)' = filled[Position(head, i, N)]
    BY <2>1, <2>4, <2>5 DEF RingView
  <2>8. \A i \in 1 .. Length : At(i)' = At(i)
    BY <1>7, <2>7, <1>2
  <2>9. \A i \in {Length + 1} : At(i)' = e
    BY <1>7, <2>7, <1>2
  <2> QED  BY <1>3, <2>3, <2>6, <2>8, <2>9 DEF e
<1> QED  BY <1>8, <1>9

\* pause appends its mark, the last free entry if need be.
LEMMA PauseAppends ==
    ASSUME IInv, Pause
    PROVE  /\ RingInv'
           /\ ~Marked /\ Marked'
           /\ Length' = Length + 1
           /\ \A i \in 1 .. Length : At(i)' = At(i)
           /\ \A i \in {Length + 1} : At(i)'.is_end = TRUE
<1> DEFINE N == Size
<1>1. RingView
  BY InRing DEF IInv
<1>2. /\ N \in Nat \ {0}
      /\ entries \in [0 .. N - 1 -> Entries]
      /\ head \in 0 .. N - 1
      /\ tail \in 0 .. N - 1
      /\ \A i \in 1 .. N : At(i) = entries[Position(head, i, N)]
      /\ After(tail) = IF tail + 1 < N THEN tail + 1 ELSE 0
  BY <1>1 DEF RingView
<1>3. ~Marked /\ Marked'
  BY DEF IInv, ControlInv, Pause, Notify, Marked
<1>4. Length = Distance(head, tail, N)
  BY <1>1, <1>3 DEF RingView, Full
<1>5. /\ entries' = [entries EXCEPT ![tail].is_end = TRUE]
      /\ tail' = After(tail)
      /\ head' = head
  BY DEF Pause, PushEnd
<1>6. /\ entries' \in [0 .. N - 1 -> Entries]
      /\ entries'[tail].is_end = TRUE
      /\ \A i \in 0 .. N - 1 : i # tail => entries'[i] = entries[i]
  BY <1>2, <1>5 DEF Entries
<1>7. /\ tail' \in 0 .. N - 1
      /\ tail' = head => Length + 1 = N
      /\ tail' # head => Distance(head, tail', N) = Length + 1
      /\ Position(head, Length + 1, N) = tail
      /\ Length + 1 \in 1 .. N
  BY <1>2, <1>4, <1>5, OneMore
<1>8. RingInv'
  BY <1>2, <1>5, <1>6, <1>7 DEF RingInv
<1>9. Size' = N
  <2>1. DOMAIN entries' = 0 .. N - 1
    BY <1>6
  <2> QED  BY <1>2, <2>1, SizeOf DEF Size
<1>10. RingView'
  BY <1>8, InRingNext
<1>11. Length' = Length + 1
  <2>1. Full' <=> tail' = head
    BY <1>3, <1>5 DEF Full
  <2> QED  BY <1>5, <1>7, <1>9, <1>10, <2>1 DEF RingView
<1>12. \A i \in 1 .. N : At(i)' = entries'[Position(head, i, N)]
  BY <1>5, <1>9, <1>10 DEF RingView
<1>13. ASSUME NEW i \in 1 .. Length
       PROVE  At(i)' = At(i)
  <2>1. i \in 1 .. N /\ Position(head, i, N) # tail
    BY <1>2, <1>4, TailIsFree
  <2>2. Position(head, i, N) \in 0 .. N - 1
    BY <1>2, <2>1, Positions
  <2> QED  BY <1>2, <1>6, <1>12, <2>1, <2>2
<1>14. \A i \in {Length + 1} : At(i)'.is_end = TRUE
  BY <1>6, <1>7, <1>12
<1> QED  BY <1>3, <1>8, <1>11, <1>13, <1>14

\* The worker takes the first entry; it ends with the mark of a pause, which is
\* the only entry then.
LEMMA TakeDropsFirst ==
    ASSUME IInv, WorkerTake
    PROVE  /\ RingInv'
           /\ At(1) = entries[head]
           /\ Length' = Length - 1
           /\ Length \in Nat \ {0}
           /\ \A i \in 1 .. Length - 1 : At(i)' = At(i + 1)
           /\ At(1).is_end => Marked /\ ~Marked' /\ Length = 1 /\ worker' = "exited"
           /\ ~At(1).is_end => (Marked' <=> Marked) /\ worker' = "print"
<1> DEFINE N == Size
<1>1. RingView /\ head # tail /\ worker = "check"
  BY InRing DEF IInv, WorkerTake, WorkerGoto
<1>2. /\ N \in Nat \ {0}
      /\ entries \in [0 .. N - 1 -> Entries]
      /\ head \in 0 .. N - 1
      /\ tail \in 0 .. N - 1
      /\ \A i \in 1 .. N : At(i) = entries[Position(head, i, N)]
      /\ After(head) = IF head + 1 < N THEN head + 1 ELSE 0
  BY <1>1 DEF RingView
<1>3. ~Full
  BY <1>1 DEF Full
<1>4. Length = Distance(head, tail, N) /\ Length \in 0 .. N - 1 /\ Length # 0
  BY <1>1, <1>3 DEF RingView
<1>5. UNCHANGED <<entries, tail, pc>> /\ head' = After(head)
  BY DEF WorkerTake, controlVars
<1>6. /\ head' \in 0 .. N - 1
      /\ Distance(head', tail, N) = Length - 1
      /\ Position(head, 1, N) = head
      /\ \A i \in 1 .. N - 1 : Position(head', i, N) = Position(head, i + 1, N)
  BY <1>1, <1>2, <1>4, <1>5, OneLess
<1>7. RingInv'
  BY <1>2, <1>5, <1>6 DEF RingInv
<1>8. Size' = N
  BY <1>5 DEF Size
<1>9. RingView'
  BY <1>7, InRingNext
<1>10. At(1) = entries[head]
  BY <1>2, <1>6
<1>11. /\ At(1).is_end => Marked /\ ~Marked' /\ Length = 1 /\ worker' = "exited"
       /\ ~At(1).is_end => (Marked' <=> Marked) /\ worker' = "print"
  <2>1. At(1).is_end <=> Marked /\ 1 = Length
    BY <1>4, <1>2 DEF IInv, MarkLast
  <2>2. worker' = IF At(1).is_end THEN "exited" ELSE "print"
    BY <1>10 DEF WorkerTake, WorkerGoto
  <2>3. CASE At(1).is_end
    BY <2>1, <2>2, <2>3 DEF Marked
  <2>4. CASE ~At(1).is_end
    BY <2>2, <2>4, <1>1, <1>5 DEF Marked
  <2> QED  BY <2>3, <2>4
<1>12. Length' = Length - 1
  <2>1. ~Full'
    <3>1. CASE At(1).is_end
      BY <1>11, <3>1 DEF Full
    <3>2. CASE ~At(1).is_end
      <4>1. ~Marked \/ Length # 1
        BY <3>2, <1>2, <1>4 DEF IInv, MarkLast
      <4>2. CASE ~Marked
        BY <1>11, <3>2, <4>2 DEF Full
      <4>3. CASE Length # 1
        <5>1. Distance(head', tail, N) # 0
          BY <1>4, <1>6, <4>3
        <5>2. head' # tail'
          BY <5>1, <1>2, <1>5, <1>6, Positions
        <5> QED  BY <5>2 DEF Full
      <4> QED  BY <4>1, <4>2, <4>3
    <3> QED  BY <3>1, <3>2
  <2> QED  BY <2>1, <1>5, <1>6, <1>8, <1>9 DEF RingView
<1>13. \A i \in 1 .. Length - 1 : At(i)' = At(i + 1)
  <2>1. ASSUME NEW i \in 1 .. Length - 1
        PROVE  At(i)' = At(i + 1)
    <3>1. i \in 1 .. N - 1 /\ i \in 1 .. N /\ i + 1 \in 1 .. N
      BY <1>2, <1>4
    <3>2. At(i)' = entries[Position(head', i, N)]
      BY <1>5, <1>8, <1>9, <3>1 DEF RingView
    <3> QED  BY <1>2, <1>6, <3>1, <3>2
  <2> QED  BY <2>1
<1> QED  BY <1>4, <1>7, <1>10, <1>11, <1>12, <1>13

\* What leaves the ring and the mark alone leaves alone what waits.
LEMMA Still ==
    ASSUME RingInv, UNCHANGED ringVars, Marked' <=> Marked
    PROVE  /\ RingInv'
           /\ Length' = Length
           /\ \A i \in 1 .. Length : At(i)' = At(i)
<1>1. UNCHANGED <<entries, head, tail>>
  BY DEF ringVars
<1>2. Size' = Size
  BY <1>1 DEF Size
<1>3. Full' <=> Full
  BY <1>1 DEF Full
<1>4. Length' = Length
  BY <1>1, <1>2, <1>3 DEF Length
<1>5. \A i \in 1 .. Length : At(i)' = At(i)
  BY <1>1, <1>2 DEF At
<1> QED  BY <1>1, <1>4, <1>5 DEF RingInv

\* The steps that do.
OtherStep == /\ Next
             /\ ~AddEntry /\ ~Pause /\ ~WorkerTake

\* Every step but an add, a pause and the worker's taking an entry.
LEMMA OtherStill ==
    ASSUME IInv, OtherStep
    PROVE  /\ UNCHANGED ringVars
           /\ Marked' <=> Marked
           /\ worker = "exited" => worker' \in {"exited", "none"}
<1> USE DEF ringVars, workerVars, controlVars, Marked, IInv, ControlInv
<1>1. CASE AddDiscarded \/ SetFlag
  BY <1>1 DEF AddDiscarded, SetFlag
<1>2. CASE WorkerSleep \/ WorkerPrint \/ WorkerWrite
  BY <1>2 DEF WorkerSleep, WorkerPrint, WorkerWrite, WorkerGoto
<1>3. CASE PausedBefore \/ Resume
  BY <1>3 DEF PausedBefore, Resume, Start
<1>4. CASE Control
  BY <1>4 DEF Control, Join, EndPause, Flush, SetFile, SetColors, Free,
              ResumeAfter, Start
<1> QED
  BY <1>1, <1>2, <1>3, <1>4 DEF OtherStep, Next, Worker, Operate

-----------------------------------------------------------------------------
(* The invariant *)

\* The types.
LEMMA TypeStep ==
    ASSUME IInv, RingInv', [Next]_vars
    PROVE  TypeOK'
<1> USE DEF ringVars, workerVars, controlVars, WorkerPoints, Operations, ControllerPoints
<1>1. TypeOK /\ RingView
  BY InRing DEF IInv
<1>2. RingView'
  BY InRingNext
<1>3. /\ entries' \in [DOMAIN entries' -> Entries]
      /\ head' \in DOMAIN entries'
      /\ tail' \in DOMAIN entries'
  BY <1>2 DEF RingView
<1> SUFFICES /\ running' \in BOOLEAN
             /\ flags' \subseteq Flags
             /\ file' \in Files \cup {NoFile}
             /\ colors' \in BOOLEAN
             /\ cur' \in Entries
             /\ worker' \in WorkerPoints
             /\ op' \in Operations
             /\ pc' \in ControllerPoints
             /\ count' \in Ids
  BY <1>3 DEF TypeOK
<1>4. count < MaxMessages => count + 1 \in Ids
  BY <1>1, MessagesAssumption DEF TypeOK, Ids
<1>5. MaxMessages \in Ids
  BY MessagesAssumption DEF Ids
<1>6. entries[head] \in Entries
  BY <1>1 DEF RingView
<1>7. CASE UNCHANGED vars
  BY <1>1, <1>7 DEF TypeOK, vars
<1>8. CASE AddDiscarded \/ AddEntry \/ SetFlag
  BY <1>1, <1>4, <1>8 DEF TypeOK, AddDiscarded, AddEntry, SetFlag, Notify
<1>9. CASE Worker
  BY <1>1, <1>6, <1>9 DEF TypeOK, Worker, WorkerSleep, WorkerTake, WorkerPrint,
                          WorkerWrite, WorkerGoto
<1>10. CASE Operate
  BY <1>1, <1>10 DEF TypeOK, Operate, PausedBefore, Pause, Resume, Start, Notify
<1>11. CASE Control
  BY <1>1, <1>5, <1>11 DEF TypeOK, Control, Join, EndPause, Flush, SetFile,
                           SetColors, Free, ResumeAfter, Start
<1> QED  BY <1>7, <1>8, <1>9, <1>10, <1>11 DEF Next

\* The worker and the controller.
LEMMA ControlStep ==
    ASSUME IInv, Next
    PROVE  ControlInv'
<1> USE DEF ringVars, workerVars, controlVars, ControlInv
<1>1. TypeOK /\ RingInv /\ RingView /\ ControlInv
  BY InRing DEF IInv
<1>2. CASE AddDiscarded \/ AddEntry \/ SetFlag
  BY <1>1, <1>2 DEF AddDiscarded, AddEntry, SetFlag, Notify
<1>3. CASE WorkerTake
  <2>1. CASE At(1).is_end
    <3>1. /\ worker' = "exited" /\ ~Marked' /\ Marked
          /\ Length' = Length - 1 /\ Length = 1
      BY <1>3, <2>1, TakeDropsFirst
    <3>2. RingView'
      BY <1>3, TakeDropsFirst, InRingNext
    <3>3. head' = tail'
      BY <3>1, <3>2 DEF RingView
    <3>4. pc = "joining" /\ ~running
      BY <1>1, <3>1 DEF Marked
    <3> QED  BY <1>3, <3>1, <3>3, <3>4 DEF WorkerTake
  <2>2. CASE ~At(1).is_end
    <3>1. worker' = "print"
      BY <1>3, <2>2, TakeDropsFirst
    <3> QED  BY <1>1, <1>3, <3>1 DEF WorkerTake, WorkerGoto
  <2> QED  BY <2>1, <2>2
<1>4. CASE WorkerSleep \/ WorkerPrint \/ WorkerWrite
  BY <1>1, <1>4 DEF WorkerSleep, WorkerPrint, WorkerWrite, WorkerGoto
<1>5. CASE Operate
  BY <1>1, <1>5 DEF Operate, PausedBefore, Pause, Resume, Start, Notify
<1>6. CASE Control
  BY <1>1, <1>6 DEF Control, Join, EndPause, Flush, SetFile, SetColors, Free,
                    ResumeAfter, Start
<1> QED  BY <1>2, <1>3, <1>4, <1>5, <1>6 DEF Next, Worker

\* The ring and the end mark in it.
LEMMA RingStep ==
    ASSUME IInv, Next
    PROVE  RingInv' /\ MarkLast'
<1>1. /\ Length \in Nat /\ RingInv
      /\ \A i \in 1 .. Length : At(i).is_end <=> Marked /\ i = Length
  BY InRing DEF IInv, RingView, MarkLast
<1> SUFFICES /\ RingInv'
             /\ \A i \in 1 .. Length' : At(i)'.is_end <=> Marked' /\ i = Length'
  BY DEF MarkLast
<1>2. CASE AddEntry
  <2>1. /\ RingInv'
        /\ ~Marked /\ ~Marked'
        /\ Length' = Length + 1
        /\ \A i \in 1 .. Length : At(i)' = At(i)
        /\ \A i \in {Length + 1} : At(i)'.is_end = FALSE
    BY <1>2, AddAppends
  <2> QED  BY <1>1, <2>1
<1>3. CASE Pause
  <2>1. /\ RingInv'
        /\ ~Marked /\ Marked'
        /\ Length' = Length + 1
        /\ \A i \in 1 .. Length : At(i)' = At(i)
        /\ \A i \in {Length + 1} : At(i)'.is_end = TRUE
    BY <1>3, PauseAppends
  <2> QED  BY <1>1, <2>1
<1>4. CASE WorkerTake
  <2>1. /\ RingInv'
        /\ Length' = Length - 1
        /\ Length \in Nat \ {0}
        /\ \A i \in 1 .. Length - 1 : At(i)' = At(i + 1)
        /\ At(1).is_end => Length = 1
        /\ ~At(1).is_end => (Marked' <=> Marked)
    BY <1>4, TakeDropsFirst
  <2>2. ASSUME NEW i \in 1 .. Length'
        PROVE  At(i)'.is_end <=> Marked' /\ i = Length'
    <3>1. i \in 1 .. Length - 1 /\ i + 1 \in 1 .. Length /\ Length # 1
      BY <2>1
    <3>2. Marked' <=> Marked
      BY <2>1, <3>1
    <3>3. At(i + 1).is_end <=> Marked /\ i + 1 = Length
      BY <1>1, <3>1
    <3> QED  BY <2>1, <3>1, <3>2, <3>3
  <2> QED  BY <2>1, <2>2
<1>5. CASE OtherStep
  <2>1. /\ RingInv'
        /\ Marked' <=> Marked
        /\ Length' = Length
        /\ \A i \in 1 .. Length : At(i)' = At(i)
    BY <1>1, <1>5, OtherStill, Still
  <2> QED  BY <1>1, <2>1
<1> QED  BY <1>2, <1>3, <1>4, <1>5 DEF OtherStep

\* IInv is an invariant.
THEOREM Invariance == Spec => []IInv
<1>1. Init => IInv
  <2> SUFFICES ASSUME Init
               PROVE  IInv
    OBVIOUS
  <2> USE CapacityAssumption, MessagesAssumption
  <2>1. Blank \in Entries
    BY DEF Blank, Entries, Ids
  <2>2. entries \in [0 .. Capacity - 1 -> Entries] /\ 0 \in 0 .. Capacity - 1
    BY <2>1 DEF Init, NewRing
  <2>3. RingInv
    BY <2>2 DEF Init, RingInv
  <2>4. 0 \in Ids
    BY DEF Ids
  <2>5. DOMAIN entries = 0 .. Capacity - 1
    BY <2>2
  <2>6. TypeOK
    BY <2>1, <2>2, <2>4, <2>5 DEF Init, TypeOK, WorkerPoints, Operations, ControllerPoints
  <2>7. ControlInv
    BY DEF Init, ControlInv
  <2>8. Length = 0
    BY <2>3, InRing DEF RingView, Full, Marked, Init
  <2>9. MarkLast
    BY <2>8 DEF MarkLast
  <2> QED  BY <2>3, <2>6, <2>7, <2>9 DEF IInv
<1>2. IInv /\ [Next]_vars => IInv'
  <2> SUFFICES ASSUME IInv, [Next]_vars
               PROVE  IInv'
    OBVIOUS
  <2>1. CASE Next
    BY <2>1, RingStep, ControlStep, TypeStep DEF IInv
  <2>2. CASE UNCHANGED vars
    <3>1. RingInv' /\ ControlInv'
      BY <2>2 DEF IInv, RingInv, ControlInv, vars, ringVars, workerVars, controlVars
    <3>2. TypeOK'
      BY <3>1, TypeStep
    <3>3. UNCHANGED <<entries, head, tail, pc, worker>>
      BY <2>2 DEF vars, ringVars, workerVars, controlVars
    <3>4. MarkLast'
      BY <3>3 DEF IInv, MarkLast, Length, At, Marked, Full, Size
    <3> QED  BY <3>1, <3>2, <3>4 DEF IInv
  <2> QED  BY <2>1, <2>2
<1> QED  BY <1>1, <1>2, PTL DEF Spec

\* The variables have their types in every reachable state.
THEOREM TypeCorrect == Spec => []TypeOK
<1>1. IInv => TypeOK
  BY DEF IInv
<1> QED  BY <1>1, Invariance, PTL

-----------------------------------------------------------------------------
(* The messages *)

Messages == [id : Ids, flags : SUBSET Flags]

\* Numbers that differ by the mark.
LEMMA Cancel ==
    ASSUME NEW a \in Nat, NEW b \in Nat, NEW x
    PROVE  x = a + 1 /\ x = b + 1 => a = b
  OBVIOUS

\* What waits, message by message.
PendingView ==
    /\ Pending \in Seq(Messages)
    /\ worker = "print" =>
          /\ Len(Pending) = Waiting + 1
          /\ Pending[1] = Message(cur)
          /\ \A i \in 1 .. Waiting : Pending[i + 1] = Message(At(i))
    /\ worker # "print" =>
          /\ Len(Pending) = Waiting
          /\ \A i \in 1 .. Waiting : Pending[i] = Message(At(i))

\* Pending as PendingView has it.
LEMMA PendingIs == IInv => PendingView
<1> SUFFICES ASSUME IInv
             PROVE  PendingView
  OBVIOUS
<1> DEFINE Q == [i \in 1 .. Waiting |-> Message(At(i))]
<1>1. WaitingView /\ RingView
  BY WaitingIs, InRing DEF IInv
<1>2. Waiting \in Nat /\ \A i \in 1 .. Waiting : At(i) \in Entries
  BY <1>1 DEF WaitingView, RingView
<1>3. \A e \in Entries : Message(e) \in Messages
  BY DEF Message, Messages, Entries
<1>4. Q \in Seq(Messages) /\ Len(Q) = Waiting
  BY <1>2, <1>3
<1>5. \A i \in 1 .. Waiting : Q[i] = Message(At(i))
  OBVIOUS
<1> HIDE DEF Q
<1>6. CASE worker = "print"
  <2>1. Message(cur) \in Messages
    BY <1>3 DEF IInv, TypeOK
  <2>2. Pending = <<Message(cur)>> \o Q
    BY <1>6 DEF Pending, Taken, Q
  <2>3. <<Message(cur)>> \in Seq(Messages) /\ Len(<<Message(cur)>>) = 1
    BY <2>1
  <2>4. /\ Pending \in Seq(Messages)
        /\ Len(Pending) = 1 + Waiting
        /\ \A i \in 1 .. Len(Pending) :
              Pending[i] = IF i <= 1 THEN <<Message(cur)>>[i] ELSE Q[i - 1]
    BY <1>4, <2>2, <2>3, ConcatProperties
  <2>5. Pending[1] = Message(cur)
    BY <1>2, <2>4
  <2>6. ASSUME NEW i \in 1 .. Waiting
        PROVE  Pending[i + 1] = Message(At(i))
    <3>1. i + 1 \in 1 .. Len(Pending) /\ ~(i + 1 <= 1) /\ (i + 1) - 1 = i
      BY <1>2, <2>4
    <3>2. Pending[i + 1] = Q[(i + 1) - 1]
      BY <2>4, <3>1
    <3> QED  BY <1>5, <3>1, <3>2
  <2> QED  BY <1>2, <1>6, <2>4, <2>5, <2>6 DEF PendingView
<1>7. CASE worker # "print"
  <2>1. Pending = <<>> \o Q
    BY <1>7 DEF Pending, Taken, Q
  <2>2. Pending = Q
    BY <1>4, <2>1, ConcatEmptySeq
  <2> QED  BY <1>4, <1>5, <1>7, <2>2 DEF PendingView
<1> QED  BY <1>6, <1>7

\* The same after a step.
LEMMA PendingIsNext == IInv' => PendingView'
  BY PendingIs, PTL

\* add appends its message to what waits.
LEMMA AddIsAdd ==
    ASSUME IInv, IInv', AddEntry
    PROVE  /\ [id |-> count + 1, flags |-> flags] \in Messages
           /\ Pending' = Append(Pending, [id |-> count + 1, flags |-> flags])
<1> DEFINE m == [id |-> count + 1, flags |-> flags]
<1>1. /\ ~Marked /\ ~Marked'
      /\ Length' = Length + 1
      /\ \A i \in 1 .. Length : At(i)' = At(i)
      /\ \A i \in {Length + 1} :
            At(i)' = [id |-> count + 1, flags |-> flags, is_end |-> FALSE]
  BY AddAppends
<1>2. PendingView /\ PendingView' /\ WaitingView /\ WaitingView'
  BY PendingIs, PendingIsNext, WaitingIs, WaitingIsNext DEF IInv
<1>3. Waiting \in Nat /\ Length = Waiting /\ Waiting' = Waiting + 1
  BY <1>1, <1>2 DEF WaitingView
<1>4. cur' = cur /\ (worker' = "print" <=> worker = "print")
  BY DEF AddEntry, Notify
<1>5. \A i \in 1 .. Waiting : Message(At(i))' = Message(At(i))
  BY <1>1, <1>3 DEF Message
<1>6. \A i \in {Waiting + 1} : Message(At(i))' = m
  BY <1>1, <1>3 DEF Message
<1>7. m \in Messages
  <2>1. count + 1 \in Ids
    BY MessagesAssumption DEF IInv, TypeOK, AddEntry, Ids
  <2>2. flags \in SUBSET Flags
    BY DEF IInv, TypeOK
  <2> QED  BY <2>1, <2>2 DEF Messages
<1>8. Pending' = Append(Pending, m)
  <2>1. Pending \in Seq(Messages) /\ Pending' \in Seq(Messages)
    BY <1>2 DEF PendingView
  <2> HIDE DEF m
  <2>2. /\ Append(Pending, m) \in Seq(Messages)
        /\ Len(Append(Pending, m)) = Len(Pending) + 1
        /\ \A i \in 1 .. Len(Pending) : Append(Pending, m)[i] = Pending[i]
        /\ Append(Pending, m)[Len(Pending) + 1] = m
    BY <2>1, <1>7, AppendProperties
  <2>3. Len(Pending') = Len(Pending) + 1
    BY <1>2, <1>3, <1>4 DEF PendingView
  <2>4. ASSUME NEW j \in 1 .. Len(Pending')
        PROVE  Pending'[j] = Append(Pending, m)[j]
    <3>1. CASE worker = "print"
      <4>1. /\ Len(Pending) = Waiting + 1
            /\ Pending'[1] = Pending[1]
            /\ \A i \in 1 .. Waiting : Pending[i + 1] = Message(At(i))
            /\ \A i \in 1 .. Waiting + 1 : Pending'[i + 1] = Message(At(i))'
        BY <1>2, <1>3, <1>4, <3>1 DEF PendingView, Message
      <4>2. CASE j = 1
        BY <1>3, <2>2, <4>1, <4>2
      <4>3. CASE j \in 2 .. Waiting + 1
        <5>1. j - 1 \in 1 .. Waiting /\ (j - 1) + 1 = j /\ j \in 1 .. Len(Pending)
              /\ j - 1 \in 1 .. Waiting + 1
          BY <1>3, <4>1, <4>3
        <5>2. Pending[j] = Message(At(j - 1))
          BY <4>1, <5>1
        <5>3. \A i \in 1 .. Waiting : Pending'[i + 1] = Message(At(i))
          BY <1>5, <4>1, <1>3
        <5>4. Pending'[j] = Message(At(j - 1))
          BY <5>1, <5>3
        <5> QED  BY <2>2, <5>1, <5>2, <5>4
      <4>4. CASE j = Waiting + 2
        <5>1. \A i \in {Waiting + 1} : Pending'[i + 1] = m
          BY <1>3, <1>6, <4>1
        <5>2. Pending'[j] = m /\ j = Len(Pending) + 1
          BY <1>3, <4>1, <4>4, <5>1
        <5> QED  BY <2>2, <5>2
      <4> QED  BY <1>3, <2>3, <4>1, <4>2, <4>3, <4>4
    <3>2. CASE worker # "print"
      <4>1. /\ Len(Pending) = Waiting
            /\ \A i \in 1 .. Waiting : Pending[i] = Message(At(i))
            /\ \A i \in 1 .. Waiting + 1 : Pending'[i] = Message(At(i))'
        BY <1>2, <1>3, <1>4, <3>2 DEF PendingView
      <4>2. CASE j \in 1 .. Waiting
        <5>1. Pending'[j] = Pending[j]
          BY <1>3, <1>5, <4>1, <4>2
        <5> QED  BY <2>2, <4>1, <4>2, <5>1
      <4>3. CASE j = Waiting + 1
        BY <1>3, <1>6, <2>2, <4>1, <4>3
      <4> QED  BY <1>3, <2>3, <4>1, <4>2, <4>3
    <3> QED  BY <3>1, <3>2
  <2> QED  BY <2>1, <2>2, <2>3, <2>4, SeqEqual
<1> QED  BY <1>7, <1>8

\* What the worker takes waits in its hands as it did in the ring.
LEMMA TakeLeaves ==
    ASSUME IInv, IInv', WorkerTake
    PROVE  Pending' = Pending
<1>1. /\ Length' = Length - 1
      /\ Length \in Nat \ {0}
      /\ \A i \in 1 .. Length - 1 : At(i)' = At(i + 1)
      /\ At(1) = entries[head]
      /\ At(1).is_end => Marked /\ ~Marked' /\ Length = 1 /\ worker' = "exited"
      /\ ~At(1).is_end => (Marked' <=> Marked) /\ worker' = "print"
  BY TakeDropsFirst
<1>2. PendingView /\ PendingView' /\ WaitingView /\ WaitingView'
  BY PendingIs, PendingIsNext, WaitingIs, WaitingIsNext DEF IInv
<1>3. worker = "check" /\ cur' = At(1)
  BY <1>1 DEF WorkerTake, WorkerGoto
<1>4. /\ Pending \in Seq(Messages) /\ Pending' \in Seq(Messages)
      /\ Len(Pending) = Waiting
      /\ \A i \in 1 .. Waiting : Pending[i] = Message(At(i))
  BY <1>2, <1>3 DEF PendingView
<1>5. CASE At(1).is_end
  <2>1. Waiting = 0 /\ Waiting' = 0 /\ worker' # "print"
    BY <1>1, <1>2, <1>5 DEF WaitingView
  <2>2. Len(Pending') = 0
    BY <1>2, <2>1 DEF PendingView
  <2>3. Pending' = <<>>
    BY <1>4, <2>2, EmptySeq
  <2>4. Pending = <<>>
    BY <1>4, <2>1, EmptySeq
  <2> QED  BY <2>3, <2>4
<1>6. CASE ~At(1).is_end
  <2>0. /\ worker' = "print" /\ (Marked' <=> Marked)
        /\ Length' = Length - 1 /\ Length \in Nat \ {0}
    BY <1>1, <1>6
  <2>1. Waiting' = Waiting - 1 /\ Waiting \in Nat /\ Waiting' \in Nat
    <3>1. Waiting \in Nat /\ Waiting' \in Nat
      BY <1>2 DEF WaitingView
    <3>2. CASE Marked
      <4>1. Length = Waiting + 1
        BY <1>2, <3>2 DEF WaitingView
      <4>2. Length' = Waiting' + 1
        BY <1>2, <2>0, <3>2 DEF WaitingView
      <4>3. Length' = (Waiting - 1) + 1
        BY <2>0, <3>1, <4>1
      <4>4. Waiting' + 1 = (Waiting - 1) + 1
        BY <4>2, <4>3, Zenon
      <4>5. \A a, b \in Nat : a + 1 = (b - 1) + 1 => a = b - 1
        OBVIOUS
      <4>6. Waiting' = Waiting - 1
        BY <3>1, <4>4, <4>5, Zenon
      <4> QED  BY <3>1, <4>6
    <3>3. CASE ~Marked
      <4>1. Length = Waiting
        BY <1>2, <3>3 DEF WaitingView
      <4>2. Length' = Waiting'
        BY <1>2, <2>0, <3>3 DEF WaitingView
      <4>3. Length' = Waiting - 1
        BY <2>0, <4>1
      <4> QED  BY <3>1, <4>2, <4>3, Zenon
    <3> QED  BY <3>2, <3>3
  <2>2. /\ Len(Pending') = Waiting
        /\ Pending'[1] = Message(cur')
        /\ \A i \in 1 .. Waiting - 1 : Pending'[i + 1] = Message(At(i))'
    BY <1>2, <2>0, <2>1 DEF PendingView, Message
  <2>3. \A i \in 1 .. Waiting - 1 : Message(At(i))' = Message(At(i + 1))
    BY <1>1, <1>2, <2>1 DEF WaitingView, Message
  <2>4. \A i \in 1 .. Waiting - 1 : Pending'[i + 1] = Message(At(i + 1))
    BY <2>2, <2>3
  <2>5. ASSUME NEW j \in 1 .. Waiting
        PROVE  Pending'[j] = Pending[j]
    <3>1. CASE j = 1
      BY <1>3, <1>4, <2>1, <2>2, <3>1
    <3>2. CASE j # 1
      <4>1. j - 1 \in 1 .. Waiting - 1 /\ (j - 1) + 1 = j
        BY <2>1, <3>2
      <4> QED  BY <1>4, <2>4, <4>1
    <3> QED  BY <3>1, <3>2
  <2> QED  BY <1>4, <2>2, <2>5, SeqEqual
<1> QED  BY <1>5, <1>6

\* What is printed is the first message that waits.
LEMMA PrintIsShow ==
    ASSUME IInv, IInv', WorkerPrint
    PROVE  /\ Pending # <<>>
           /\ console' = Append(console, Head(Pending))
           /\ Pending' = Tail(Pending)
<1>1. worker = "print" /\ worker' # "print" /\ worker' # "exited" /\ UNCHANGED <<ringVars, pc>>
  BY DEF WorkerPrint, WorkerGoto, controlVars
<1>2. Marked' <=> Marked
  BY <1>1 DEF Marked
<1>3. Length' = Length /\ \A i \in 1 .. Length : At(i)' = At(i)
  BY <1>1, <1>2, Still DEF IInv
<1>4. PendingView /\ PendingView' /\ WaitingView /\ WaitingView'
  BY PendingIs, PendingIsNext, WaitingIs, WaitingIsNext DEF IInv
<1>5. Waiting' = Waiting /\ Waiting \in Nat /\ 1 .. Waiting \subseteq 1 .. Length
  <2>1. Length \in Nat
    BY InRing DEF IInv, RingView
  <2> QED  BY <1>2, <1>3, <1>4, <2>1 DEF WaitingView, Waiting
<1>6. /\ Pending \in Seq(Messages) /\ Len(Pending) = Waiting + 1
      /\ Pending[1] = Message(cur)
      /\ \A i \in 1 .. Waiting : Pending[i + 1] = Message(At(i))
  BY <1>1, <1>4 DEF PendingView
<1>7. /\ Pending' \in Seq(Messages) /\ Len(Pending') = Waiting
      /\ \A i \in 1 .. Waiting : Pending'[i] = Message(At(i))'
  BY <1>1, <1>4, <1>5 DEF PendingView
<1>8. \A i \in 1 .. Waiting : Message(At(i))' = Message(At(i))
  BY <1>3, <1>5 DEF Message
<1>9. Pending # <<>>
  BY <1>5, <1>6, EmptySeq
<1>10. /\ Head(Pending) = Pending[1]
       /\ Tail(Pending) \in Seq(Messages)
       /\ Len(Tail(Pending)) = Len(Pending) - 1
       /\ \A i \in 1 .. Len(Tail(Pending)) : Tail(Pending)[i] = Pending[i + 1]
  BY <1>6, <1>9, HeadTailProperties
<1>11. Pending' = Tail(Pending)
  <2>1. Len(Tail(Pending)) = Waiting
    BY <1>5, <1>6, <1>10
  <2>2. \A i \in 1 .. Waiting : Pending'[i] = Tail(Pending)[i]
    BY <1>6, <1>7, <1>8, <1>10, <2>1
  <2> QED  BY <1>7, <1>10, <2>1, <2>2, SeqEqual
<1>12. console' = Append(console, Head(Pending))
  BY <1>6, <1>10 DEF WorkerPrint, Message
<1> QED  BY <1>9, <1>11, <1>12

\* pause leaves alone what waits: its mark is not a message.
LEMMA PauseLeaves ==
    ASSUME IInv, IInv', Pause
    PROVE  Pending' = Pending
<1>1. /\ ~Marked /\ Marked'
      /\ Length' = Length + 1
      /\ \A i \in 1 .. Length : At(i)' = At(i)
  BY PauseAppends
<1>2. WaitingView /\ WaitingView'
  BY WaitingIs, WaitingIsNext DEF IInv
<1>3. Length = Waiting /\ Waiting' = Waiting
  <2>1. Waiting \in Nat /\ Length = Waiting
    BY <1>1, <1>2 DEF WaitingView
  <2>2. Waiting' \in Nat /\ Length' = Waiting' + 1
    BY <1>1, <1>2 DEF WaitingView
  <2>3. Length' = Waiting + 1
    BY <1>1, <2>1
  <2>4. Waiting' = Waiting
    BY <2>1, <2>2, <2>3, Cancel
  <2> QED  BY <2>1, <2>4
<1>4. \A i \in 1 .. Waiting : Message(At(i))' = Message(At(i))
  BY <1>1, <1>3 DEF Message
<1>5. Taken' = Taken
  BY DEF Taken, Pause, Notify, Message
<1> QED  BY <1>3, <1>4, <1>5 DEF Pending

\* Nothing waits when there is no worker.
LEMMA NothingWaits ==
    ASSUME IInv, worker = "none"
    PROVE  Pending = <<>>
<1>1. ~running /\ ~Marked /\ head = tail
  BY DEF IInv, ControlInv, Marked
<1>2. Length = 0
  BY <1>1, InRing DEF IInv, RingView, Full
<1>3. Waiting = 0
  BY <1>1, <1>2 DEF Waiting
<1>4. Pending \in Seq(Messages) /\ Len(Pending) = 0
  BY <1>3, PendingIs DEF PendingView
<1> QED  BY <1>4, EmptySeq

-----------------------------------------------------------------------------
(* The refinement, and the settings *)

\* The other steps leave alone what waits, unless the worker prints.
LEMMA OtherLeaves ==
    ASSUME IInv, OtherStep, ~WorkerPrint
    PROVE  Pending' = Pending /\ console' = console
<1>1. UNCHANGED <<cur, console>>
  BY DEF OtherStep, Next, AddDiscarded, SetFlag, Worker, WorkerSleep, WorkerWrite,
         Operate, PausedBefore, Resume, Control, Join, EndPause, Flush, SetFile,
         SetColors, Free, ResumeAfter, workerVars
<1>2. worker' = "print" <=> worker = "print"
  BY DEF OtherStep, Next, AddDiscarded, SetFlag, Worker, WorkerSleep, WorkerWrite,
         WorkerGoto, Operate, PausedBefore, Resume, Control, Join, EndPause, Flush,
         SetFile, SetColors, Free, ResumeAfter, Start, workerVars, IInv, ControlInv
<1>3. /\ UNCHANGED ringVars /\ (Marked' <=> Marked)
      /\ Length' = Length
      /\ \A i \in 1 .. Length : At(i)' = At(i)
  BY OtherStill, Still DEF IInv
<1>4. Waiting' = Waiting
  BY <1>3 DEF Waiting
<1>5. Waiting \in Nat /\ 1 .. Waiting \subseteq 1 .. Length
  BY WaitingIs, InRing DEF IInv, WaitingView, RingView
<1>6. \A i \in 1 .. Waiting : Message(At(i))' = Message(At(i))
  BY <1>3, <1>5 DEF Message
<1>7. Taken' = Taken
  BY <1>1, <1>2 DEF Taken, Message
<1> QED  BY <1>1, <1>4, <1>6, <1>7 DEF Pending

\* What the other steps are for whoever uses the log.
LEMMA OtherIs ==
    ASSUME IInv, IInv', OtherStep, ~WorkerPrint
    PROVE  Stream!Next \/ UNCHANGED Stream!vars
<1>1. Pending' = Pending /\ console' = console
  BY OtherLeaves
<1>2. CASE ResumeAfter \/ Resume
  <2>1. worker = "none" /\ ~running /\ running' = TRUE
    BY <1>2 DEF ResumeAfter, Resume, Start, IInv, ControlInv
  <2>2. Pending = <<>>
    BY <2>1, NothingWaits
  <2> QED  BY <1>1, <2>1, <2>2 DEF Stream!Next, Stream!Resume
<1>3. CASE ~(ResumeAfter \/ Resume)
  <2>1. UNCHANGED running
    BY <1>3
    DEF OtherStep, Next, AddDiscarded, SetFlag, Worker, WorkerSleep, WorkerWrite,
        Operate, PausedBefore, Control, Join, EndPause, Flush, SetFile, SetColors,
        Free
  <2> QED  BY <1>1, <2>1 DEF Stream!vars
<1> QED  BY <1>2, <1>3

\* The log keeps what it promises: messages are shown one by one in the order in
\* which they were added, also when the ring wraps or grows or meets the mark of
\* a pause, and a paused log accepts messages when all of them are shown.
THEOREM LogIsStream == Spec => ImplementsStream
<1>1. Init => Stream!Init
  <2> SUFFICES ASSUME Init
               PROVE  Stream!Init
    OBVIOUS
  <2>2. RingInv
    <3>1. Blank \in Entries
      BY MessagesAssumption DEF Blank, Entries, Ids
    <3>2. entries \in [0 .. Capacity - 1 -> Entries] /\ 0 \in 0 .. Capacity - 1
      BY <3>1, CapacityAssumption DEF Init, NewRing
    <3> QED  BY <3>2, CapacityAssumption DEF Init, RingInv
  <2>3. Waiting = 0
    BY <2>2, InRing DEF RingView, Full, Marked, Init, Waiting
  <2>4. Taken = <<>>
    BY DEF Init, Taken
  <2>5. Pending = <<>>
    BY <2>3, <2>4, SMT DEF Pending
  <2> QED  BY <2>5 DEF Init, Stream!Init
<1>2. IInv /\ IInv' /\ [Next]_vars => [Stream!Next]_(Stream!vars)
  <2> SUFFICES ASSUME IInv, IInv', [Next]_vars
               PROVE  Stream!Next \/ UNCHANGED Stream!vars
    OBVIOUS
  <2>1. CASE AddEntry
    <3>1. PICK m \in Messages : Pending' = Append(Pending, m)
      BY <2>1, AddIsAdd
    <3>2. running /\ running' = running /\ console' = console
      BY <2>1 DEF AddEntry
    <3> QED  BY <3>1, <3>2 DEF Stream!Next, Stream!Add, Messages
  <2>2. CASE WorkerTake
    <3>1. Pending' = Pending
      BY <2>2, TakeLeaves
    <3> QED  BY <2>2, <3>1 DEF WorkerTake, Stream!vars
  <2>3. CASE WorkerPrint
    BY <2>3, PrintIsShow DEF WorkerPrint, Stream!Next, Stream!Show
  <2>4. CASE Pause
    <3>1. Pending' = Pending
      BY <2>4, PauseLeaves
    <3> QED  BY <2>4, <3>1 DEF Pause, Stream!Next, Stream!Pause
  <2>5. CASE OtherStep /\ ~WorkerPrint
    BY <2>5, OtherIs
  <2>6. CASE UNCHANGED vars
    <3>1. UNCHANGED <<entries, head, tail, running, cur, worker, pc, console>>
      BY <2>6 DEF vars, ringVars, workerVars, controlVars
    <3>2. Pending' = Pending
      BY <3>1 DEF Pending, Waiting, Taken, Length, Full, Marked, At, Size, Message
    <3> QED  BY <3>1, <3>2 DEF Stream!vars
  <2> QED  BY <2>1, <2>2, <2>3, <2>4, <2>5, <2>6 DEF OtherStep
<1> QED
  BY <1>1, <1>2, Invariance, PTL DEF Spec, ImplementsStream, Stream!Spec

\* set_file and set_colors change what the worker uses without the mutex only
\* when it has ended, and when every message before them is printed.
THEOREM SettingsChangeAlone == Spec => SettingsAlone
<1>1. IInv /\ [Next]_vars =>
        [file' # file \/ colors' # colors => worker = "none" /\ Pending = <<>>]_vars
  <2> SUFFICES ASSUME IInv, Next, file' # file \/ colors' # colors
               PROVE  worker = "none" /\ Pending = <<>>
    OBVIOUS
  <2>1. SetFile \/ SetColors
    BY DEF Next, AddDiscarded, AddEntry, SetFlag, Worker, WorkerSleep, WorkerTake,
           WorkerPrint, WorkerWrite, Operate, PausedBefore, Pause, Resume, Control,
           Join, EndPause, Flush, Free, ResumeAfter
  <2>2. worker = "none"
    BY <2>1 DEF SetFile, SetColors, IInv, ControlInv
  <2> QED  BY <2>2, NothingWaits
<1> QED  BY <1>1, Invariance, PTL DEF Spec, SettingsAlone
=============================================================================
