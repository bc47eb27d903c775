---------------------------- MODULE KVCacheProofs ----------------------------
(***************************************************************************)
(* Theorems about KVCache, at the end of the module: for any number of     *)
(* cells, sequences and positions, any size of ubatches and any window,    *)
(*   IndicesAlwaysAgree       the indices of the cells tell of the cells   *)
(*   DecodeMovesNothing       no shift is pending while decode runs        *)
(*   VisibleNeverOverwritten  no ubatch takes a token that is attended to  *)
(*   GapsNeverLeft            nor leaves a gap in a sequence               *)
(*   SlotsAlwaysTakenBack     prepare changes nothing, without a window    *)
(*   DataAlwaysFollowsCells   the rows are rotated to where the cells are  *)
(*   TypesAlwaysRight         the variables have their types               *)
(* Before them, about the cells alone: SetIndexed, that replacing contents *)
(* of cells keeps the indices right, and what LeaveGood, PutGood,          *)
(* SeqAddGood, MoveGood, PosAddGood, PosDivGood and ResetShiftGood make of *)
(* it for the operations of KVCells.                                       *)
(*                                                                         *)
(* The inductive invariant has five parts.  Inv: every stream's cells are  *)
(* right, none has a pending shift while decode runs, the slots and the    *)
(* saved cells are in range.  StackInv: the entries of states belong to    *)
(* the first of sinfos.  PlanInv: the slots that prepare has found are     *)
(* right for the cells as they will be once the stack is popped (Undone),  *)
(* although prepare looks for them among other contents.  TakenInv: Undone *)
(* is what the sequences held before, without a window.  RowsInv: the rows *)
(* follow Undone, and between calls the cells.                             *)
(***************************************************************************)
EXTENDS KVCache, FiniteSetTheorems, SequenceTheorems, WellFoundedInduction, TLAPS

-----------------------------------------------------------------------------
(* The cells *)

\* The indices, without what concerns the shifts.
Indexed(c) ==
    /\ c \in CellsType
    /\ c.used = Nonempty(c)
    /\ \A s \in Seqs, p \in Positions : c.seq_pos[s][p] = Cardinality(At(c, Cells, s, p))
    /\ \A i \in Cells : c.pos[i] = -1 <=> c.seq[i] = {}

\* The shifts: none in an empty cell, and none without the flag.
Settled(c) ==
    /\ \A i \in Cells : c.pos[i] = -1 => c.shift[i] = 0
    /\ ~c.has_shift => \A i \in Cells : c.shift[i] = 0

\* No shift is pending.
Unshifted(c) == \A i \in Cells : c.shift[i] = 0

\* Contents that Set may give to cells.
Contents(new) ==
    /\ DOMAIN new \subseteq Cells
    /\ new \in [DOMAIN new -> Cell]
    /\ \A i \in DOMAIN new : new[i].pos = -1 <=> new[i].seq = {}

Good(c) == Indexed(c) /\ Settled(c)

\* Good is the type of the cells and their representation.
LEMMA GoodMeans ==
    ASSUME NEW c
    PROVE  Good(c) <=> c \in CellsType /\ Representation(c)
BY DEF Good, Indexed, Settled, Representation

\* The cells are finitely many, so those of a sequence at a position can be counted.
LEMMA CellsFinite ==
    ASSUME NEW R \in SUBSET Cells
    PROVE  IsFiniteSet(R) /\ Cardinality(R) \in Nat
<1>1. IsFiniteSet(Cells)
  BY CellsAssumption, FS_Interval DEF Cells
<1>2. IsFiniteSet(R)
  BY <1>1, FS_Subset
<1>3. QED
  BY <1>2, FS_CardinalityType

\* Taking B out of A and putting E in changes the count by what is taken and put in.
LEMMA Recount ==
    ASSUME NEW A \in SUBSET Cells, NEW B \in SUBSET A, NEW E \in SUBSET Cells,
           (A \ B) \cap E = {}
    PROVE  Cardinality((A \ B) \cup E) = (Cardinality(A) - Cardinality(B)) + Cardinality(E)
<1>1. /\ IsFiniteSet(A) /\ IsFiniteSet(B) /\ IsFiniteSet(E)
      /\ Cardinality(A) \in Nat /\ Cardinality(B) \in Nat /\ Cardinality(E) \in Nat
  BY CellsFinite
<1>2. IsFiniteSet(A \ B) /\ Cardinality(A \ B) = Cardinality(A) - Cardinality(A \cap B)
  BY <1>1, FS_Difference
<1>3. A \cap B = B
  OBVIOUS
<1>4. Cardinality((A \ B) \cup E)
         = Cardinality(A \ B) + Cardinality(E) - Cardinality((A \ B) \cap E)
  <2> DEFINE S == A \ B
  <2>1. IsFiniteSet(S) /\ IsFiniteSet(E)
    BY <1>1, <1>2
  <2> HIDE DEF S
  <2>2. Cardinality(S \cup E) = Cardinality(S) + Cardinality(E) - Cardinality(S \cap E)
    BY <2>1, FS_Union
  <2>3. QED
    BY <2>2 DEF S
<1>5. Cardinality({}) = 0
  BY FS_EmptySet
<1>6. Cardinality((A \ B) \cap E) = 0
  BY <1>5
<1>7. Cardinality(A \ B) = Cardinality(A) - Cardinality(B)
  BY <1>2, <1>3
<1>8. QED
  BY <1>1, <1>4, <1>6, <1>7

LEMMA SetFields ==
    ASSUME NEW c \in CellsType, NEW new
    PROVE  LET d == Set(c, new)
           IN  /\ d.pos  = [i \in Cells |-> IF i \in DOMAIN new THEN new[i].pos ELSE c.pos[i]]
               /\ d.seq  = [i \in Cells |-> IF i \in DOMAIN new THEN new[i].seq ELSE c.seq[i]]
               /\ d.used = (c.used \ DOMAIN new) \cup {i \in DOMAIN new : new[i].pos # -1}
               /\ d.seq_pos = [s \in Seqs |-> [p \in Positions |->
                        (c.seq_pos[s][p] - Cardinality(At(c, DOMAIN new, s, p)))
                        + Cardinality(Entries(new, s, p))]]
               /\ d.shift = c.shift /\ d.has_shift = c.has_shift
               /\ /\ d.pos \in [Cells -> Positions \cup {-1}] /\ d.seq \in [Cells -> SUBSET Seqs]
                  /\ d.used \in SUBSET Cells /\ d.seq_pos \in [Seqs -> [Positions -> Nat]]
                  => d \in CellsType
BY DEF Set, CellsType

\* Replacing the contents of cells keeps the indices right: used and seq_pos change by
\* what the cells lose and get (set, and the helpers seq_pos_rm and seq_pos_add).
THEOREM SetIndexed ==
    ASSUME NEW c, NEW new, Indexed(c), Contents(new)
    PROVE  /\ Indexed(Set(c, new))
           /\ Set(c, new).shift = c.shift
           /\ Set(c, new).has_shift = c.has_shift
<1> DEFINE d == Set(c, new)
<1>1. c \in CellsType
  BY DEF Indexed
<1> HIDE DEF d
<1>2. /\ d.pos  = [i \in Cells |-> IF i \in DOMAIN new THEN new[i].pos ELSE c.pos[i]]
      /\ d.seq  = [i \in Cells |-> IF i \in DOMAIN new THEN new[i].seq ELSE c.seq[i]]
      /\ d.used = (c.used \ DOMAIN new) \cup {i \in DOMAIN new : new[i].pos # -1}
      /\ d.seq_pos = [s \in Seqs |-> [p \in Positions |->
               (c.seq_pos[s][p] - Cardinality(At(c, DOMAIN new, s, p)))
               + Cardinality(Entries(new, s, p))]]
      /\ d.shift = c.shift /\ d.has_shift = c.has_shift
      /\ /\ d.pos \in [Cells -> Positions \cup {-1}] /\ d.seq \in [Cells -> SUBSET Seqs]
         /\ d.used \in SUBSET Cells /\ d.seq_pos \in [Seqs -> [Positions -> Nat]]
         => d \in CellsType
  BY <1>1, SetFields DEF d
<1>3. \A s \in Seqs, p \in Positions :
         d.seq_pos[s][p] = Cardinality(At(d, Cells, s, p)) /\ d.seq_pos[s][p] \in Nat
  <2> SUFFICES ASSUME NEW s \in Seqs, NEW p \in Positions
               PROVE  d.seq_pos[s][p] = Cardinality(At(d, Cells, s, p)) /\ d.seq_pos[s][p] \in Nat
    OBVIOUS
  <2> DEFINE A == At(c, Cells, s, p)
             B == At(c, DOMAIN new, s, p)
             E == Entries(new, s, p)
  <2>1. A \in SUBSET Cells /\ B \in SUBSET A /\ E \in SUBSET DOMAIN new /\ E \in SUBSET Cells
    BY DEF At, Entries, Contents
  <2>2. (A \ B) \cap DOMAIN new = {}
    BY DEF At
  <2>3. At(d, Cells, s, p) = (A \ B) \cup E
    BY <1>2 DEF At, Entries, Contents
  <2>4. c.seq_pos[s][p] = Cardinality(A)
    BY DEF Indexed
  <2>5. d.seq_pos[s][p] = (c.seq_pos[s][p] - Cardinality(B)) + Cardinality(E)
    BY <1>2
  <2> HIDE DEF A, B, E
  <2>6. Cardinality((A \ B) \cup E) = (Cardinality(A) - Cardinality(B)) + Cardinality(E)
    BY <2>1, <2>2, Recount
  <2>7. Cardinality(At(d, Cells, s, p)) \in Nat
    BY CellsFinite DEF At
  <2>8. QED
    BY <2>3, <2>4, <2>5, <2>6, <2>7
<1>4. /\ d.pos \in [Cells -> Positions \cup {-1}]
      /\ d.seq \in [Cells -> SUBSET Seqs]
  BY <1>1, <1>2 DEF CellsType, Contents, Cell
<1>5. d.used = Nonempty(d) /\ d.used \in SUBSET Cells
  BY <1>2, <1>4 DEF Indexed, Nonempty, Contents
<1>6. d.seq_pos \in [Seqs -> [Positions -> Nat]]
  BY <1>2, <1>3
<1>7. d \in CellsType
  BY <1>2, <1>4, <1>5, <1>6
<1>8. \A i \in Cells : d.pos[i] = -1 <=> d.seq[i] = {}
  BY <1>2 DEF Indexed, Contents
<1>9. QED
  BY <1>2, <1>3, <1>5, <1>7, <1>8 DEF Indexed, d

-----------------------------------------------------------------------------
(* The operations *)

LEMMA ShiftedIndexed ==
    ASSUME NEW c, Indexed(c), NEW R \in SUBSET Cells, NEW by \in [R -> Int]
    PROVE  LET d == Shifted(c, by)
           IN  /\ Indexed(d)
               /\ d.shift = [i \in Cells |-> IF i \in R THEN by[i] ELSE c.shift[i]]
               /\ d.pos = c.pos /\ d.seq = c.seq /\ d.has_shift = c.has_shift
<1> DEFINE d == Shifted(c, by)
<1>1. c \in CellsType
  BY DEF Indexed
<1>2. /\ d.pos = c.pos /\ d.seq = c.seq /\ d.used = c.used /\ d.seq_pos = c.seq_pos
      /\ d.has_shift = c.has_shift
      /\ d.shift = [i \in Cells |-> IF i \in R THEN by[i] ELSE c.shift[i]]
      /\ d \in CellsType
  BY <1>1 DEF Shifted, CellsType
<1> HIDE DEF d
<1>3. Indexed(d)
  BY <1>2 DEF Indexed, Nonempty, At
<1>4. QED
  BY <1>2, <1>3 DEF d

\* A fresh cache is right.
THEOREM ResetGood == Good(Reset) /\ Unshifted(Reset) /\ ~Reset.has_shift
<1>1. \A s \in Seqs, p \in Positions : At(Reset, Cells, s, p) = {}
  BY DEF At, Reset
<1>2. Cardinality({}) = 0
  BY FS_EmptySet
<1>3. Reset \in CellsType
  BY DEF Reset, CellsType
<1>4. Nonempty(Reset) = {} /\ \A i \in Cells : Reset.pos[i] = -1 /\ Reset.seq[i] = {}
  BY DEF Reset, Nonempty
<1>5. \A s \in Seqs, p \in Positions : Reset.seq_pos[s][p] = 0
  BY DEF Reset
<1>6. Reset.used = {} /\ ~Reset.has_shift /\ \A i \in Cells : Reset.shift[i] = 0
  BY DEF Reset
<1>7. Indexed(Reset)
  BY <1>1, <1>2, <1>3, <1>4, <1>5, <1>6 DEF Indexed
<1>8. QED
  BY <1>6, <1>7 DEF Good, Settled, Unshifted

\* Taking sequences out of cells keeps the representation (rm, seq_rm, seq_keep): a
\* cell loses its position, its place in used and its shift with its last sequence.
THEOREM LeaveGood ==
    ASSUME NEW c, Good(c), NEW gone, DOMAIN gone \subseteq Cells
    PROVE  /\ Good(Leave(c, gone))
           /\ Unshifted(c) => Unshifted(Leave(c, gone))
           /\ Leave(c, gone).has_shift = c.has_shift
<1> DEFINE Left(i) == c.seq[i] \ gone[i]
           emptied == {i \in DOMAIN gone : Left(i) = {}}
           new     == [i \in DOMAIN gone |->
                         IF i \in emptied THEN NoCell ELSE [pos |-> c.pos[i], seq |-> Left(i)]]
           zero    == [i \in emptied |-> 0]
           d       == Set(c, new)
<1>1. Leave(c, gone) = Shifted(d, zero)
  BY DEF Leave
<1>2. Indexed(c) /\ c \in CellsType
  BY DEF Good, Indexed
<1>3. \A i \in DOMAIN gone : i \notin emptied => c.pos[i] # -1 /\ Left(i) \in SUBSET Seqs
  BY <1>2 DEF Indexed, CellsType
<1>4. Contents(new)
  <2>1. \A i \in DOMAIN gone : new[i] \in Cell
    BY <1>2, <1>3 DEF Cell, NoCell, CellsType
  <2>2. \A i \in DOMAIN gone : new[i].pos = -1 <=> new[i].seq = {}
    BY <1>3 DEF NoCell
  <2>3. QED
    BY <2>1, <2>2 DEF Contents
<1>5. /\ d.pos = [i \in Cells |-> IF i \in DOMAIN new THEN new[i].pos ELSE c.pos[i]]
      /\ Indexed(d) /\ d.shift = c.shift /\ d.has_shift = c.has_shift
  BY <1>2, <1>4, SetIndexed, SetFields
<1>6. \A i \in Cells : d.pos[i] = -1 /\ i \notin emptied => c.pos[i] = -1
  BY <1>3, <1>5
<1>7. emptied \in SUBSET Cells /\ zero \in [emptied -> Int]
  OBVIOUS
<1> HIDE DEF d, zero, emptied
<1>8. LET e == Shifted(d, zero)
      IN  /\ Indexed(e)
          /\ e.shift = [i \in Cells |-> IF i \in emptied THEN zero[i] ELSE d.shift[i]]
          /\ e.pos = d.pos /\ e.has_shift = d.has_shift
  BY <1>5, <1>7, ShiftedIndexed
<1>9. \A i \in Cells : Shifted(d, zero).shift[i] = IF i \in emptied THEN 0 ELSE c.shift[i]
  BY <1>5, <1>8 DEF zero
<1>10. QED
  BY <1>1, <1>5, <1>6, <1>8, <1>9 DEF Good, Settled, Unshifted

\* Placing tokens of the sequences S keeps the representation (pos_set, seq_add).
THEOREM PutGood ==
    ASSUME NEW c, Good(c), NEW R \in SUBSET Cells, NEW place \in [R -> Positions],
           NEW S \in SUBSET Seqs, S # {}
    PROVE  /\ Good(Put(c, place, S))
           /\ Unshifted(c) => Unshifted(Put(c, place, S))
           /\ Put(c, place, S).has_shift = c.has_shift
           /\ Put(c, place, S).shift = c.shift
<1> DEFINE new == [i \in DOMAIN place |-> [pos |-> place[i], seq |-> S]]
<1>1. \A p \in Positions : p # -1
  BY CellsAssumption DEF Positions
<1>2. Contents(new)
  BY <1>1 DEF Contents, Cell
<1>3. c \in CellsType /\ Indexed(c)
  BY DEF Good, Indexed
<1> HIDE DEF new
<1>4. /\ Set(c, new).pos = [i \in Cells |-> IF i \in DOMAIN new THEN new[i].pos ELSE c.pos[i]]
      /\ Indexed(Set(c, new))
      /\ Set(c, new).shift = c.shift /\ Set(c, new).has_shift = c.has_shift
  BY <1>2, <1>3, SetIndexed, SetFields
<1>5. \A i \in Cells : Set(c, new).pos[i] = -1 => c.pos[i] = -1
  BY <1>1, <1>4 DEF new
<1>6. QED
  BY <1>4, <1>5 DEF Good, Settled, Unshifted, Put, new

\* Adding a sequence to cells it is not in keeps the representation (seq_add).
THEOREM SeqAddGood ==
    ASSUME NEW c, Good(c), NEW s \in Seqs, NEW R \in SUBSET Nonempty(c),
           R \cap Owned(c, s) = {}
    PROVE  Good(SeqAdd(c, R, s))
<1> DEFINE d == SeqAdd(c, R, s)
           Put1(p) == {i \in R : c.pos[i] = p}
<1>1. c \in CellsType /\ Indexed(c) /\ Settled(c) /\ R \in SUBSET Cells
  BY DEF Good, Indexed, Nonempty
<1>2. \A p \in Positions : Put1(p) \in SUBSET Cells /\ Cardinality(Put1(p)) \in Nat
  BY <1>1, CellsFinite
<1>3. /\ d.pos = c.pos /\ d.used = c.used /\ d.shift = c.shift /\ d.has_shift = c.has_shift
      /\ d.seq = [i \in Cells |-> IF i \in R THEN c.seq[i] \cup {s} ELSE c.seq[i]]
      /\ d.seq_pos = [r \in Seqs |-> [p \in Positions |->
             IF r = s THEN c.seq_pos[r][p] + Cardinality(Put1(p)) ELSE c.seq_pos[r][p]]]
  BY <1>1 DEF SeqAdd, CellsType
<1>4. d \in CellsType
  <2>1. d.seq \in [Cells -> SUBSET Seqs]
    BY <1>1, <1>3 DEF CellsType
  <2>2. d.seq_pos \in [Seqs -> [Positions -> Nat]]
    BY <1>1, <1>2, <1>3 DEF CellsType
  <2>3. QED
    BY <1>1, <1>3, <2>1, <2>2 DEF SeqAdd, CellsType
<1> HIDE DEF d
<1>5. \A r \in Seqs, p \in Positions : d.seq_pos[r][p] = Cardinality(At(d, Cells, r, p))
  <2> SUFFICES ASSUME NEW r \in Seqs, NEW p \in Positions
               PROVE  d.seq_pos[r][p] = Cardinality(At(d, Cells, r, p))
    OBVIOUS
  <2>1. c.seq_pos[r][p] = Cardinality(At(c, Cells, r, p))
    BY <1>1 DEF Indexed
  <2>2. CASE r = s
    <3> DEFINE A == At(c, Cells, s, p)
               B == {}
               E == Put1(p)
    <3>1. At(d, Cells, s, p) = (A \ B) \cup E
      BY <1>1, <1>3 DEF At
    <3>2. (A \ B) \cap E = {}
      BY <1>1 DEF At, Owned
    <3>3. A \in SUBSET Cells /\ B \in SUBSET A /\ E \in SUBSET Cells
      BY <1>1 DEF At
    <3>4. Cardinality(B) = 0
      BY FS_EmptySet
    <3>5. Cardinality(A) \in Nat /\ Cardinality(E) \in Nat
      BY <3>3, CellsFinite
    <3>6. d.seq_pos[r][p] = Cardinality(A) + Cardinality(E)
      BY <1>3, <2>1, <2>2
    <3> HIDE DEF A, B, E
    <3>7. Cardinality((A \ B) \cup E) = (Cardinality(A) - Cardinality(B)) + Cardinality(E)
      BY <3>2, <3>3, Recount
    <3>8. QED
      BY <2>2, <3>1, <3>4, <3>5, <3>6, <3>7
  <2>3. CASE r # s
    <3>1. At(d, Cells, r, p) = At(c, Cells, r, p)
      BY <1>3, <2>3 DEF At
    <3>2. QED
      BY <1>3, <2>1, <2>3, <3>1
  <2>4. QED
    BY <2>2, <2>3
<1>6. d.used = Nonempty(d) /\ \A i \in Cells : d.pos[i] = -1 <=> d.seq[i] = {}
  BY <1>1, <1>3 DEF Indexed, Nonempty
<1>7. Settled(d)
  BY <1>1, <1>3 DEF Settled
<1>8. QED
  BY <1>4, <1>5, <1>6, <1>7 DEF Good, Indexed, d

LEMMA FlagIndexed ==
    ASSUME NEW c, Indexed(c), NEW b \in BOOLEAN
    PROVE  LET d == [c EXCEPT !.has_shift = b]
           IN  /\ Indexed(d) /\ d.has_shift = b
               /\ d.pos = c.pos /\ d.seq = c.seq /\ d.shift = c.shift
<1> DEFINE d == [c EXCEPT !.has_shift = b]
<1>1. c \in CellsType
  BY DEF Indexed
<1>2. /\ d.pos = c.pos /\ d.seq = c.seq /\ d.used = c.used /\ d.seq_pos = c.seq_pos
      /\ d.shift = c.shift /\ d.has_shift = b /\ d \in CellsType
  BY <1>1 DEF CellsType
<1> HIDE DEF d
<1>3. Indexed(d)
  BY <1>2 DEF Indexed, Nonempty, At
<1>4. QED
  BY <1>2, <1>3 DEF d

\* Moving cells to other positions keeps the representation (pos_add, pos_div): the
\* flag is raised, and an empty cell gets no shift.
THEOREM MoveGood ==
    ASSUME NEW c, Good(c), NEW R \in SUBSET Nonempty(c),
           NEW place \in [R -> Positions], NEW by \in [R -> Int]
    PROVE  Good(Move(c, place, by))
<1> DEFINE new   == [i \in DOMAIN place |-> [pos |-> place[i], seq |-> c.seq[i]]]
           total == [i \in DOMAIN place |-> c.shift[i] + by[i]]
           d == Set(c, new)
           e == Shifted(d, total)
           f == [e EXCEPT !.has_shift = e.has_shift \/ R # {}]
<1>1. c \in CellsType /\ Indexed(c) /\ Settled(c) /\ R \in SUBSET Cells
  BY DEF Good, Indexed, Nonempty
<1>2. Move(c, place, by) = f
  BY DEF Move
<1>3. Contents(new)
  <2>1. \A i \in R : new[i] \in Cell
    BY <1>1 DEF Cell, CellsType
  <2>2. \A i \in R : new[i].pos # -1 /\ new[i].seq # {}
    BY <1>1, CellsAssumption DEF Indexed, Nonempty, Positions
  <2>3. QED
    BY <1>1, <2>1, <2>2 DEF Contents
<1>4. total \in [R -> Int]
  BY <1>1 DEF CellsType
<1> HIDE DEF new, total
<1>5. /\ d.pos = [i \in Cells |-> IF i \in DOMAIN new THEN new[i].pos ELSE c.pos[i]]
      /\ Indexed(d) /\ d.shift = c.shift /\ d.has_shift = c.has_shift
  BY <1>1, <1>3, SetIndexed, SetFields
<1> HIDE DEF d
<1>6. /\ Indexed(e) /\ e.pos = d.pos /\ e.has_shift = d.has_shift
      /\ e.shift = [i \in Cells |-> IF i \in R THEN total[i] ELSE d.shift[i]]
  BY <1>1, <1>4, <1>5, ShiftedIndexed
<1> HIDE DEF e
<1>7. (e.has_shift \/ R # {}) \in BOOLEAN
  BY <1>6 DEF Indexed, CellsType
<1>8. /\ Indexed(f) /\ f.pos = e.pos /\ f.shift = e.shift
      /\ f.has_shift = (e.has_shift \/ R # {})
  BY <1>6, <1>7, FlagIndexed
<1> HIDE DEF f
<1>9. \A i \in R : d.pos[i] # -1
  BY <1>1, <1>5, CellsAssumption DEF new, Positions
<1>10. \A i \in Cells : f.pos[i] = -1 => i \notin R /\ c.pos[i] = -1
  BY <1>5, <1>6, <1>8, <1>9 DEF new
<1>11. \A i \in Cells : f.pos[i] = -1 => f.shift[i] = 0
  BY <1>1, <1>5, <1>6, <1>8, <1>10 DEF Settled
<1>12. ~f.has_shift => \A i \in Cells : f.shift[i] = 0
  <2> SUFFICES ASSUME ~f.has_shift
               PROVE  \A i \in Cells : f.shift[i] = 0
    OBVIOUS
  <2>1. ~e.has_shift /\ R = {}
    BY <1>8
  <2>2. ~c.has_shift
    BY <1>5, <1>6, <2>1
  <2>3. QED
    BY <1>1, <1>5, <1>6, <1>8, <2>1, <2>2 DEF Settled
<1>13. QED
  BY <1>2, <1>8, <1>11, <1>12 DEF Good, Settled

LEMMA LeaveFields ==
    ASSUME NEW c, Good(c), NEW gone, DOMAIN gone \subseteq Cells
    PROVE  \A i \in Cells \ DOMAIN gone : Leave(c, gone).pos[i] = c.pos[i]
<1> DEFINE emptied == {i \in DOMAIN gone : c.seq[i] \ gone[i] = {}}
           new == [i \in DOMAIN gone |->
                     IF i \in emptied THEN NoCell ELSE [pos |-> c.pos[i], seq |-> c.seq[i] \ gone[i]]]
           zero == [i \in emptied |-> 0]
<1>1. c \in CellsType
  BY DEF Good, Indexed
<1>2. Leave(c, gone) = Shifted(Set(c, new), zero)
  BY DEF Leave
<1> HIDE DEF new, zero
<1>3. Set(c, new).pos = [i \in Cells |-> IF i \in DOMAIN new THEN new[i].pos ELSE c.pos[i]]
  BY <1>1, SetFields
<1>4. Shifted(Set(c, new), zero).pos = Set(c, new).pos
  BY <1>1 DEF Shifted, Set, CellsType
<1>5. QED
  BY <1>2, <1>3, <1>4 DEF new

\* pos_add keeps the representation, also where it empties cells whose positions
\* become negative.
THEOREM PosAddGood ==
    ASSUME NEW c, Good(c), NEW R \in SUBSET Nonempty(c), NEW n \in Int,
           \A i \in R : c.pos[i] + n <= MaxPos
    PROVE  Good(PosAdd(c, R, n))
<1> DEFINE negative == {i \in R : c.pos[i] + n < 0}
           kept     == R \ negative
           gone     == [i \in negative |-> c.seq[i]]
           place    == [i \in kept |-> c.pos[i] + n]
           by       == [i \in kept |-> n]
           d == Rm(c, negative)
           e == Move(d, place, by)
           f == [e EXCEPT !.has_shift = e.has_shift \/ R # {}]
<1>1. PosAdd(c, R, n) = f
  BY DEF PosAdd
<1>2. c \in CellsType /\ R \in SUBSET Cells
  BY DEF Good, Indexed, Nonempty
<1>3. d = Leave(c, gone) /\ DOMAIN gone \subseteq Cells
  BY <1>2 DEF Rm
<1>4. Good(d) /\ \A i \in kept : d.pos[i] = c.pos[i]
  <2>1. Good(d)
    BY <1>3, LeaveGood
  <2>2. kept \subseteq Cells \ DOMAIN gone
    BY <1>2
  <2>3. \A i \in Cells \ DOMAIN gone : Leave(c, gone).pos[i] = c.pos[i]
    BY <1>3, LeaveFields
  <2>4. QED
    BY <1>3, <2>1, <2>2, <2>3
<1>5. kept \in SUBSET Nonempty(d)
  BY <1>2, <1>4 DEF Nonempty
<1>6. place \in [kept -> Positions] /\ by \in [kept -> Int]
  BY <1>2, CellsAssumption DEF Positions, CellsType, Nonempty
<1> HIDE DEF d, kept, place, by
<1>7. Good(e)
  BY <1>4, <1>5, <1>6, MoveGood
<1> HIDE DEF e
<1>8. (e.has_shift \/ R # {}) \in BOOLEAN
  BY <1>7 DEF Good, Indexed, CellsType
<1>9. /\ Indexed(f) /\ f.pos = e.pos /\ f.shift = e.shift
      /\ f.has_shift = (e.has_shift \/ R # {})
  BY <1>7, <1>8, FlagIndexed DEF Good
<1> HIDE DEF f
<1>10. QED
  BY <1>1, <1>7, <1>9 DEF Good, Settled

\* pos_div keeps the representation.
THEOREM PosDivGood ==
    ASSUME NEW c, Good(c), NEW R \in SUBSET Nonempty(c), NEW n \in Nat \ {0}
    PROVE  Good(PosDiv(c, R, n))
<1> DEFINE place == [i \in R |-> c.pos[i] \div n]
           by    == [i \in R |-> c.pos[i] - (c.pos[i] \div n)]
<1>1. c \in CellsType /\ R \in SUBSET Cells
  BY DEF Good, Indexed, Nonempty
<1>2. \A p \in Nat : p \div n \in 0 .. p
  OBVIOUS
<1>3. \A i \in R : c.pos[i] \in Positions
  BY <1>1 DEF CellsType, Nonempty
<1>4. place \in [R -> Positions] /\ by \in [R -> Int]
  BY <1>2, <1>3, CellsAssumption DEF Positions
<1> HIDE DEF place, by
<1>5. Good(Move(c, place, by))
  BY <1>4, MoveGood
<1>6. QED
  BY <1>5 DEF PosDiv, place, by

\* reset_shift keeps the representation and leaves no shift.
THEOREM ResetShiftGood ==
    ASSUME NEW c, Good(c)
    PROVE  Good(ResetShift(c)) /\ Unshifted(ResetShift(c))
<1> DEFINE d == ResetShift(c)
<1>1. c \in CellsType /\ Indexed(c)
  BY DEF Good, Indexed
<1>2. /\ d.pos = c.pos /\ d.seq = c.seq /\ d.used = c.used /\ d.seq_pos = c.seq_pos
      /\ d.shift = [i \in Cells |-> 0] /\ d \in CellsType
  <2>1. [i \in Cells |-> 0] \in [Cells -> Int]
    OBVIOUS
  <2>2. QED
    BY <1>1, <2>1 DEF ResetShift, CellsType
<1> HIDE DEF d
<1>3. Indexed(d)
  BY <1>1, <1>2 DEF Indexed, Nonempty, At
<1>4. QED
  BY <1>2, <1>3 DEF Good, Settled, Unshifted, d

-----------------------------------------------------------------------------
(* What the operations leave in a cell.  The position and the shift of a cell that is   *)
(* right (Good) are -1 and 0 when it has no sequence, so they are only stated for those *)
(* that have one.                                                                       *)

\* Leave takes the sequences gone out of cells and changes nothing else.
LEMMA LeaveContents ==
    ASSUME NEW c, Good(c), NEW gone, DOMAIN gone \subseteq Cells
    PROVE  \A i \in Cells :
             /\ Leave(c, gone).seq[i]
                  = IF i \in DOMAIN gone THEN c.seq[i] \ gone[i] ELSE c.seq[i]
             /\ Leave(c, gone).seq[i] # {} =>
                  /\ Leave(c, gone).pos[i] = c.pos[i]
                  /\ Leave(c, gone).shift[i] = c.shift[i]
<1> DEFINE emptied == {i \in DOMAIN gone : c.seq[i] \ gone[i] = {}}
           new == [i \in DOMAIN gone |->
                     IF i \in emptied THEN NoCell ELSE [pos |-> c.pos[i], seq |-> c.seq[i] \ gone[i]]]
           zero == [i \in emptied |-> 0]
           d == Set(c, new)
           e == Shifted(d, zero)
<1>1. c \in CellsType
  BY DEF Good, Indexed
<1>2. Leave(c, gone) = e
  BY DEF Leave
<1>3. \A i \in DOMAIN gone : /\ new[i].seq = c.seq[i] \ gone[i]
                             /\ new[i].seq # {} => new[i].pos = c.pos[i]
  BY DEF NoCell
<1>4. DOMAIN new = DOMAIN gone
  OBVIOUS
<1> HIDE DEF new
<1>5. /\ d.pos = [i \in Cells |-> IF i \in DOMAIN new THEN new[i].pos ELSE c.pos[i]]
      /\ d.seq = [i \in Cells |-> IF i \in DOMAIN new THEN new[i].seq ELSE c.seq[i]]
      /\ d.shift = c.shift
  BY <1>1, SetFields
<1>6. /\ e.pos = d.pos /\ e.seq = d.seq
      /\ e.shift = [i \in Cells |-> IF i \in emptied THEN 0 ELSE c.shift[i]]
  <2>1. /\ e.pos = d.pos /\ e.seq = d.seq
        /\ e.shift = [i \in Cells |-> IF i \in DOMAIN zero THEN zero[i] ELSE d.shift[i]]
    BY <1>1 DEF Shifted, Set, CellsType
  <2>2. QED
    BY <1>5, <2>1
<1> HIDE DEF d, e, zero
<1>7. \A i \in Cells :
         /\ e.seq[i] = IF i \in DOMAIN gone THEN c.seq[i] \ gone[i] ELSE c.seq[i]
         /\ e.seq[i] # {} => e.pos[i] = c.pos[i]
  <2>1. \A i \in Cells :
           /\ e.seq[i] = IF i \in DOMAIN gone THEN new[i].seq ELSE c.seq[i]
           /\ e.pos[i] = IF i \in DOMAIN gone THEN new[i].pos ELSE c.pos[i]
    BY <1>4, <1>5, <1>6
  <2>2. QED
    BY <1>3, <2>1
<1>8. \A i \in Cells : e.seq[i] # {} => i \notin emptied
  BY <1>7
<1> HIDE DEF emptied
<1>9. \A i \in Cells : e.seq[i] # {} => e.shift[i] = c.shift[i]
  BY <1>6, <1>8
<1>10. QED
  BY <1>2, <1>7, <1>9

\* What Set leaves in a cell.
LEMMA SetContents ==
    ASSUME NEW c \in CellsType, NEW new
    PROVE  \A i \in Cells :
             /\ Set(c, new).pos[i] = IF i \in DOMAIN new THEN new[i].pos ELSE c.pos[i]
             /\ Set(c, new).seq[i] = IF i \in DOMAIN new THEN new[i].seq ELSE c.seq[i]
             /\ Set(c, new).shift[i] = c.shift[i]
<1> DEFINE d == Set(c, new)
<1>1. /\ d.pos = [i \in Cells |-> IF i \in DOMAIN new THEN new[i].pos ELSE c.pos[i]]
      /\ d.seq = [i \in Cells |-> IF i \in DOMAIN new THEN new[i].seq ELSE c.seq[i]]
      /\ d.shift = c.shift
  BY SetFields
<1> HIDE DEF d
<1>2. QED
  BY <1>1 DEF d

\* What Put leaves in a cell.
LEMMA PutContents ==
    ASSUME NEW c \in CellsType, NEW place, NEW S
    PROVE  \A i \in Cells :
             /\ Put(c, place, S).pos[i] = IF i \in DOMAIN place THEN place[i] ELSE c.pos[i]
             /\ Put(c, place, S).seq[i] = IF i \in DOMAIN place THEN S ELSE c.seq[i]
             /\ Put(c, place, S).shift[i] = c.shift[i]
BY SetContents DEF Put

\* What pos_add and pos_div leave in a cell.
LEMMA MoveContents ==
    ASSUME NEW c \in CellsType, NEW place, NEW by
    PROVE  \A i \in Cells :
             /\ Move(c, place, by).pos[i] = IF i \in DOMAIN place THEN place[i] ELSE c.pos[i]
             /\ Move(c, place, by).seq[i] = c.seq[i]
             /\ Move(c, place, by).shift[i]
                  = IF i \in DOMAIN place THEN c.shift[i] + by[i] ELSE c.shift[i]
<1> DEFINE new   == [i \in DOMAIN place |-> [pos |-> place[i], seq |-> c.seq[i]]]
           total == [i \in DOMAIN place |-> c.shift[i] + by[i]]
           d == Set(c, new)
<1>1. /\ d.pos = [i \in Cells |-> IF i \in DOMAIN new THEN new[i].pos ELSE c.pos[i]]
      /\ d.seq = [i \in Cells |-> IF i \in DOMAIN new THEN new[i].seq ELSE c.seq[i]]
      /\ d.shift = c.shift
  <2> HIDE DEF new
  <2>1. QED
    BY SetFields
<1>2. /\ Move(c, place, by).pos = d.pos /\ Move(c, place, by).seq = d.seq
      /\ Move(c, place, by).shift
           = [i \in Cells |-> IF i \in DOMAIN total THEN total[i] ELSE d.shift[i]]
  BY DEF Move, Shifted, Set, CellsType
<1> HIDE DEF d
<1>3. QED
  BY <1>1, <1>2

-----------------------------------------------------------------------------
(* The smallest and the largest of a set *)

Less == OpToRel(<, Nat)

LEMMA LessMeans == \A x, y \in Nat : <<x, y>> \in Less <=> x < y
BY DEF Less, OpToRel

LEMMA LessWellFounded == IsWellFoundedOn(Less, Nat)
BY NatLessThanWellFounded DEF Less

LEMMA HasSmallest ==
    ASSUME NEW S \in SUBSET Nat, S # {}
    PROVE  \E x \in S : \A y \in S : x <= y
<1>1. PICK x \in S : \A y \in S : <<y, x>> \notin Less
  BY LessWellFounded, WFMin
<1>2. \A y \in S : ~(y < x)
  BY <1>1, LessMeans
<1>3. QED
  BY <1>2

LEMMA SmallestIn ==
    ASSUME NEW S \in SUBSET Nat, S # {}
    PROVE  Smallest(S) \in S
BY HasSmallest DEF Smallest

LEMMA HasLargest ==
    ASSUME NEW S \in SUBSET Positions, S # {}
    PROVE  \E x \in S : \A y \in S : y <= x
<1> DEFINE T == {MaxPos - p : p \in S}
<1>1. T \in SUBSET Nat /\ T # {}
  BY CellsAssumption DEF Positions
<1>2. PICK x \in T : \A y \in T : x <= y
  BY <1>1, HasSmallest
<1>3. PICK p \in S : x = MaxPos - p
  BY <1>2
<1>4. \A q \in S : q <= p
  <2> SUFFICES ASSUME NEW q \in S PROVE q <= p
    OBVIOUS
  <2>1. MaxPos - q \in T
    OBVIOUS
  <2>2. MaxPos - p <= MaxPos - q
    BY <1>2, <1>3, <2>1
  <2>3. QED
    BY <2>2, CellsAssumption DEF Positions
<1>5. QED
  BY <1>3, <1>4

LEMMA SeqPosMaxType ==
    ASSUME NEW c, NEW s
    PROVE  SeqPosMax(c, s) \in Positions \cup {-1}
<1>1. Present(c, s) \in SUBSET Positions
  BY DEF Present
<1>2. CASE Present(c, s) = {}
  BY <1>2 DEF SeqPosMax
<1>3. CASE Present(c, s) # {}
  <2>1. Largest(Present(c, s)) \in Present(c, s)
    BY <1>1, <1>3, HasLargest DEF Largest
  <2>2. QED
    BY <1>1, <1>3, <2>1 DEF SeqPosMax
<1>4. QED
  BY <1>2, <1>3

-----------------------------------------------------------------------------
(* The inductive invariant *)

Slots == UNION {[R -> Positions] : R \in (SUBSET Cells) \ {{}}}
Saved == {new \in UNION {[R -> Cell] : R \in SUBSET Cells} :
            \A i \in DOMAIN new : new[i].pos = -1 <=> new[i].seq = {}}
Heads == 0 .. NCells

CellsInv ==
    /\ v_cells \in [Streams -> CellsType]
    /\ \A t \in Streams : Good(v_cells[t])
HeadsInv == v_heads \in [Streams -> Heads]
ConfigInv == unified \in BOOLEAN /\ setup \in Setups
SlotsInv ==
    /\ sinfos \in Seq(Slots)
    /\ states \in Seq([heads : [Streams -> Heads], cells : Saved])
DecodeInv ==
    call # "idle" =>
        /\ \A t \in Streams : Unshifted(v_cells[t])
        /\ batch \in Batches
        /\ batch.first + batch.n - 1 <= LastPos[setup]
        /\ call = "compute" => sinfos # <<>>

Inv == CellsInv /\ HeadsInv /\ ConfigInv /\ SlotsInv /\ DecodeInv

LEMMA StreamOfType ==
    ASSUME NEW s \in Seqs
    PROVE  StreamOf(s) \in Streams
BY CellsAssumption DEF StreamOf, Streams, Seqs

LEMMA BatchStreamType ==
    ASSUME batch \in Batches
    PROVE  BatchStream \in Streams
<1>1. batch.seqs \in SUBSET Seqs /\ batch.seqs # {} /\ Seqs \subseteq Nat
  BY DEF Batches, Seqs
<1>2. Smallest(batch.seqs) \in Seqs
  BY <1>1, SmallestIn
<1>3. QED
  BY <1>2, StreamOfType DEF BatchStream

LEMMA EarlierHeadType ==
    ASSUME NEW head \in Heads, NEW freed \in SUBSET Cells
    PROVE  EarlierHead(head, freed) \in Heads
<1>1. Cells \in SUBSET Nat /\ Cells \subseteq Heads
  BY CellsAssumption DEF Cells, Heads
<1>2. freed # {} => Smallest(freed) \in Cells
  BY <1>1, SmallestIn
<1>3. QED
  BY <1>1, <1>2 DEF EarlierHead

\* A stream gets other cells, as good, and another head.
LEMMA ChangeInv ==
    ASSUME CellsInv, HeadsInv, NEW t \in Streams, NEW d, NEW h \in Heads,
           Good(d), Change(t, d, h)
    PROVE  /\ CellsInv' /\ HeadsInv'
           /\ Unshifted(d) /\ (\A u \in Streams : Unshifted(v_cells[u]))
                => \A u \in Streams : Unshifted(v_cells'[u])
<1>1. d \in CellsType
  BY DEF Good, Indexed
<1>2. v_cells' = [v_cells EXCEPT ![t] = d] /\ v_heads' = [v_heads EXCEPT ![t] = h]
  BY DEF Change
<1>3. v_cells' \in [Streams -> CellsType] /\ v_heads' \in [Streams -> Heads]
  BY <1>1, <1>2 DEF CellsInv, HeadsInv
<1>4. \A u \in Streams : v_cells'[u] = IF u = t THEN d ELSE v_cells[u]
  BY <1>2 DEF CellsInv
<1>5. QED
  BY <1>3, <1>4 DEF CellsInv, HeadsInv

\* Between calls of decode the cells and heads are all that an operation changes.
LEMMA OperationInv ==
    ASSUME Inv, call = "idle", UNCHANGED <<config, callVars>>, CellsInv', HeadsInv'
    PROVE  Inv'
BY DEF Inv, ConfigInv, setup, SlotsInv, DecodeInv, config, callVars, Streams

-----------------------------------------------------------------------------
(* Operations on sequences *)

LEMMA LeaveFreed ==
    ASSUME NEW c, NEW d, NEW head \in Heads
    PROVE  EarlierHead(head, Freed(c, d)) \in Heads
BY EarlierHeadType DEF Freed, Nonempty

LEMMA SeqRemoveInv ==
    ASSUME Inv, NEW s \in Seqs, NEW r, SeqRemove(s, r)
    PROVE  Inv'
<1> DEFINE t == StreamOf(s)
           c == v_cells[t]
           d == SeqRm(c, InRange(c, r), s)
<1>1. t \in Streams
  BY StreamOfType
<1>2. Good(d)
  BY <1>1, LeaveGood DEF Inv, CellsInv, SeqRm, Owned
<1>3. EarlierHead(v_heads[t], Freed(c, d)) \in Heads
  BY <1>1, LeaveFreed DEF Inv, HeadsInv
<1>4. CellsInv' /\ HeadsInv'
  BY <1>1, <1>2, <1>3, ChangeInv DEF Inv, SeqRemove
<1>5. QED
  BY <1>4, OperationInv DEF SeqRemove

LEMMA AnyRemoveInv ==
    ASSUME Inv, NEW r, AnyRemove(r)
    PROVE  Inv'
<1> DEFINE After(t) == Rm(v_cells[t], InRange(v_cells[t], r))
<1>1. \A t \in Streams : Good(After(t))
  <2> SUFFICES ASSUME NEW t \in Streams PROVE Good(After(t))
    OBVIOUS
  <2>1. Good(v_cells[t]) /\ InRange(v_cells[t], r) \subseteq Cells
    BY DEF Inv, CellsInv, InRange, PosIn, Nonempty
  <2>2. QED
    BY <2>1, LeaveGood DEF Rm
<1>2. \A t \in Streams : After(t) \in CellsType
  BY <1>1 DEF Good, Indexed
<1>3. v_cells' = [t \in Streams |-> After(t)]
  BY DEF AnyRemove
<1>4. CellsInv'
  BY <1>1, <1>2, <1>3 DEF CellsInv
<1>5. HeadsInv'
  BY LeaveFreed DEF Inv, HeadsInv, AnyRemove
<1>6. QED
  BY <1>4, <1>5, OperationInv DEF AnyRemove

LEMMA CopySequenceInv ==
    ASSUME Inv, NEW a \in Seqs, NEW b \in Seqs, NEW r, CopySequence(a, b, r)
    PROVE  Inv'
<1> DEFINE t == StreamOf(a)
           R == InRange(v_cells[t], r) \cap Owned(v_cells[t], a)
<1>1. t \in Streams
  BY StreamOfType
<1>2. R \in SUBSET Nonempty(v_cells[t]) /\ R \cap Owned(v_cells[t], b) = {}
  BY DEF InRange, PosIn, CopySequence
<1>3. Good(SeqAdd(v_cells[t], R, b))
  BY <1>1, <1>2, SeqAddGood DEF Inv, CellsInv
<1>4. v_heads[t] \in Heads
  BY <1>1 DEF Inv, HeadsInv
<1>5. CellsInv' /\ HeadsInv'
  BY <1>1, <1>3, <1>4, ChangeInv DEF Inv, CopySequence
<1>6. QED
  BY <1>5, OperationInv DEF CopySequence

\* The copy of a sequence into another stream is right: cells without the sequence stay
\* empty and have no shift.
LEMMA CopiedGood ==
    ASSUME NEW c, Good(c), NEW a \in Seqs, NEW b \in Seqs
    PROVE  Good(Copied(c, a, b))
<1> DEFINE R     == Owned(c, a)
           place == [i \in Owned(c, a) |-> c.pos[i]]
           late  == {i \in Owned(c, a) : c.shift[i] # 0}
           by    == [i \in late |-> c.shift[i]]
           d == Put(Reset, place, {b})
           e == Shifted(d, by)
           f == [e EXCEPT !.has_shift = (late # {})]
<1>1. c \in CellsType /\ \A i \in Cells : c.pos[i] = -1 <=> c.seq[i] = {}
  BY DEF Good, Indexed
<1>2. R \in SUBSET Cells /\ place \in [R -> Positions]
  BY <1>1 DEF Owned, CellsType
<1>3. late \in SUBSET R /\ by \in [late -> Int]
  BY <1>1, <1>2 DEF CellsType
<1>4. Copied(c, a, b) = f
  BY DEF Copied
<1> HIDE DEF place, by, late
<1>5. Good(d) /\ d.shift = Reset.shift
  BY <1>2, ResetGood, PutGood
<1>6. \A i \in R : d.pos[i] # -1
  <2> DEFINE new == [i \in DOMAIN place |-> [pos |-> place[i], seq |-> {b}]]
  <2>1. Reset \in CellsType /\ d = Set(Reset, new)
    BY ResetGood DEF Good, Indexed, Put
  <2>2. \A i \in R : new[i].pos \in Positions /\ i \in DOMAIN new
    BY <1>2
  <2> HIDE DEF new
  <2>3. Set(Reset, new).pos
          = [i \in Cells |-> IF i \in DOMAIN new THEN new[i].pos ELSE Reset.pos[i]]
    BY <2>1, SetFields
  <2>4. \A i \in R : d.pos[i] = new[i].pos
    BY <1>2, <2>1, <2>2, <2>3
  <2>5. QED
    BY <2>2, <2>4, CellsAssumption DEF Positions
<1> HIDE DEF d, R
<1>7. /\ Indexed(e) /\ e.pos = d.pos
      /\ e.shift = [i \in Cells |-> IF i \in late THEN by[i] ELSE d.shift[i]]
  BY <1>2, <1>3, <1>5, ShiftedIndexed DEF Good
<1> HIDE DEF e
<1>8. /\ Indexed(f) /\ f.pos = e.pos /\ f.shift = e.shift /\ f.has_shift = (late # {})
  BY <1>7, FlagIndexed
<1> HIDE DEF f
<1>9. \A i \in Cells : i \notin late => f.shift[i] = 0
  BY <1>5, <1>7, <1>8 DEF Reset
<1>10. \A i \in Cells : f.pos[i] = -1 => i \notin late
  BY <1>2, <1>3, <1>6, <1>7, <1>8
<1>11. QED
  BY <1>4, <1>8, <1>9, <1>10 DEF Good, Settled

LEMMA CopyStreamInv ==
    ASSUME Inv, NEW a \in Seqs, NEW b \in Seqs, CopyStream(a, b)
    PROVE  Inv'
<1>1. StreamOf(a) \in Streams /\ StreamOf(b) \in Streams
  BY StreamOfType
<1>2. Good(Copied(v_cells[StreamOf(a)], a, b)) /\ v_heads[StreamOf(a)] \in Heads
  BY <1>1, CopiedGood DEF Inv, CellsInv, HeadsInv
<1>3. CellsInv' /\ HeadsInv'
  BY <1>1, <1>2, ChangeInv DEF Inv, CopyStream
<1>4. QED
  BY <1>3, OperationInv DEF CopyStream

LEMMA KeepInv ==
    ASSUME Inv, NEW s \in Seqs, Keep(s)
    PROVE  Inv'
<1> DEFINE t == StreamOf(s)
           d == SeqKeep(v_cells[t], s)
<1>1. t \in Streams
  BY StreamOfType
<1>2. Good(d)
  BY <1>1, LeaveGood DEF Inv, CellsInv, SeqKeep, Nonempty
<1>3. EarlierHead(v_heads[t], Freed(v_cells[t], d)) \in Heads
  BY <1>1, LeaveFreed DEF Inv, HeadsInv
<1>4. CellsInv' /\ HeadsInv'
  BY <1>1, <1>2, <1>3, ChangeInv DEF Inv, Keep
<1>5. QED
  BY <1>4, OperationInv DEF Keep

LEMMA AddShiftInv ==
    ASSUME Inv, NEW s \in Seqs, NEW r, NEW d \in Shifts, AddShift(s, r, d)
    PROVE  Inv'
<1> DEFINE t == StreamOf(s)
           c == v_cells[t]
           R == InRange(c, r) \cap Owned(c, s)
           moved == PosAdd(c, R, d)
           freed == Freed(c, moved)
           head  == IF freed = {} THEN 0 ELSE Smallest(freed)
<1>1. t \in Streams /\ d \in Int
  BY StreamOfType, CacheAssumption
<1>2. R \in SUBSET Nonempty(c) /\ \A i \in R : c.pos[i] + d <= MaxPos
  BY DEF InRange, PosIn, AddShift
<1>3. Good(moved)
  BY <1>1, <1>2, PosAddGood DEF Inv, CellsInv
<1>4. head \in Heads
  <2>1. freed \in SUBSET Nat /\ freed \subseteq Heads /\ 0 \in Heads
    BY CellsAssumption DEF Freed, Nonempty, Cells, Heads
  <2>2. QED
    BY <2>1, SmallestIn
<1>5. CellsInv' /\ HeadsInv'
  BY <1>1, <1>3, <1>4, ChangeInv DEF Inv, AddShift
<1>6. QED
  BY <1>5, OperationInv DEF AddShift

LEMMA DivideInv ==
    ASSUME Inv, NEW s \in Seqs, NEW r, NEW d \in Divisors[setup], Divide(s, r, d)
    PROVE  Inv'
<1> DEFINE t == StreamOf(s)
           R == InRange(v_cells[t], r) \cap Owned(v_cells[t], s)
<1>1. t \in Streams /\ d \in Nat \ {0}
  BY StreamOfType, CacheAssumption DEF Inv, ConfigInv
<1>2. R \in SUBSET Nonempty(v_cells[t])
  BY DEF InRange, PosIn
<1>3. Good(PosDiv(v_cells[t], R, d)) /\ v_heads[t] \in Heads
  BY <1>1, <1>2, PosDivGood DEF Inv, CellsInv, HeadsInv
<1>4. CellsInv' /\ HeadsInv'
  BY <1>1, <1>3, ChangeInv DEF Inv, Divide
<1>5. QED
  BY <1>4, OperationInv DEF Divide

LEMMA ClearInv ==
    ASSUME Inv, Clear
    PROVE  Inv'
<1>1. Good(Reset) /\ Reset \in CellsType /\ 0 \in Heads
  BY ResetGood, CellsAssumption DEF Good, Indexed, Heads
<1>2. CellsInv' /\ HeadsInv'
  BY <1>1 DEF Clear, CellsInv, HeadsInv
<1>3. QED
  BY <1>2, OperationInv DEF Clear

-----------------------------------------------------------------------------
(* A call of decode *)

\* A slot is of cells of the cache, and its positions are those of the tokens.
LEMMA FindSlotType ==
    ASSUME NEW c, NEW head, NEW first \in Nat, NEW n \in Nat, first + n - 1 <= MaxPos,
           FindSlot(c, head, first, n) # <<>>
    PROVE  FindSlot(c, head, first, n) \in Slots
<1> DEFINE start   == IF head > Cardinality(c.used) + 2 * n THEN 0 ELSE head
           usable  == {i \in Cells : CanUse(c, i)}
           Dist(i) == IF i < start THEN i - start + NCells ELSE i - start
           Rank(i) == Cardinality({j \in usable : Dist(j) < Dist(i)})
           nearest == {i \in usable : Rank(i) < n}
           place   == [i \in nearest |-> first + Rank(i)]
<1>1. FindSlot(c, head, first, n) = place
  BY DEF FindSlot
<1>2. \A i : Rank(i) \in Nat
  BY CellsFinite
<1> HIDE DEF Rank, usable
<1>3. nearest \in SUBSET Cells
  BY DEF usable
<1>4. \A i \in nearest : first + Rank(i) \in Positions
  BY <1>2, CellsAssumption DEF Positions
<1>5. nearest # {}
  <2> SUFFICES ASSUME nearest = {} PROVE FALSE
    OBVIOUS
  <2>1. place = <<>>
    OBVIOUS
  <2>2. QED
    BY <1>1, <2>1
<1>6. place \in [nearest -> Positions]
  BY <1>4
<1> HIDE DEF nearest, place
<1>7. QED
  BY <1>1, <1>3, <1>5, <1>6 DEF Slots

LEMMA EndOfType ==
    ASSUME NEW place \in Slots
    PROVE  EndOf(place) \in Heads
<1>1. PICK R \in (SUBSET Cells) \ {{}} : place \in [R -> Positions]
  BY DEF Slots
<1> DEFINE S == {place[i] : i \in R}
<1>2. S \in SUBSET Positions /\ S # {}
  BY <1>1
<1>3. PICK p \in S : \A q \in S : q <= p
  BY <1>2, HasLargest
<1>4. \E i \in DOMAIN place : \A j \in DOMAIN place : place[j] <= place[i]
  BY <1>1, <1>3
<1> DEFINE last == CHOOSE i \in DOMAIN place : \A j \in DOMAIN place : place[j] <= place[i]
<1>5. last \in R
  BY <1>1, <1>4
<1>6. EndOf(place) = 1 + last
  BY DEF EndOf
<1> HIDE DEF last
<1>7. QED
  BY <1>1, <1>5, <1>6, CellsAssumption DEF Cells, Heads

\* Placing a ubatch: overwritten cells leave their sequences, the tokens are put, and
\* older tokens of the overwritten sequences leave them.
LEMMA ApplyGood ==
    ASSUME NEW c, Good(c), Unshifted(c), NEW place \in Slots, batch \in Batches
    PROVE  Good(Apply(c, place)) /\ Unshifted(Apply(c, place))
<1> DEFINE over  == {i \in DOMAIN place : c.pos[i] # -1}
           freed == Rm(c, over)
           put   == Put(freed, place, batch.seqs)
<1>1. PICK R \in SUBSET Cells : place \in [R -> Positions]
  BY DEF Slots
<1>2. Good(freed) /\ Unshifted(freed)
  BY <1>1, LeaveGood DEF Rm
<1>3. batch.seqs \in SUBSET Seqs /\ batch.seqs # {}
  BY DEF Batches
<1> HIDE DEF freed
<1>4. Good(put) /\ Unshifted(put)
  BY <1>1, <1>2, <1>3, PutGood
<1>5. Apply(c, place) = Purge(c, over, put)
  BY DEF Apply, freed
<1> HIDE DEF put, over
<1>6. QED
  BY <1>4, <1>5, LeaveGood DEF Purge

\* The tokens of the batch lie in range, whatever part of them is placed.
LEMMA NextRange ==
    ASSUME Inv, call = "prepare", Unplaced > 0
    PROVE  /\ batch.first + NUbatch * Len(sinfos) \in Nat
           /\ NextSize \in Nat
           /\ batch.first + NUbatch * Len(sinfos) + NextSize - 1 <= MaxPos
<1> DEFINE k == NUbatch * Len(sinfos)
<1>1. k \in Nat
  <2>1. Len(sinfos) \in Nat /\ NUbatch \in Nat
    BY CacheAssumption DEF Inv, SlotsInv
  <2>2. QED
    BY <2>1
<1>2. /\ batch.first \in Nat /\ batch.n \in Nat /\ NUbatch \in Nat
      /\ batch.first + batch.n - 1 <= LastPos[setup]
      /\ LastPos[setup] \in Int /\ LastPos[setup] <= MaxPos
  <2>1. LastPos[setup] \in Positions
    BY CacheAssumption DEF Inv, ConfigInv
  <2>2. QED
    BY <2>1, CacheAssumption, CellsAssumption DEF Inv, DecodeInv, Batches, Positions
<1>3. Unplaced = batch.n - k
  BY DEF Unplaced
<1>4. NextSize \in Nat /\ NextSize <= Unplaced
  BY <1>1, <1>2, <1>3 DEF NextSize
<1> HIDE DEF k
<1>5. batch.first + k \in Nat /\ batch.first + k + NextSize - 1 <= MaxPos
  BY <1>1, <1>2, <1>3, <1>4, CellsAssumption
<1>6. QED
  BY <1>4, <1>5 DEF k

LEMMA PrepareInv ==
    ASSUME Inv, Prepare
    PROVE  Inv'
<1> DEFINE t     == BatchStream
           place == NextSlot
           c     == v_cells[t]
           saved == [heads |-> v_heads, cells |-> Cp(c, DOMAIN place)]
<1>1. call = "prepare" /\ batch \in Batches /\ t \in Streams
  BY BatchStreamType DEF Prepare, Inv, DecodeInv
<1>2. Good(c) /\ Unshifted(c) /\ c \in CellsType
  BY <1>1 DEF Inv, CellsInv, DecodeInv
<1>3. place \in Slots
  BY <1>1, NextRange, FindSlotType DEF Prepare, NextSlot
<1> HIDE DEF place
<1>4. Good(Apply(c, place)) /\ Unshifted(Apply(c, place)) /\ EndOf(place) \in Heads
  BY <1>1, <1>2, <1>3, ApplyGood, EndOfType
<1>5. /\ Change(t, Apply(c, place), EndOf(place))
      /\ sinfos' = Append(sinfos, place) /\ states' = Append(states, saved)
  BY DEF Prepare, place
<1>6. CellsInv' /\ HeadsInv' /\ \A u \in Streams : Unshifted(v_cells'[u])
  BY <1>1, <1>4, <1>5, ChangeInv DEF Inv, DecodeInv
<1>7. Cp(c, DOMAIN place) \in Saved
  <2>1. PICK R \in SUBSET Cells : place \in [R -> Positions]
    BY <1>3 DEF Slots
  <2>2. Cp(c, R) \in [R -> Cell] /\ DOMAIN Cp(c, R) = R
    BY <1>2, <2>1 DEF Cp, CellsType, Cell
  <2>3. \A i \in R : Cp(c, R)[i].pos = -1 <=> Cp(c, R)[i].seq = {}
    BY <1>2, <2>1 DEF Cp, Good, Indexed
  <2>4. QED
    BY <2>1, <2>2, <2>3 DEF Saved
<1>8. saved \in [heads : [Streams -> Heads], cells : Saved]
  BY <1>7 DEF Inv, HeadsInv
<1> HIDE DEF saved
<1>9. SlotsInv'
  BY <1>3, <1>5, <1>8 DEF Inv, SlotsInv
<1>10. UNCHANGED <<config, call, batch>>
  BY DEF Prepare
<1>11. QED
  BY <1>1, <1>6, <1>9, <1>10 DEF Inv, DecodeInv, ConfigInv, setup, config, Streams

LEMMA RestoreInv ==
    ASSUME Inv, Restore
    PROVE  Inv'
<1> DEFINE t   == BatchStream
           top == states[Len(states)]
           c   == v_cells[t]
           d   == Set(c, top.cells)
           Snapshots == [heads : [Streams -> Heads], cells : Saved]
<1>1. call = "restore" /\ batch \in Batches /\ t \in Streams
  BY BatchStreamType DEF Restore, Inv, DecodeInv
<1>2. /\ top \in Snapshots
      /\ SubSeq(states, 1, Len(states) - 1) \in Seq(Snapshots)
  <2>1. states \in Seq(Snapshots) /\ states # <<>>
    BY DEF Inv, SlotsInv, Restore
  <2> HIDE DEF Snapshots
  <2>2. Len(states) \in Nat \ {0}
    BY <2>1
  <2>3. \A i \in 1 .. Len(states) : states[i] \in Snapshots
    BY <2>1
  <2>4. QED
    BY <2>1, <2>2, <2>3
<1>3. /\ Contents(top.cells) /\ top.heads[0] \in Heads
  BY <1>2, CellsAssumption DEF Saved, Contents, Streams, Seqs
<1>4. Good(c) /\ Unshifted(c)
  BY <1>1 DEF Inv, CellsInv, DecodeInv
<1>5. Indexed(d) /\ d.shift = c.shift
  BY <1>3, <1>4, SetIndexed DEF Good
<1> HIDE DEF top
<1>6. Good(d) /\ Unshifted(d)
  BY <1>4, <1>5 DEF Good, Settled, Unshifted
<1>7. Change(t, d, top.heads[0])
  BY DEF Restore, top
<1> HIDE DEF d
<1>8. CellsInv' /\ HeadsInv' /\ \A u \in Streams : Unshifted(v_cells'[u])
  BY <1>1, <1>3, <1>6, <1>7, ChangeInv DEF Inv, DecodeInv
<1>9. SlotsInv'
  BY <1>2 DEF Inv, SlotsInv, Restore
<1>10. UNCHANGED <<config, call, batch>>
  BY DEF Restore
<1>11. QED
  BY <1>1, <1>8, <1>9, <1>10 DEF Inv, DecodeInv, ConfigInv, setup, config, Streams

LEMMA DecodeStepInv ==
    ASSUME Inv, NEW S \in SUBSET Seqs, NEW n \in 1 .. MaxBatch, Decode(S, n)
    PROVE  Inv'
<1> DEFINE s     == Smallest(S)
           first == SeqPosMax(v_cells[StreamOf(s)], s) + 1
           d(t)  == ResetShift(v_cells[t])
<1>1. S # {} /\ first + n - 1 <= LastPos[setup] /\ n \in Nat \ {0}
  BY CacheAssumption DEF Decode, Accepted
<1>2. LastPos[setup] \in Positions
  BY CacheAssumption DEF Inv, ConfigInv
<1>3. first \in Positions
  <2>1. SeqPosMax(v_cells[StreamOf(s)], s) \in Positions \cup {-1}
    BY SeqPosMaxType
  <2> HIDE DEF s
  <2>2. first \in Nat
    BY <2>1, CellsAssumption DEF Positions
  <2> HIDE DEF first
  <2>3. QED
    BY <1>1, <1>2, <2>2, CellsAssumption DEF Positions
<1>4. v_cells' = [t \in Streams |-> d(t)] /\ batch' = [seqs |-> S, first |-> first, n |-> n]
  BY DEF Decode
<1>5. \A t \in Streams : Good(d(t)) /\ Unshifted(d(t))
  BY ResetShiftGood DEF Inv, CellsInv
<1> HIDE DEF d, first
<1>6. CellsInv' /\ \A t \in Streams : Unshifted(v_cells'[t])
  BY <1>4, <1>5 DEF CellsInv, Good, Indexed
<1>7. batch' \in Batches /\ batch'.first + batch'.n - 1 <= LastPos[setup]
  BY <1>1, <1>3, <1>4 DEF Batches, first
<1>8. call' = "prepare" /\ UNCHANGED <<v_heads, config, sinfos, states>>
  BY DEF Decode
<1>9. QED
  BY <1>6, <1>7, <1>8 DEF Inv, HeadsInv, ConfigInv, SlotsInv, DecodeInv, setup, config, Streams

LEMMA PreparedInv ==
    ASSUME Inv, Prepared
    PROVE  Inv'
BY DEF Prepared, cacheVars, config, Inv, CellsInv, HeadsInv, ConfigInv, SlotsInv, DecodeInv,
       setup, Streams

\* A batch whose tokens are all placed has a slot at least.
LEMMA InitiatedInv ==
    ASSUME Inv, Initiated
    PROVE  Inv'
<1>1. call = "restore" /\ UNCHANGED <<cacheVars, config, batch, states>>
  BY DEF Initiated
<1>2. sinfos' \in Seq(Slots)
  <2>1. sinfos' = sinfos \/ sinfos' = <<>>
    BY DEF Initiated
  <2>2. sinfos \in Seq(Slots) /\ <<>> \in Seq(Slots)
    BY DEF Inv, SlotsInv
  <2>3. QED
    BY <2>1, <2>2
<1>3. call' = "compute" => sinfos' # <<>>
  <2> SUFFICES ASSUME call' = "compute", sinfos' = <<>> PROVE FALSE
    OBVIOUS
  <2>1. Unplaced <= 0 /\ sinfos = <<>>
    BY DEF Initiated
  <2>2. batch.n \in Nat \ {0} /\ Len(sinfos) = 0 /\ NUbatch \in Nat
    BY <1>1, <2>1, CacheAssumption DEF Inv, DecodeInv, Batches
  <2>3. NUbatch * Len(sinfos) = 0
    BY <2>2
  <2>4. QED
    BY <2>1, <2>2, <2>3 DEF Unplaced
<1>4. QED
  BY <1>1, <1>2, <1>3
  DEF Inv, CellsInv, HeadsInv, ConfigInv, SlotsInv, DecodeInv, cacheVars, config, setup, Streams

LEMMA ComputeInv ==
    ASSUME Inv, Compute
    PROVE  Inv'
<1> DEFINE t     == BatchStream
           place == Head(sinfos)
<1>1. call = "compute" /\ batch \in Batches /\ t \in Streams
  BY BatchStreamType DEF Compute, Inv, DecodeInv
<1>2. place \in Slots /\ Tail(sinfos) \in Seq(Slots)
  BY <1>1 DEF Inv, DecodeInv, SlotsInv
<1>3. Good(v_cells[t]) /\ Unshifted(v_cells[t])
  BY <1>1 DEF Inv, CellsInv, DecodeInv
<1> HIDE DEF place
<1>4. /\ Good(Apply(v_cells[t], place)) /\ Unshifted(Apply(v_cells[t], place))
      /\ EndOf(place) \in Heads
  BY <1>1, <1>2, <1>3, ApplyGood, EndOfType
<1>5. Change(t, Apply(v_cells[t], place), EndOf(place))
  BY DEF Compute, place
<1>6. CellsInv' /\ HeadsInv' /\ \A u \in Streams : Unshifted(v_cells'[u])
  BY <1>1, <1>4, <1>5, ChangeInv DEF Inv, DecodeInv
<1>7. UNCHANGED <<config, states>> /\ sinfos' = Tail(sinfos)
  BY DEF Compute
<1>8. call' = "idle" \/ (sinfos' # <<>> /\ UNCHANGED <<call, batch>>)
  BY DEF Compute, Return
<1>9. SlotsInv' /\ ConfigInv'
  BY <1>2, <1>7 DEF Inv, SlotsInv, ConfigInv, config, setup, Streams
<1>10. DecodeInv'
  BY <1>1, <1>6, <1>7, <1>8 DEF Inv, DecodeInv, config, setup, Streams
<1>11. QED
  BY <1>6, <1>9, <1>10 DEF Inv

LEMMA ComputeFailsInv ==
    ASSUME Inv, NEW s \in Seqs, ComputeFails(s)
    PROVE  Inv'
<1> DEFINE t     == BatchStream
           place == Head(sinfos)
           c     == Apply(v_cells[t], place)
           low   == Smallest({place[i] : i \in DOMAIN place})
           R     == PosIn(c, low, MaxPos + 1)
           d     == SeqRm(c, R, s)
           head  == EarlierHead(EndOf(place), Freed(c, d))
<1>1. call = "compute" /\ batch \in Batches /\ t \in Streams
  BY BatchStreamType DEF ComputeFails, Inv, DecodeInv
<1>2. place \in Slots
  BY <1>1 DEF Inv, DecodeInv, SlotsInv
<1>3. Good(v_cells[t]) /\ Unshifted(v_cells[t])
  BY <1>1 DEF Inv, CellsInv, DecodeInv
<1>4. Change(t, d, head)
  BY DEF ComputeFails
<1> HIDE DEF place, low
<1>5. Good(c) /\ EndOf(place) \in Heads
  BY <1>1, <1>2, <1>3, ApplyGood, EndOfType
<1> HIDE DEF c, R
<1>6. Good(d)
  BY <1>5, LeaveGood DEF SeqRm, Owned
<1>7. head \in Heads
  BY <1>5, LeaveFreed
<1> HIDE DEF d, head
<1>8. CellsInv' /\ HeadsInv'
  BY <1>1, <1>4, <1>6, <1>7, ChangeInv DEF Inv
<1>9. UNCHANGED <<config, states>> /\ sinfos' = <<>> /\ call' = "idle"
  BY DEF ComputeFails, Return
<1>10. QED
  BY <1>8, <1>9 DEF Inv, SlotsInv, DecodeInv, ConfigInv, config, setup, Streams

LEMMA NoSlotInv ==
    ASSUME Inv, NoSlot
    PROVE  Inv'
BY DEF NoSlot, Return, cacheVars, config, Inv, CellsInv, HeadsInv, ConfigInv, SlotsInv,
       DecodeInv, setup, Streams

-----------------------------------------------------------------------------
(* The theorem *)

LEMMA InitInv == Init => Inv
<1> SUFFICES ASSUME Init PROVE Inv
  OBVIOUS
<1>1. Good(Reset) /\ Reset \in CellsType
  BY ResetGood DEF Good, Indexed
<1>2. CellsInv
  BY <1>1 DEF Init, CellsInv
<1>3. HeadsInv
  BY CellsAssumption DEF Init, HeadsInv, Heads
<1>4. ConfigInv
  <2>1. PICK u \in Setups : unified = u[1] /\ n_swa = u[2]
    BY DEF Init
  <2>2. u \in BOOLEAN \X Nat
    BY <2>1, CacheAssumption
  <2>3. u = <<u[1], u[2]>> /\ u[1] \in BOOLEAN
    BY <2>2
  <2>4. QED
    BY <2>1, <2>3 DEF ConfigInv, setup
<1>5. SlotsInv /\ DecodeInv
  BY DEF Init, SlotsInv, DecodeInv
<1>6. QED
  BY <1>2, <1>3, <1>4, <1>5 DEF Inv

LEMMA NextInv == Inv /\ [Next]_vars => Inv'
<1> SUFFICES ASSUME Inv, [Next]_vars PROVE Inv'
  OBVIOUS
<1>1. CASE Operation
  BY <1>1, SeqRemoveInv, AnyRemoveInv, CopySequenceInv, CopyStreamInv, KeepInv, AddShiftInv,
     DivideInv, ClearInv DEF Operation
<1>2. CASE \E S \in SUBSET Seqs, n \in 1 .. MaxBatch : Decode(S, n)
  BY <1>2, DecodeStepInv
<1>3. CASE Prepare \/ Prepared \/ Restore \/ Initiated
  BY <1>3, PrepareInv, PreparedInv, RestoreInv, InitiatedInv
<1>4. CASE Compute \/ (\E s \in Seqs : ComputeFails(s)) \/ NoSlot
  BY <1>4, ComputeInv, ComputeFailsInv, NoSlotInv
<1>5. CASE UNCHANGED vars
  BY <1>5 DEF vars, cacheVars, config, callVars, Inv, CellsInv, HeadsInv, ConfigInv, SlotsInv,
              DecodeInv, setup, Streams
<1>6. QED
  BY <1>1, <1>2, <1>3, <1>4, <1>5 DEF Next

\* The indices of the cells (used, seq_pos) and the flag of their shifts always say of the
\* cells what the comments of llama-kv-cells.h say: after any operations, and in the
\* middle of a decode.
THEOREM IndicesAlwaysAgree == Spec => []IndicesAgree
<1>1. Inv => IndicesAgree
  BY GoodMeans DEF Inv, CellsInv, IndicesAgree
<1>2. QED
  BY InitInv, NextInv, <1>1, PTL DEF Spec

\* Where decode relies on the absence of shifts: cells that prepare saves, takes and
\* restores have none, so that restoring a cell without its shift loses nothing.
NoShiftInDecode == call # "idle" => \A t \in Streams, i \in Cells : v_cells[t].shift[i] = 0

THEOREM DecodeMovesNothing == Spec => []NoShiftInDecode
<1>1. Inv => NoShiftInDecode
  BY DEF Inv, DecodeInv, NoShiftInDecode, Unshifted
<1>2. QED
  BY InitInv, NextInv, <1>1, PTL DEF Spec

-----------------------------------------------------------------------------
(* What a slot is, and what placing a ubatch leaves in the cells *)

\* A sequence is present at the positions of its cells.
LEMMA PresentMeans ==
    ASSUME NEW c, Indexed(c), NEW s \in Seqs, NEW p \in Positions
    PROVE  p \in Present(c, s) <=> \E i \in Cells : s \in c.seq[i] /\ c.pos[i] = p
<1>1. c.seq_pos[s][p] = Cardinality(At(c, Cells, s, p))
  BY DEF Indexed
<1>2. At(c, Cells, s, p) \in SUBSET Cells
  BY DEF At
<1>3. Cardinality(At(c, Cells, s, p)) \in Nat
  BY <1>2, CellsFinite
<1>4. Cardinality(At(c, Cells, s, p)) = 0 <=> At(c, Cells, s, p) = {}
  BY <1>2, CellsFinite, FS_EmptySet
<1>5. c.seq_pos[s][p] > 0 <=> At(c, Cells, s, p) # {}
  BY <1>1, <1>3, <1>4
<1>6. At(c, Cells, s, p) # {} <=> \E i \in Cells : s \in c.seq[i] /\ c.pos[i] = p
  BY DEF At
<1>7. QED
  BY <1>5, <1>6 DEF Present

\* seq_pos_max is the largest position of the cells of the sequence.
LEMMA SeqPosMaxMeans ==
    ASSUME NEW c, Indexed(c), NEW s \in Seqs
    PROVE  /\ SeqPosMax(c, s) \in Positions \cup {-1}
           /\ \A i \in Cells : s \in c.seq[i] =>
                 /\ c.pos[i] \in Positions
                 /\ c.pos[i] <= SeqPosMax(c, s)
                 /\ \E j \in Cells : s \in c.seq[j] /\ c.pos[j] = SeqPosMax(c, s)
<1> DEFINE P == Present(c, s)
<1>1. P \in SUBSET Positions
  BY DEF Present
<1>2. SeqPosMax(c, s) \in Positions \cup {-1}
  BY SeqPosMaxType
<1>3. ASSUME NEW i \in Cells, s \in c.seq[i]
      PROVE  /\ c.pos[i] \in Positions
             /\ c.pos[i] <= SeqPosMax(c, s)
             /\ \E j \in Cells : s \in c.seq[j] /\ c.pos[j] = SeqPosMax(c, s)
  <2>1. c.pos[i] \in Positions
    BY <1>3 DEF Indexed, CellsType
  <2>2. c.pos[i] \in P
    BY <1>3, <2>1, PresentMeans
  <2>3. SeqPosMax(c, s) = Largest(P)
    BY <2>2 DEF SeqPosMax
  <2> HIDE DEF P
  <2>4. PICK x \in P : \A y \in P : y <= x
    BY <1>1, <2>2, HasLargest
  <2>5. Largest(P) \in P /\ \A y \in P : y <= Largest(P)
    BY <2>4 DEF Largest
  <2>6. SeqPosMax(c, s) \in P /\ c.pos[i] <= SeqPosMax(c, s)
    BY <2>2, <2>3, <2>5
  <2>7. \E j \in Cells : s \in c.seq[j] /\ c.pos[j] = SeqPosMax(c, s)
    BY <1>1, <2>6, PresentMeans DEF P
  <2>8. QED
    BY <2>1, <2>6, <2>7
<1>4. QED
  BY <1>2, <1>3

\* The members of U are ranked by distances that differ.
Ranked(U, dist, rank) ==
    /\ dist \in [U -> Nat] /\ rank \in [U -> Nat]
    /\ \A i, j \in U : dist[i] = dist[j] => i = j
    /\ \A i \in U : rank[i] = Cardinality({j \in U : dist[j] < dist[i]})

\* Such a ranking of a finite set leaves no rank out.
LEMMA RanksLeaveNoneOut ==
    ASSUME NEW U, IsFiniteSet(U), NEW dist, NEW rank, Ranked(U, dist, rank),
           NEW i \in U, rank[i] # 0
    PROVE  \E j \in U : rank[j] = rank[i] - 1
<1>0. /\ dist \in [U -> Nat] /\ rank \in [U -> Nat]
      /\ \A k, j \in U : dist[k] = dist[j] => k = j
      /\ \A k \in U : rank[k] = Cardinality({j \in U : dist[j] < dist[k]})
  BY DEF Ranked
<1> DEFINE Before(k) == {j \in U : dist[j] < dist[k]}
           D == Before(i)
<1>1. \A k \in U : IsFiniteSet(Before(k)) /\ Cardinality(Before(k)) \in Nat
  <2> SUFFICES ASSUME NEW k \in U PROVE IsFiniteSet(Before(k)) /\ Cardinality(Before(k)) \in Nat
    OBVIOUS
  <2>1. IsFiniteSet(Before(k))
    BY FS_Subset
  <2>2. QED
    BY <2>1, FS_CardinalityType
<1>2. D # {}
  BY <1>0, FS_EmptySet
<1> DEFINE Gaps == {dist[i] - dist[j] : j \in D}
<1>3. Gaps \in SUBSET Nat /\ Gaps # {}
  <2>1. \A j \in D : dist[i] - dist[j] \in Nat
    BY <1>0
  <2>2. QED
    BY <1>2, <2>1
<1>4. PICK g \in Gaps : \A h \in Gaps : g <= h
  BY <1>3, HasSmallest
<1>5. PICK j \in D : g = dist[i] - dist[j]
  BY <1>4
<1>6. ASSUME NEW k \in D
      PROVE  dist[k] <= dist[j]
  <2>1. dist[i] - dist[k] \in Gaps
    OBVIOUS
  <2>2. dist[i] - dist[j] <= dist[i] - dist[k]
    BY <1>4, <1>5, <2>1
  <2>3. dist[i] \in Nat /\ dist[j] \in Nat /\ dist[k] \in Nat
    BY <1>0
  <2> HIDE DEF D, Gaps
  <2>4. QED
    BY <2>2, <2>3
<1>7. j \in U /\ dist[j] < dist[i]
  OBVIOUS
<1>8. Before(j) = D \ {j}
  <2>1. \A k \in U : dist[k] < dist[j] => k \in D /\ k # j
    BY <1>0, <1>7
  <2>2. \A k \in D : k # j => dist[k] < dist[j]
    BY <1>0, <1>6, <1>7
  <2>3. QED
    BY <2>1, <2>2
<1>9. Cardinality(D \ {j}) = Cardinality(D) - 1
  <2>1. IsFiniteSet(D) /\ j \in D
    BY <1>1
  <2> HIDE DEF D
  <2>2. QED
    BY <2>1, FS_RemoveElement
<1>10. rank[j] = Cardinality(Before(j)) /\ rank[i] = Cardinality(D)
  BY <1>0
<1> HIDE DEF D, Before
<1>11. rank[j] = rank[i] - 1
  BY <1>8, <1>9, <1>10
<1>12. QED
  BY <1>7, <1>11

\* A slot: cells that can be used, and the positions from the first on.
LEMMA FindSlotMeans ==
    ASSUME NEW c, Good(c), NEW head \in Heads, NEW first \in Nat, NEW n \in Nat,
           NEW place, place = FindSlot(c, head, first, n), place # <<>>
    PROVE  /\ \A i \in DOMAIN place :
                 i \in Cells /\ CanUse(c, i) /\ place[i] \in first .. first + n - 1
           /\ \A i \in DOMAIN place, v \in first .. first + n - 1 :
                 v <= place[i] => \E j \in DOMAIN place : place[j] = v
<1> DEFINE start   == IF head > Cardinality(c.used) + 2 * n THEN 0 ELSE head
           usable  == {i \in Cells : CanUse(c, i)}
           Dist(i) == IF i < start THEN i - start + NCells ELSE i - start
           Rank(i) == Cardinality({j \in usable : Dist(j) < Dist(i)})
           nearest == {i \in usable : Rank(i) < n}
<1>1. place = [i \in nearest |-> first + Rank(i)]
  BY DEF FindSlot
<1>2. usable \in SUBSET Cells /\ IsFiniteSet(usable)
  BY CellsFinite
<1>3. start \in 0 .. NCells
  BY CellsAssumption DEF Heads
<1> HIDE DEF start
<1>4. \A i \in Cells : Dist(i) \in Nat
  BY <1>3, CellsAssumption DEF Cells
<1>5. \A i, j \in Cells : Dist(i) = Dist(j) => i = j
  BY <1>3, CellsAssumption DEF Cells
<1> DEFINE dist == [i \in usable |-> Dist(i)]
           rank == [i \in usable |-> Rank(i)]
<1>6. \A i \in usable : Rank(i) \in Nat
  BY CellsFinite
<1>7. dist \in [usable -> Nat] /\ rank \in [usable -> Nat]
  BY <1>2, <1>4, <1>6
<1>8. \A i, j \in usable : dist[i] = dist[j] => i = j
  BY <1>2, <1>5
<1>9. \A i \in usable : rank[i] = Cardinality({j \in usable : dist[j] < dist[i]})
  <2> SUFFICES ASSUME NEW i \in usable
               PROVE  rank[i] = Cardinality({j \in usable : dist[j] < dist[i]})
    OBVIOUS
  <2>1. {j \in usable : dist[j] < dist[i]} = {j \in usable : Dist(j) < Dist(i)}
    OBVIOUS
  <2>2. QED
    BY <2>1
<1>10. \A i \in usable : rank[i] = Rank(i)
  OBVIOUS
<1>11. \A i \in nearest : i \in usable /\ rank[i] < n /\ place[i] = first + rank[i]
  BY <1>1, <1>10
<1>12. \A i \in usable : rank[i] < n => i \in nearest
  BY <1>10
<1>13. DOMAIN place = nearest
  BY <1>1
<1>14. \A i \in usable : i \in Cells /\ CanUse(c, i)
  OBVIOUS
<1> HIDE DEF Dist, Rank, usable, nearest, dist, rank
<1>15. ASSUME NEW i \in usable, rank[i] # 0
       PROVE  \E j \in usable : rank[j] = rank[i] - 1
  <2>1. Ranked(usable, dist, rank)
    BY <1>7, <1>8, <1>9 DEF Ranked
  <2>2. QED
    BY <1>2, <1>15, <2>1, RanksLeaveNoneOut
<1>16. ASSUME NEW i \in nearest, NEW v \in first .. first + n - 1, v <= place[i]
       PROVE  \E j \in nearest : place[j] = v
  <2> DEFINE r == v - first
             S == {rank[j] : j \in {j \in usable : rank[j] < n /\ rank[j] >= r}}
  <2>1. r \in Nat /\ rank[i] \in S /\ S \in SUBSET Nat
    BY <1>7, <1>11, <1>16
  <2>2. PICK x \in S : \A y \in S : x <= y
    BY <2>1, HasSmallest
  <2>3. PICK j \in usable : x = rank[j] /\ rank[j] < n /\ rank[j] >= r
    BY <2>2
  <2>4. rank[j] = r
    <3> SUFFICES ASSUME rank[j] # r PROVE FALSE
      OBVIOUS
    <3>1. rank[j] \in Nat /\ rank[j] # 0
      BY <1>7, <2>1, <2>3
    <3>2. PICK k \in usable : rank[k] = rank[j] - 1
      BY <1>15, <3>1
    <3>3. rank[k] \in S
      BY <2>1, <2>3, <3>1, <3>2
    <3>4. rank[j] <= rank[k]
      BY <2>2, <2>3, <3>3
    <3> HIDE DEF S, r
    <3>5. QED
      BY <3>1, <3>2, <3>4
  <2>5. QED
    BY <1>11, <1>12, <2>3, <2>4
<1>17. QED
  BY <1>7, <1>11, <1>13, <1>14, <1>16

LEMMA WindowType ==
    ASSUME ConfigInv
    PROVE  n_swa \in Nat
<1>1. <<unified, n_swa>> \in BOOLEAN \X Nat
  BY CacheAssumption DEF ConfigInv, setup
<1>2. QED
  BY <1>1

\* Placing a ubatch in place removes s at the positions up to that of a cell it takes.
Cut(c, place, s, p) == \E j \in DOMAIN place : s \in c.seq[j] /\ p <= c.pos[j]

\* What is left of the tokens of a cell, and of those that are placed in it.
LEMMA ApplyContents ==
    ASSUME NEW c, Good(c), Unshifted(c), NEW place \in Slots, batch \in Batches, NEW i \in Cells
    PROVE  /\ i \in DOMAIN place =>
                /\ Apply(c, place).seq[i] = {s \in batch.seqs : ~Cut(c, place, s, place[i])}
                /\ Apply(c, place).seq[i] # {} => Apply(c, place).pos[i] = place[i]
           /\ i \notin DOMAIN place =>
                /\ Apply(c, place).seq[i] = {s \in c.seq[i] : ~Cut(c, place, s, c.pos[i])}
                /\ Apply(c, place).seq[i] # {} => Apply(c, place).pos[i] = c.pos[i]
<1> DEFINE over  == {j \in DOMAIN place : c.pos[j] # -1}
           taken == [j \in over |-> c.seq[j]]
           freed == Rm(c, over)
           d     == Put(freed, place, batch.seqs)
           Below(s) == {j \in Owned(d, s) : \E k \in over \cap Owned(c, s) : d.pos[j] <= c.pos[k]}
           older == {j \in Cells : \E s \in Seqs : j \in Below(s)}
           gone  == [j \in older |-> {s \in Seqs : j \in Below(s)}]
           e     == Leave(d, gone)
<1>1. PICK R \in SUBSET Cells : place \in [R -> Positions]
  BY DEF Slots
<1>2. Apply(c, place) = e
  BY DEF Apply, Purge
<1>3. c \in CellsType /\ \A j \in Cells : c.pos[j] = -1 <=> c.seq[j] = {}
  BY DEF Good, Indexed
<1>4. DOMAIN taken \subseteq Cells /\ freed = Leave(c, taken) /\ DOMAIN place = R
  BY <1>1 DEF Rm
<1>5. Good(freed)
  BY <1>4, LeaveGood
<1>6. batch.seqs \in SUBSET Seqs /\ batch.seqs # {}
  BY DEF Batches
<1>7. \A j \in Cells : j \notin R => freed.seq[j] = c.seq[j] /\ freed.pos[j] = c.pos[j]
  <2> SUFFICES ASSUME NEW j \in Cells, j \notin R
               PROVE  freed.seq[j] = c.seq[j] /\ freed.pos[j] = c.pos[j]
    OBVIOUS
  <2>1. j \notin DOMAIN taken
    BY <1>4
  <2> HIDE DEF taken, freed
  <2>2. QED
    <3>1. \A k \in Cells :
             /\ Leave(c, taken).seq[k]
                  = IF k \in DOMAIN taken THEN c.seq[k] \ taken[k] ELSE c.seq[k]
             /\ Leave(c, taken).seq[k] # {} =>
                  /\ Leave(c, taken).pos[k] = c.pos[k]
                  /\ Leave(c, taken).shift[k] = c.shift[k]
      BY <1>4, LeaveContents, Zenon
    <3>2. \A k \in Cells \ DOMAIN taken : Leave(c, taken).pos[k] = c.pos[k]
      BY <1>4, LeaveFields, Zenon
    <3>3. QED
      BY <1>4, <2>1, <3>1, <3>2
<1> HIDE DEF taken, freed
<1>8. Good(d)
  BY <1>1, <1>5, <1>6, PutGood
<1>9. \A j \in Cells :
         /\ d.pos[j] = IF j \in R THEN place[j] ELSE c.pos[j]
         /\ d.seq[j] = IF j \in R THEN batch.seqs ELSE c.seq[j]
  <2>1. freed \in CellsType
    BY <1>5 DEF Good, Indexed
  <2>2. \A j \in Cells :
           /\ d.pos[j] = IF j \in R THEN place[j] ELSE freed.pos[j]
           /\ d.seq[j] = IF j \in R THEN batch.seqs ELSE freed.seq[j]
    BY <1>4, <2>1, PutContents
  <2>3. QED
    BY <1>7, <2>2
<1> HIDE DEF d
<1>10. \A s \in Seqs : i \in Below(s) <=> s \in d.seq[i] /\ Cut(c, place, s, d.pos[i])
  <2> SUFFICES ASSUME NEW s \in Seqs
               PROVE  i \in Below(s) <=> s \in d.seq[i] /\ Cut(c, place, s, d.pos[i])
    OBVIOUS
  <2>1. over \cap Owned(c, s) = {j \in R : s \in c.seq[j]}
    BY <1>1, <1>3 DEF Owned
  <2> HIDE DEF over
  <2>2. QED
    BY <1>4, <2>1 DEF Owned, Cut
<1>11. d.seq[i] \in SUBSET Seqs
  BY <1>8 DEF Good, Indexed, CellsType
<1>12. DOMAIN gone \subseteq Cells
  OBVIOUS
<1>13. /\ e.seq[i] = IF i \in DOMAIN gone THEN d.seq[i] \ gone[i] ELSE d.seq[i]
       /\ e.seq[i] # {} => e.pos[i] = d.pos[i]
  <2> HIDE DEF gone
  <2>1. \A k \in Cells :
           /\ Leave(d, gone).seq[k]
                = IF k \in DOMAIN gone THEN d.seq[k] \ gone[k] ELSE d.seq[k]
           /\ Leave(d, gone).seq[k] # {} =>
                /\ Leave(d, gone).pos[k] = d.pos[k]
                /\ Leave(d, gone).shift[k] = d.shift[k]
    BY <1>8, <1>12, LeaveContents, Zenon
  <2>2. QED
    BY <2>1
<1>14. e.seq[i] = {s \in d.seq[i] : ~Cut(c, place, s, d.pos[i])}
  <2>1. i \in DOMAIN gone <=> \E s \in Seqs : i \in Below(s)
    OBVIOUS
  <2>2. i \in DOMAIN gone => gone[i] = {s \in Seqs : i \in Below(s)}
    OBVIOUS
  <2> HIDE DEF gone, Below, e
  <2>3. QED
    BY <1>10, <1>11, <1>13, <2>1, <2>2
<1> HIDE DEF e, Below
<1>15. QED
  BY <1>2, <1>4, <1>9, <1>13, <1>14

\* The content of a cell, as cp() copies it.
Content(c, i) == [pos |-> c.pos[i], seq |-> c.seq[i]]

\* The content that cell i gets back from the recovery stack sts: that of the first
\* entry that has saved it.
SavedIn(sts, i)   == {j \in 1 .. Len(sts) : i \in DOMAIN sts[j].cells}
Restored(c, sts, i) ==
    IF SavedIn(sts, i) = {} THEN Content(c, i) ELSE sts[Smallest(SavedIn(sts, i))].cells[i]

LEMMA RestoredByNothing ==
    ASSUME NEW c, NEW i
    PROVE  Restored(c, <<>>, i) = Content(c, i)
<1>1. SavedIn(<<>>, i) = {}
  BY DEF SavedIn
<1>2. QED
  BY <1>1 DEF Restored

\* An entry on top of the stack, with the present contents of the cells R, matters for
\* the cells that no other entry has saved: they get back what they have now.
LEMMA RestoredByMore ==
    ASSUME NEW S, NEW sts \in Seq(S), NEW top, NEW c, NEW d, NEW R \in SUBSET Cells,
           top.cells = Cp(c, R), NEW i \in Cells
    PROVE  Restored(d, Append(sts, top), i)
             = IF SavedIn(sts, i) # {} \/ i \in R THEN Restored(c, sts, i) ELSE Content(d, i)
<1> DEFINE more == Append(sts, top)
           n    == Len(sts) + 1
<1>1. /\ Len(sts) \in Nat /\ Len(more) = n /\ more[n] = top
      /\ \A j \in 1 .. Len(sts) : more[j] = sts[j]
  OBVIOUS
<1>2. DOMAIN top.cells = R /\ \A j \in R : top.cells[j] = Content(c, j)
  BY DEF Cp, Content
<1> HIDE DEF more
<1>3. /\ SavedIn(sts, i) \in SUBSET (1 .. Len(sts)) /\ SavedIn(sts, i) \in SUBSET Nat
      /\ SavedIn(more, i) = SavedIn(sts, i) \cup (IF i \in R THEN {n} ELSE {})
  BY <1>1, <1>2 DEF SavedIn
<1>4. CASE SavedIn(sts, i) # {}
  <2>1. Smallest(SavedIn(sts, i)) \in SavedIn(sts, i)
    BY <1>3, <1>4, SmallestIn
  <2>2. \A y \in SavedIn(sts, i) : Smallest(SavedIn(sts, i)) <= y
    BY <1>3, <1>4, HasSmallest DEF Smallest
  <2> DEFINE x == Smallest(SavedIn(sts, i))
  <2>3. x \in SavedIn(more, i) /\ \A y \in SavedIn(more, i) : x <= y
    BY <1>1, <1>3, <2>1, <2>2
  <2>4. \A z \in SavedIn(more, i) : (\A y \in SavedIn(more, i) : z <= y) => z = x
    <3>1. SavedIn(more, i) \in SUBSET Int
      BY <1>1, <1>3
    <3> HIDE DEF x
    <3>2. QED
      BY <2>3, <3>1
  <2>5. Smallest(SavedIn(more, i)) = x
    BY <2>3, <2>4 DEF Smallest
  <2>6. more[x] = sts[x]
    BY <1>1, <1>3, <2>1
  <2> HIDE DEF x
  <2>7. QED
    BY <1>4, <2>3, <2>5, <2>6 DEF Restored, more, x
<1>5. CASE SavedIn(sts, i) = {} /\ i \in R
  <2>1. SavedIn(more, i) = {n}
    BY <1>3, <1>5
  <2>2. Smallest({n}) = n
    BY <1>1 DEF Smallest
  <2> HIDE DEF n
  <2>3. Restored(d, more, i) = Content(c, i)
    BY <1>1, <1>2, <1>5, <2>1, <2>2 DEF Restored
  <2>4. QED
    BY <1>5, <2>3 DEF Restored, more
<1>6. CASE SavedIn(sts, i) = {} /\ i \notin R
  <2>1. SavedIn(more, i) = {}
    BY <1>3, <1>6
  <2>2. QED
    BY <1>6, <2>1 DEF Restored, more
<1>7. QED
  BY <1>4, <1>5, <1>6

\* A stack without its top.
LEMMA Shortened ==
    ASSUME NEW S, NEW sts \in Seq(S), sts # <<>>
    PROVE  /\ Len(sts) \in Nat \ {0}
           /\ SubSeq(sts, 1, Len(sts) - 1) \in Seq(S)
           /\ Len(SubSeq(sts, 1, Len(sts) - 1)) = Len(sts) - 1
           /\ \A j \in 1 .. Len(sts) - 1 : SubSeq(sts, 1, Len(sts) - 1)[j] = sts[j]
<1> DEFINE n == Len(sts)
<1>1. n \in Nat \ {0} /\ 1 \in 1 .. Len(sts) + 1 /\ n - 1 \in 1 - 1 .. Len(sts)
  OBVIOUS
<1> HIDE DEF n
<1>2. /\ SubSeq(sts, 1, n - 1) \in Seq(S)
      /\ Len(SubSeq(sts, 1, n - 1)) = IF 1 <= n - 1 THEN n - 1 - 1 + 1 ELSE 0
      /\ \A j \in 1 .. n - 1 - 1 + 1 : SubSeq(sts, 1, n - 1)[j] = sts[1 + j - 1]
  BY <1>1, SubSeqProperties
<1>3. \A j \in 1 .. n - 1 : j \in 1 .. n - 1 - 1 + 1 /\ 1 + j - 1 = j
  BY <1>1
<1>4. Len(SubSeq(sts, 1, n - 1)) = n - 1
  BY <1>1, <1>2
<1>5. \A j \in 1 .. n - 1 : SubSeq(sts, 1, n - 1)[j] = sts[j]
  BY <1>2, <1>3
<1>6. QED
  BY <1>1, <1>2, <1>4, <1>5 DEF n

\* Taking the top off the stack and giving its cells their contents changes nothing of
\* what the cells get back.
LEMMA RestoredByLess ==
    ASSUME NEW S, NEW sts \in Seq(S), sts # <<>>, NEW c \in CellsType, NEW i \in Cells,
           NEW cells, cells = sts[Len(sts)].cells, \A j \in DOMAIN cells : cells[j] \in Cell
    PROVE  Restored(Set(c, cells), SubSeq(sts, 1, Len(sts) - 1), i) = Restored(c, sts, i)
<1> DEFINE n    == Len(sts)
           rest == SubSeq(sts, 1, n - 1)
           d    == Set(c, cells)
<1>1. /\ n \in Nat \ {0} /\ Len(rest) = n - 1
      /\ \A j \in 1 .. n - 1 : rest[j] = sts[j]
  BY Shortened
<1>2. /\ d.pos[i] = IF i \in DOMAIN cells THEN cells[i].pos ELSE c.pos[i]
      /\ d.seq[i] = IF i \in DOMAIN cells THEN cells[i].seq ELSE c.seq[i]
  BY SetContents
<1>3. i \in DOMAIN cells => cells[i] = [pos |-> cells[i].pos, seq |-> cells[i].seq]
  BY DEF Cell
<1>4. Content(d, i) = IF i \in DOMAIN cells THEN cells[i] ELSE Content(c, i)
  BY <1>2, <1>3 DEF Content
<1> HIDE DEF rest, d, n
<1>5. /\ SavedIn(rest, i) \in SUBSET (1 .. n - 1) /\ SavedIn(rest, i) \in SUBSET Nat
      /\ SavedIn(sts, i) = SavedIn(rest, i) \cup (IF i \in DOMAIN cells THEN {n} ELSE {})
  <2>1. \A j \in 1 .. n - 1 : j \in SavedIn(rest, i) <=> j \in SavedIn(sts, i)
    BY <1>1 DEF SavedIn, n
  <2>2. n \in SavedIn(sts, i) <=> i \in DOMAIN cells
    BY <1>1 DEF SavedIn, n
  <2>3. SavedIn(rest, i) \subseteq 1 .. n - 1 /\ SavedIn(sts, i) \subseteq 1 .. n
    BY <1>1 DEF SavedIn, n
  <2>4. \A j \in 1 .. n : j \in 1 .. n - 1 \/ j = n
    BY <1>1
  <2>5. 1 .. n - 1 \subseteq Nat /\ n \notin 1 .. n - 1
    BY <1>1
  <2>6. QED
    BY <2>1, <2>2, <2>3, <2>4, <2>5
<1>6. CASE SavedIn(rest, i) # {}
  <2> DEFINE x == Smallest(SavedIn(rest, i))
  <2>1. x \in SavedIn(rest, i) /\ \A y \in SavedIn(rest, i) : x <= y
    BY <1>5, <1>6, HasSmallest DEF Smallest
  <2> HIDE DEF x
  <2>2. x \in SavedIn(sts, i) /\ \A y \in SavedIn(sts, i) : x <= y
    BY <1>1, <1>5, <2>1
  <2>3. \A z \in SavedIn(sts, i) : (\A y \in SavedIn(sts, i) : z <= y) => z = x
    <3>1. SavedIn(sts, i) \in SUBSET Int
      BY <1>1, <1>5
    <3>2. QED
      BY <2>2, <3>1
  <2>4. Smallest(SavedIn(sts, i)) = x
    BY <2>2, <2>3 DEF Smallest
  <2>5. rest[x] = sts[x]
    BY <1>1, <1>5, <2>1
  <2>6. QED
    BY <1>6, <2>2, <2>4, <2>5 DEF Restored, rest, x, d, n
<1>7. CASE SavedIn(rest, i) = {} /\ i \in DOMAIN cells
  <2>1. SavedIn(sts, i) = {n}
    BY <1>5, <1>7
  <2>2. Smallest({n}) = n
    BY <1>1 DEF Smallest
  <2>3. Restored(c, sts, i) = cells[i]
    BY <2>1, <2>2 DEF Restored, n
  <2>4. QED
    BY <1>4, <1>7, <2>3 DEF Restored, rest, d, n
<1>8. CASE SavedIn(rest, i) = {} /\ i \notin DOMAIN cells
  <2>1. SavedIn(sts, i) = {}
    BY <1>5, <1>8
  <2>2. QED
    BY <1>4, <1>8, <2>1 DEF Restored, rest, d, n
<1>9. QED
  BY <1>6, <1>7, <1>8

-----------------------------------------------------------------------------
(* The plan: slots that are right for contents they will meet later *)

\* is_masked_swa for a window w.
Masked(w, p, v) == w > 0 /\ v - p >= w

LEMMA MaskedMeans == \A p, v : IsMaskedSwa(p, v) <=> Masked(n_swa, p, v)
BY DEF IsMaskedSwa, Masked

LEMMA MaskedMore ==
    ASSUME NEW w \in Nat, NEW p \in Int, NEW q \in Int, NEW v \in Int, NEW u \in Int,
           Masked(w, p, v), q <= p, v <= u
    PROVE  Masked(w, q, u)
BY DEF Masked

\* The cells of place may be taken for tokens of the sequences S when the cells have the
\* contents U: nothing that they hold is seen by these tokens, nor by the next token of
\* another sequence.
MayTake(w, S, U, place) ==
    \A i \in DOMAIN place : \A s \in U[i].seq :
        /\ s \in S => \A x \in DOMAIN place : Masked(w, U[i].pos, place[x])
        /\ s \notin S => \E x \in Cells : s \in U[x].seq /\ Masked(w, U[i].pos, U[x].pos + 1)

\* The positions of a slot leave none out.
Interval(place) ==
    \A x, y \in DOMAIN place : \A v \in Int :
        place[x] <= v /\ v <= place[y] => \E z \in DOMAIN place : place[z] = v

\* The contents have the sequences S only before the positions of the slot.
Before(S, U, place) ==
    \A i \in Cells : \A s \in S \cap U[i].seq : \A x \in DOMAIN place : U[i].pos < place[x]

\* One slot after the other, with a cell taken twice only if its first token is masked for
\* those of the second slot.
Follow(w, first, second) ==
    /\ \A x \in DOMAIN first, y \in DOMAIN second : first[x] < second[y]
    /\ \A i \in DOMAIN first \cap DOMAIN second : \A x \in DOMAIN second :
          Masked(w, first[i], second[x])

\* Slots for the ubatches of a batch of the sequences S, when the cells have contents U.
Plan(w, S, U, slots) ==
    /\ \A k \in 1 .. Len(slots) :
          MayTake(w, S, U, slots[k]) /\ Interval(slots[k]) /\ Before(S, U, slots[k])
    /\ \A j, k \in 1 .. Len(slots) : j < k => Follow(w, slots[j], slots[k])

\* The cells c that prepare has while it looks for the slots, up to the position base.
Simulated(w, S, c, slots, base) ==
    /\ \A i \in Cells : \A s \in S \cap c.seq[i] : c.pos[i] < base
    /\ \A j \in 1 .. Len(slots) : \A i \in DOMAIN slots[j] :
          /\ slots[j][i] < base
          /\ c.seq[i] \subseteq S
          /\ \/ Masked(w, slots[j][i], base)
             \/ c.seq[i] # {} /\ c.pos[i] = slots[j][i]

\* The result d of placing tokens of S in the cells c, as ApplyContents has it.
Placed(c, d, place, S) ==
    \A i \in Cells :
        /\ i \in DOMAIN place =>
             /\ d.seq[i] = {s \in S : ~Cut(c, place, s, place[i])}
             /\ d.seq[i] # {} => d.pos[i] = place[i]
        /\ i \notin DOMAIN place =>
             /\ d.seq[i] = {s \in c.seq[i] : ~Cut(c, place, s, c.pos[i])}
             /\ d.seq[i] # {} => d.pos[i] = c.pos[i]

LEMMA ApplyPlaced ==
    ASSUME NEW c, Good(c), Unshifted(c), NEW place \in Slots, batch \in Batches
    PROVE  Placed(c, Apply(c, place), place, batch.seqs)
BY ApplyContents DEF Placed

Contents1(c) == [i \in Cells |-> Content(c, i)]

\* Placing the first ubatch keeps the plan for the others.
LEMMA PlanShrinks ==
    ASSUME NEW w \in Nat, NEW S, NEW c \in CellsType, NEW d \in CellsType,
           NEW slots \in Seq(Slots), slots # <<>>,
           Plan(w, S, Contents1(c), slots), Placed(c, d, Head(slots), S)
    PROVE  Plan(w, S, Contents1(d), Tail(slots))
<1> DEFINE U     == Contents1(c)
           V     == Contents1(d)
           place == slots[1]
           rest  == Tail(slots)
<1>1. /\ Len(slots) \in Nat \ {0} /\ Len(rest) = Len(slots) - 1 /\ Head(slots) = place
      /\ \A k \in 1 .. Len(rest) : k + 1 \in 1 .. Len(slots) /\ rest[k] = slots[k + 1]
      /\ 1 \in 1 .. Len(slots)
  OBVIOUS
<1>2. \A i \in Cells : /\ U[i].seq = c.seq[i] /\ U[i].pos = c.pos[i] /\ c.pos[i] \in Int
                       /\ V[i].seq = d.seq[i] /\ V[i].pos = d.pos[i] /\ d.pos[i] \in Int
  BY CellsAssumption DEF Contents1, Content, CellsType, Positions
<1>3. ASSUME NEW k \in 1 .. Len(slots)
      PROVE  DOMAIN slots[k] \subseteq Cells /\ \A x \in DOMAIN slots[k] : slots[k][x] \in Int
  <2>1. slots[k] \in Slots
    OBVIOUS
  <2>2. PICK R \in SUBSET Cells : slots[k] \in [R -> Positions]
    BY <2>1 DEF Slots
  <2>3. QED
    BY <2>2, CellsAssumption DEF Positions
<1>4. Placed(c, d, place, S)
  BY <1>1
<1>5. \A k \in 1 .. Len(slots) : MayTake(w, S, U, slots[k]) /\ Interval(slots[k]) /\ Before(S, U, slots[k])
  BY DEF Plan
<1>6. \A j, k \in 1 .. Len(slots) : j < k => Follow(w, slots[j], slots[k])
  BY DEF Plan
<1> HIDE DEF U, V, place, rest
<1>7. ASSUME NEW k \in 1 .. Len(rest)
      PROVE  MayTake(w, S, V, rest[k]) /\ Interval(rest[k]) /\ Before(S, V, rest[k])
  <2> DEFINE q == slots[k + 1]
  <2>1. /\ rest[k] = q /\ k + 1 \in 1 .. Len(slots) /\ 1 < k + 1
        /\ DOMAIN q \subseteq Cells /\ \A x \in DOMAIN q : q[x] \in Int
    BY <1>1, <1>3
  <2>2. MayTake(w, S, U, q) /\ Interval(q) /\ Before(S, U, q)
    BY <1>5, <2>1
  <2>3. Follow(w, place, q)
    BY <1>1, <1>6, <2>1 DEF place
  <2> HIDE DEF q
  <2>4. ASSUME NEW i \in DOMAIN q, NEW s \in V[i].seq, s \in S, NEW x \in DOMAIN q
        PROVE  Masked(w, V[i].pos, q[x])
    <3>1. i \in Cells /\ s \in d.seq[i] /\ V[i].pos = d.pos[i]
      BY <1>2, <2>1, <2>4
    <3>2. CASE i \in DOMAIN place
      <4>1. d.pos[i] = place[i]
        BY <1>4, <3>1, <3>2 DEF Placed
      <4>2. QED
        BY <2>3, <3>1, <3>2, <4>1 DEF Follow
    <3>3. CASE i \notin DOMAIN place
      <4>1. d.pos[i] = c.pos[i] /\ s \in c.seq[i]
        BY <1>4, <3>1, <3>3 DEF Placed
      <4>2. QED
        BY <1>2, <2>2, <2>4, <3>1, <4>1 DEF MayTake
    <3>4. QED
      BY <3>2, <3>3
  <2>5. ASSUME NEW i \in DOMAIN q, NEW s \in V[i].seq, s \notin S
        PROVE  \E x \in Cells : s \in V[x].seq /\ Masked(w, V[i].pos, V[x].pos + 1)
    <3>1. i \in Cells /\ s \in d.seq[i] /\ V[i].pos = d.pos[i]
      BY <1>2, <2>1, <2>5
    <3>2. i \notin DOMAIN place
      BY <1>4, <2>5, <3>1 DEF Placed
    <3>3. d.pos[i] = c.pos[i] /\ s \in c.seq[i] /\ ~Cut(c, place, s, c.pos[i])
      BY <1>4, <3>1, <3>2 DEF Placed
    <3>4. PICK x \in Cells : s \in U[x].seq /\ Masked(w, U[i].pos, U[x].pos + 1)
      BY <1>2, <2>2, <2>5, <3>1, <3>3 DEF MayTake
    <3>5. s \in c.seq[x] /\ Masked(w, c.pos[i], c.pos[x] + 1) /\ c.pos[i] <= c.pos[x]
      <4>1. s \in c.seq[x] /\ Masked(w, c.pos[i], c.pos[x] + 1)
        BY <1>2, <3>1, <3>4
      <4>2. QED
        BY <1>2, <3>1, <4>1 DEF Masked
    <3>6. x \notin DOMAIN place
      BY <3>3, <3>5 DEF Cut
    <3>7. ~Cut(c, place, s, c.pos[x])
      <4> SUFFICES ASSUME NEW j \in DOMAIN place, s \in c.seq[j], c.pos[x] <= c.pos[j] PROVE FALSE
        BY DEF Cut
      <4>1. j \in Cells
        BY <1>1, <1>3 DEF place
      <4>2. c.pos[i] <= c.pos[j]
        BY <1>2, <3>1, <3>5, <4>1
      <4>3. QED
        BY <3>3, <4>2 DEF Cut
    <3>8. s \in d.seq[x] /\ d.pos[x] = c.pos[x]
      <4>1. s \in d.seq[x]
        BY <1>4, <3>5, <3>6, <3>7 DEF Placed
      <4>2. QED
        BY <1>4, <3>6, <4>1 DEF Placed
    <3>9. QED
      BY <1>2, <3>1, <3>3, <3>5, <3>8
  <2>6. ASSUME NEW i \in Cells, NEW s \in S \cap V[i].seq, NEW x \in DOMAIN q
        PROVE  V[i].pos < q[x]
    <3>1. s \in d.seq[i] /\ V[i].pos = d.pos[i]
      BY <1>2
    <3>2. CASE i \in DOMAIN place
      <4>1. d.pos[i] = place[i]
        BY <1>4, <3>1, <3>2 DEF Placed
      <4>2. QED
        BY <2>3, <3>1, <3>2, <4>1 DEF Follow
    <3>3. CASE i \notin DOMAIN place
      <4>1. d.pos[i] = c.pos[i] /\ s \in c.seq[i]
        BY <1>4, <3>1, <3>3 DEF Placed
      <4>2. QED
        BY <1>2, <2>2, <3>1, <4>1 DEF Before
    <3>4. QED
      BY <3>2, <3>3
  <2>7. QED
    BY <2>1, <2>2, <2>4, <2>5, <2>6 DEF MayTake, Before
<1>8. ASSUME NEW j \in 1 .. Len(rest), NEW k \in 1 .. Len(rest), j < k
      PROVE  Follow(w, rest[j], rest[k])
  <2>1. /\ j + 1 \in 1 .. Len(slots) /\ k + 1 \in 1 .. Len(slots) /\ j + 1 < k + 1
        /\ rest[j] = slots[j + 1] /\ rest[k] = slots[k + 1]
    BY <1>1, <1>8
  <2>2. QED
    BY <1>6, <2>1
<1>9. QED
  BY <1>7, <1>8 DEF Plan, V, rest

\* What the search knows of a slot: its cells hold nothing, or tokens that the next one of
\* their sequence does not see.
Usable(w, c, place) ==
    \A i \in DOMAIN place : \A s \in c.seq[i] :
        \E x \in Cells : s \in c.seq[x] /\ Masked(w, c.pos[i], c.pos[x] + 1)

InSlots(slots, i) == \E j \in 1 .. Len(slots) : i \in DOMAIN slots[j]

\* Finding one more slot, and placing its ubatch in the cells c, keeps the plan for the
\* contents U that they get back.
LEMMA PlanGrows ==
    ASSUME NEW w \in Nat, NEW S, S # {}, NEW c \in CellsType, NEW d \in CellsType,
           NEW U \in [Cells -> Cell], NEW V \in [Cells -> Cell],
           NEW slots \in Seq(Slots), NEW place \in Slots, NEW base \in Int, NEW next \in Int,
           base <= next,
           Plan(w, S, U, slots), Simulated(w, S, c, slots, base), Placed(c, d, place, S),
           Usable(w, c, place), Interval(place),
           \A i \in DOMAIN place : base <= place[i] /\ place[i] < next,
           \A i \in Cells : ~InSlots(slots, i) => U[i] = Content(c, i),
           \A i \in Cells :
              V[i] = IF InSlots(slots, i) \/ i \in DOMAIN place THEN U[i] ELSE Content(d, i),
           \A i \in Cells : \A s \in S \cap U[i].seq : U[i].pos < base
    PROVE  /\ Plan(w, S, V, Append(slots, place))
           /\ Simulated(w, S, d, Append(slots, place), next)
<1> DEFINE more == Append(slots, place)
           n    == Len(slots) + 1
<1>1. /\ Len(slots) \in Nat /\ Len(more) = n /\ more[n] = place
      /\ \A k \in 1 .. Len(slots) : more[k] = slots[k]
      /\ \A k \in 1 .. n : k \in 1 .. Len(slots) \/ k = n
  OBVIOUS
<1>2. \A i \in Cells : /\ c.pos[i] \in Int /\ d.pos[i] \in Int
                       /\ U[i].pos \in Int /\ V[i].pos \in Int
  BY CellsAssumption DEF Cell, CellsType, Positions
<1>3. /\ DOMAIN place \subseteq Cells /\ \A x \in DOMAIN place : place[x] \in Int
      /\ \A k \in 1 .. Len(slots) :
            DOMAIN slots[k] \subseteq Cells /\ \A x \in DOMAIN slots[k] : slots[k][x] \in Int
  <2>1. \A q \in Slots : DOMAIN q \subseteq Cells /\ \A x \in DOMAIN q : q[x] \in Int
    <3> SUFFICES ASSUME NEW q \in Slots
                 PROVE  DOMAIN q \subseteq Cells /\ \A x \in DOMAIN q : q[x] \in Int
      OBVIOUS
    <3>1. PICK R \in SUBSET Cells : q \in [R -> Positions]
      BY DEF Slots
    <3>2. QED
      BY <3>1, CellsAssumption DEF Positions
  <2>2. \A k \in 1 .. Len(slots) : slots[k] \in Slots
    OBVIOUS
  <2>3. QED
    BY <2>1, <2>2
<1>4. \A k \in 1 .. Len(slots) : MayTake(w, S, U, slots[k]) /\ Interval(slots[k]) /\ Before(S, U, slots[k])
  BY DEF Plan
<1>5. \A j, k \in 1 .. Len(slots) : j < k => Follow(w, slots[j], slots[k])
  BY DEF Plan
<1> HIDE DEF more, n
<1>6. \A i \in Cells : /\ V[i].seq \subseteq U[i].seq
                       /\ V[i].seq # {} => V[i].pos = U[i].pos
  <2> SUFFICES ASSUME NEW i \in Cells
               PROVE  V[i].seq \subseteq U[i].seq /\ (V[i].seq # {} => V[i].pos = U[i].pos)
    OBVIOUS
  <2>1. CASE InSlots(slots, i) \/ i \in DOMAIN place
    BY <2>1
  <2>2. CASE ~InSlots(slots, i) /\ i \notin DOMAIN place
    <3>1. V[i] = Content(d, i) /\ U[i] = Content(c, i)
      BY <2>2
    <3>2. d.seq[i] \subseteq c.seq[i] /\ (d.seq[i] # {} => d.pos[i] = c.pos[i])
      BY <2>2 DEF Placed
    <3>3. QED
      BY <3>1, <3>2 DEF Content
  <2>3. QED
    BY <2>1, <2>2
\* Sequences that are not of the batch are in cells of no slot.
<1>7. \A i \in Cells : \A s \in c.seq[i] :
         s \notin S => ~InSlots(slots, i) /\ U[i].seq = c.seq[i] /\ U[i].pos = c.pos[i]
  BY DEF Simulated, InSlots, Content
<1>8. ASSUME NEW s, s \notin S, NEW x \in Cells, s \in U[x].seq, NEW p \in Int,
             Masked(w, p, U[x].pos + 1)
      PROVE  \E y \in Cells : s \in V[y].seq /\ Masked(w, p, V[y].pos + 1)
  <2>1. CASE InSlots(slots, x) \/ x \in DOMAIN place
    BY <1>8, <2>1
  <2>2. CASE ~InSlots(slots, x) /\ x \notin DOMAIN place
    <3>1. V[x] = Content(d, x) /\ U[x] = Content(c, x)
      BY <2>2
    <3>2. s \in c.seq[x] /\ U[x].pos = c.pos[x]
      BY <1>8, <3>1 DEF Content
    <3>3. CASE Cut(c, place, s, c.pos[x])
      <4>1. PICK j \in DOMAIN place : s \in c.seq[j] /\ c.pos[x] <= c.pos[j]
        BY <3>3 DEF Cut
      <4>2. j \in Cells /\ U[j].seq = c.seq[j] /\ U[j].pos = c.pos[j] /\ V[j] = U[j]
        BY <1>3, <1>7, <1>8, <4>1
      <4>3. Masked(w, p, c.pos[j] + 1)
        BY <1>2, <1>8, <3>2, <4>1, <4>2, MaskedMore
      <4>4. QED
        BY <4>1, <4>2, <4>3
    <3>4. CASE ~Cut(c, place, s, c.pos[x])
      <4>1. s \in d.seq[x]
        BY <2>2, <3>2, <3>4 DEF Placed
      <4>2. d.pos[x] = c.pos[x]
        BY <2>2, <4>1 DEF Placed
      <4>3. QED
        BY <1>8, <3>1, <3>2, <4>1, <4>2 DEF Content
    <3>5. QED
      BY <3>3, <3>4
  <2>3. QED
    BY <2>1, <2>2
\* What is in a cell of the new slot is masked from the position base on.
<1>9. ASSUME NEW i \in DOMAIN place, NEW s \in c.seq[i], s \in S
      PROVE  Masked(w, c.pos[i], base)
  <2>1. PICK x \in Cells : s \in c.seq[x] /\ Masked(w, c.pos[i], c.pos[x] + 1)
    BY DEF Usable
  <2>2. c.pos[x] < base
    BY <1>9, <2>1 DEF Simulated
  <2>3. c.pos[x] + 1 <= base /\ c.pos[i] <= c.pos[i] /\ i \in Cells
    BY <1>2, <1>3, <2>2
  <2>4. QED
    BY <1>2, <2>1, <2>3, MaskedMore
<1>10. ASSUME NEW p \in Int, Masked(w, p, base), NEW x \in DOMAIN place
       PROVE  Masked(w, p, place[x])
  BY <1>3, <1>10, MaskedMore
<1>11. ASSUME NEW p \in Int, Masked(w, p, base)
       PROVE  Masked(w, p, next)
  BY <1>11, MaskedMore
\* A token of an earlier slot whose cell is taken again is masked from base on.
<1>12. ASSUME NEW j \in 1 .. Len(slots), NEW i \in DOMAIN slots[j], i \in DOMAIN place
       PROVE  Masked(w, slots[j][i], base)
  <2>1. CASE Masked(w, slots[j][i], base)
    BY <2>1
  <2>2. CASE c.seq[i] # {} /\ c.pos[i] = slots[j][i]
    <3>1. PICK s \in c.seq[i] : s \in S
      BY <2>2 DEF Simulated
    <3>2. QED
      BY <1>9, <1>12, <2>2, <3>1
  <2>3. QED
    BY <2>1, <2>2 DEF Simulated
<1>13. ASSUME NEW q, DOMAIN q \subseteq Cells, MayTake(w, S, U, q),
              \A i \in DOMAIN q : V[i] = U[i]
       PROVE  MayTake(w, S, V, q)
  <2>1. ASSUME NEW i \in DOMAIN q, NEW s \in V[i].seq, s \in S
        PROVE  \A x \in DOMAIN q : Masked(w, V[i].pos, q[x])
    BY <1>13, <2>1 DEF MayTake
  <2>2. ASSUME NEW i \in DOMAIN q, NEW s \in V[i].seq, s \notin S
        PROVE  \E x \in Cells : s \in V[x].seq /\ Masked(w, V[i].pos, V[x].pos + 1)
    <3>1. PICK x \in Cells : s \in U[x].seq /\ Masked(w, U[i].pos, U[x].pos + 1)
      BY <1>13, <2>2 DEF MayTake
    <3>2. U[i].pos \in Int /\ V[i] = U[i]
      BY <1>2, <1>13
    <3>3. QED
      BY <1>8, <2>2, <3>1, <3>2
  <2>3. QED
    BY <2>1, <2>2 DEF MayTake
<1>14. ASSUME NEW k \in 1 .. n
       PROVE  MayTake(w, S, V, more[k]) /\ Interval(more[k]) /\ Before(S, V, more[k])
  <2>1. CASE k \in 1 .. Len(slots)
    <3>1. more[k] = slots[k] /\ DOMAIN slots[k] \subseteq Cells
      BY <1>1, <1>3, <2>1
    <3>2. MayTake(w, S, U, slots[k]) /\ Interval(slots[k]) /\ Before(S, U, slots[k])
      BY <1>4, <2>1
    <3>3. \A i \in DOMAIN slots[k] : V[i] = U[i]
      BY <2>1, <3>1 DEF InSlots
    <3>4. MayTake(w, S, V, slots[k])
      BY <1>13, <3>1, <3>2, <3>3
    <3>5. Before(S, V, slots[k])
      <4> SUFFICES ASSUME NEW i \in Cells, NEW s \in S \cap V[i].seq, NEW x \in DOMAIN slots[k]
                   PROVE  V[i].pos < slots[k][x]
        BY DEF Before
      <4>1. s \in S \cap U[i].seq /\ V[i].pos = U[i].pos
        BY <1>6
      <4>2. QED
        BY <3>2, <4>1 DEF Before
    <3>6. QED
      BY <3>1, <3>2, <3>4, <3>5
  <2>2. CASE k = n
    <3>1. more[k] = place
      BY <1>1, <2>2
    <3>2. \A i \in DOMAIN place : V[i] = U[i]
      BY <1>3
    <3>3. MayTake(w, S, U, place)
      <4>1. ASSUME NEW i \in DOMAIN place, NEW s \in U[i].seq, InSlots(slots, i)
            PROVE  /\ s \in S => \A x \in DOMAIN place : Masked(w, U[i].pos, place[x])
                   /\ s \notin S => \E x \in Cells :
                                      s \in U[x].seq /\ Masked(w, U[i].pos, U[x].pos + 1)
        <5>1. PICK j \in 1 .. Len(slots) : i \in DOMAIN slots[j]
          BY <4>1 DEF InSlots
        <5>2. MayTake(w, S, U, slots[j]) /\ slots[j][i] \in Int /\ slots[j][i] < base
          BY <1>3, <1>4, <5>1 DEF Simulated
        <5>3. ASSUME s \in S
              PROVE  Masked(w, U[i].pos, base)
          <6>1. Masked(w, U[i].pos, slots[j][i])
            BY <5>1, <5>2, <5>3 DEF MayTake
          <6>2. U[i].pos \in Int /\ U[i].pos <= U[i].pos /\ slots[j][i] <= base
            BY <1>2, <1>3, <5>2
          <6>3. QED
            BY <5>2, <6>1, <6>2, MaskedMore
        <5>4. U[i].pos \in Int
          BY <1>2, <1>3
        <5>5. QED
          BY <1>10, <5>1, <5>2, <5>3, <5>4 DEF MayTake
      <4>2. ASSUME NEW i \in DOMAIN place, NEW s \in U[i].seq, ~InSlots(slots, i)
            PROVE  /\ s \in S => \A x \in DOMAIN place : Masked(w, U[i].pos, place[x])
                   /\ s \notin S => \E x \in Cells :
                                      s \in U[x].seq /\ Masked(w, U[i].pos, U[x].pos + 1)
        <5>1. U[i].pos = c.pos[i] /\ s \in c.seq[i] /\ c.pos[i] \in Int
          BY <1>2, <1>3, <4>2 DEF Content
        <5>2. s \in S => \A x \in DOMAIN place : Masked(w, U[i].pos, place[x])
          BY <1>9, <1>10, <5>1
        <5>3. ASSUME s \notin S
              PROVE  \E x \in Cells : s \in U[x].seq /\ Masked(w, U[i].pos, U[x].pos + 1)
          <6>1. PICK x \in Cells : s \in c.seq[x] /\ Masked(w, c.pos[i], c.pos[x] + 1)
            BY <5>1 DEF Usable
          <6>2. QED
            BY <1>7, <5>1, <5>3, <6>1
        <5>4. QED
          BY <5>2, <5>3
      <4>3. QED
        BY <4>1, <4>2 DEF MayTake
    <3>4. MayTake(w, S, V, place)
      BY <1>3, <1>13, <3>2, <3>3
    <3>5. Before(S, V, place)
      <4> SUFFICES ASSUME NEW i \in Cells, NEW s \in S \cap V[i].seq, NEW x \in DOMAIN place
                   PROVE  V[i].pos < place[x]
        BY DEF Before
      <4>1. s \in S \cap U[i].seq /\ V[i].pos = U[i].pos
        BY <1>6
      <4>2. U[i].pos < base /\ base <= place[x]
        BY <4>1
      <4>3. QED
        BY <1>2, <1>3, <4>1, <4>2
    <3>6. QED
      BY <3>1, <3>4, <3>5
  <2>3. QED
    BY <1>1, <2>1, <2>2
<1>15. ASSUME NEW j \in 1 .. n, NEW k \in 1 .. n, j < k
       PROVE  Follow(w, more[j], more[k])
  <2>1. j \in 1 .. Len(slots)
    BY <1>1, <1>15 DEF n
  <2>2. CASE k \in 1 .. Len(slots)
    BY <1>1, <1>5, <1>15, <2>1, <2>2
  <2>3. CASE k = n
    <3>1. more[j] = slots[j] /\ more[k] = place
      BY <1>1, <2>1, <2>3
    <3>2. \A x \in DOMAIN slots[j], y \in DOMAIN place : slots[j][x] < place[y]
      <4> SUFFICES ASSUME NEW x \in DOMAIN slots[j], NEW y \in DOMAIN place
                   PROVE  slots[j][x] < place[y]
        OBVIOUS
      <4>1. slots[j][x] < base /\ base <= place[y]
        BY <2>1 DEF Simulated
      <4>2. QED
        BY <1>3, <2>1, <4>1
    <3>3. \A i \in DOMAIN slots[j] \cap DOMAIN place : \A x \in DOMAIN place :
             Masked(w, slots[j][i], place[x])
      BY <1>3, <1>10, <1>12, <2>1
    <3>4. QED
      BY <3>1, <3>2, <3>3 DEF Follow
  <2>4. QED
    BY <1>1, <2>2, <2>3
<1>16. ASSUME NEW i \in Cells, NEW s \in S \cap d.seq[i]
       PROVE  d.pos[i] < next
  <2>1. CASE i \in DOMAIN place
    BY <2>1 DEF Placed
  <2>2. CASE i \notin DOMAIN place
    <3>1. s \in c.seq[i] /\ d.pos[i] = c.pos[i]
      BY <2>2 DEF Placed
    <3>2. c.pos[i] < base
      BY <3>1 DEF Simulated
    <3>3. QED
      BY <1>2, <3>1, <3>2
  <2>3. QED
    BY <2>1, <2>2
<1>17. ASSUME NEW j \in 1 .. Len(slots), NEW i \in DOMAIN slots[j]
       PROVE  /\ slots[j][i] < next
              /\ d.seq[i] \subseteq S
              /\ Masked(w, slots[j][i], next) \/ (d.seq[i] # {} /\ d.pos[i] = slots[j][i])
  <2>1. /\ i \in Cells /\ slots[j][i] \in Int /\ slots[j][i] < base /\ c.seq[i] \subseteq S
        /\ Masked(w, slots[j][i], base) \/ (c.seq[i] # {} /\ c.pos[i] = slots[j][i])
    BY <1>3 DEF Simulated
  <2>2. d.seq[i] \subseteq S
    <3>1. i \in DOMAIN place => d.seq[i] \subseteq S
      BY <2>1 DEF Placed
    <3>2. i \notin DOMAIN place => d.seq[i] \subseteq c.seq[i]
      BY <2>1 DEF Placed
    <3>3. QED
      BY <2>1, <3>1, <3>2
  <2>3. CASE Masked(w, slots[j][i], base)
    BY <1>11, <2>1, <2>2, <2>3
  <2>4. CASE i \in DOMAIN place
    BY <1>11, <1>12, <2>1, <2>2, <2>4
  <2>5. CASE i \notin DOMAIN place /\ c.seq[i] # {} /\ c.pos[i] = slots[j][i]
    <3>1. CASE d.seq[i] # {}
      <4>1. d.pos[i] = c.pos[i]
        BY <2>1, <2>5, <3>1 DEF Placed
      <4>2. QED
        BY <2>1, <2>2, <2>5, <3>1, <4>1
    <3>2. CASE d.seq[i] = {}
      <4>1. PICK s \in c.seq[i] : Cut(c, place, s, c.pos[i])
        BY <2>1, <2>5, <3>2 DEF Placed
      <4>2. PICK y \in DOMAIN place : s \in c.seq[y] /\ c.pos[i] <= c.pos[y]
        BY <4>1 DEF Cut
      <4>3. Masked(w, c.pos[y], base)
        BY <1>9, <2>1, <4>1, <4>2
      <4>4. y \in Cells /\ c.pos[y] \in Int /\ c.pos[i] \in Int
        BY <1>2, <1>3, <2>1
      <4>5. Masked(w, c.pos[i], next)
        BY <4>2, <4>3, <4>4, MaskedMore
      <4>6. QED
        BY <2>1, <2>2, <2>5, <4>5
    <3>3. QED
      BY <3>1, <3>2
  <2>6. QED
    BY <2>1, <2>3, <2>4, <2>5
<1>18. ASSUME NEW i \in DOMAIN place
       PROVE  place[i] < next /\ d.seq[i] \subseteq S /\ d.seq[i] # {} /\ d.pos[i] = place[i]
  <2>1. i \in Cells
    BY <1>3
  <2>2. d.seq[i] = {s \in S : ~Cut(c, place, s, place[i])}
    BY <2>1 DEF Placed
  <2>3. PICK s \in S : TRUE
    OBVIOUS
  <2>4. ~Cut(c, place, s, place[i])
    <3> SUFFICES ASSUME NEW j \in DOMAIN place, s \in c.seq[j], place[i] <= c.pos[j] PROVE FALSE
      BY DEF Cut
    <3>1. j \in Cells /\ c.pos[j] \in Int /\ place[i] \in Int
      BY <1>2, <1>3
    <3>2. c.pos[j] < base /\ base <= place[i]
      BY <3>1 DEF Simulated
    <3>3. QED
      BY <3>1, <3>2
  <2>5. d.seq[i] # {}
    BY <2>2, <2>3, <2>4
  <2>6. d.pos[i] = place[i]
    BY <2>1, <2>5 DEF Placed
  <2>7. QED
    BY <2>2, <2>5, <2>6
<1>19. Plan(w, S, V, more)
  BY <1>1, <1>14, <1>15 DEF Plan
<1>20. Simulated(w, S, d, more, next)
  <2>1. ASSUME NEW k \in 1 .. n, NEW i \in DOMAIN more[k]
        PROVE  /\ more[k][i] < next
               /\ d.seq[i] \subseteq S
               /\ Masked(w, more[k][i], next) \/ (d.seq[i] # {} /\ d.pos[i] = more[k][i])
    BY <1>1, <1>17, <1>18, <2>1
  <2>2. QED
    BY <1>1, <1>16, <2>1 DEF Simulated
<1>21. QED
  BY <1>19, <1>20 DEF more

-----------------------------------------------------------------------------
(* The recovery stack and the slots of a decode *)

Busy == call \in {"prepare", "restore", "compute"}

\* The stack has an entry for each slot while prepare looks for more, and is popped
\* before the slots are used; the slots are for no more than the tokens of the batch.
StackInv ==
    /\ call \in {"idle", "prepare", "restore", "compute", "failed"}
    /\ call \notin {"prepare", "restore"} => states = <<>>
    /\ call \in {"idle", "failed"} => sinfos = <<>>
    /\ Len(states) <= Len(sinfos)
    /\ \A j \in 1 .. Len(states) : DOMAIN states[j].cells = DOMAIN sinfos[j]
    /\ call = "prepare" => Len(states) = Len(sinfos)
    /\ Busy => NUbatch * Len(sinfos) < batch.n + NUbatch

\* One more, or one less, times a number.
LEMMA OneMore ==
    ASSUME NEW m \in Nat, NEW k \in Nat
    PROVE  m * k \in Nat /\ m * (k + 1) = m * k + m
OBVIOUS

LEMMA PrepareStack ==
    ASSUME Inv, StackInv, Prepare
    PROVE  StackInv'
<1> DEFINE place == NextSlot
           saved == [heads |-> v_heads, cells |-> Cp(v_cells[BatchStream], DOMAIN place)]
<1>1. /\ call = "prepare" /\ call' = call /\ batch' = batch
      /\ sinfos' = Append(sinfos, place) /\ states' = Append(states, saved)
      /\ Unplaced > 0
  BY DEF Prepare
<1>2. DOMAIN saved.cells = DOMAIN place
  BY DEF Cp
<1> HIDE DEF place, saved
<1>3. /\ Len(sinfos) \in Nat /\ Len(states) = Len(sinfos)
      /\ sinfos \in Seq(Slots) /\ states \in Seq([heads : [Streams -> Heads], cells : Saved])
  BY <1>1 DEF Inv, SlotsInv, StackInv
<1> DEFINE n == Len(sinfos)
<1>4. /\ Len(sinfos') = n + 1 /\ Len(states') = n + 1
      /\ \A j \in 1 .. n : sinfos'[j] = sinfos[j] /\ states'[j] = states[j]
      /\ sinfos'[n + 1] = place /\ states'[n + 1] = saved
  BY <1>1, <1>3
<1>5. NUbatch \in Nat /\ batch.n \in Nat /\ n \in Nat
  BY <1>1, <1>3, CacheAssumption DEF Inv, DecodeInv, Batches
<1>6. \A j \in 1 .. n : DOMAIN states[j].cells = DOMAIN sinfos[j]
  BY <1>3 DEF StackInv
<1>7. batch.n - NUbatch * n > 0
  BY <1>1 DEF Unplaced
<1> HIDE DEF n
<1>8. \A j \in 1 .. n + 1 : DOMAIN states'[j].cells = DOMAIN sinfos'[j]
  <2>1. \A j \in 1 .. n + 1 : j \in 1 .. n \/ j = n + 1
    BY <1>5
  <2>2. QED
    BY <1>2, <1>4, <1>6, <2>1
<1>9. NUbatch * Len(sinfos') < batch'.n + NUbatch
  <2>1. NUbatch * (n + 1) = NUbatch * n + NUbatch /\ NUbatch * n \in Nat
    BY <1>5, OneMore
  <2>2. NUbatch * (n + 1) < batch.n + NUbatch
    BY <1>5, <1>7, <2>1
  <2>3. QED
    BY <1>1, <1>4, <2>2
<1>10. Len(states') <= Len(sinfos')
  BY <1>4, <1>5
<1>11. QED
  BY <1>1, <1>4, <1>8, <1>9, <1>10 DEF StackInv, Busy

LEMMA RestoreStack ==
    ASSUME Inv, StackInv, Restore
    PROVE  StackInv'
<1> DEFINE n == Len(states)
<1>1. /\ call = "restore" /\ call' = call /\ batch' = batch /\ sinfos' = sinfos
      /\ states # <<>> /\ states' = SubSeq(states, 1, n - 1)
  BY DEF Restore
<1>2. /\ n \in Nat \ {0} /\ Len(states') = n - 1
      /\ \A j \in 1 .. n - 1 : states'[j] = states[j]
  <2>1. states \in Seq([heads : [Streams -> Heads], cells : Saved])
    BY DEF Inv, SlotsInv
  <2>2. QED
    BY <1>1, <2>1, Shortened
<1>3. n <= Len(sinfos) /\ \A j \in 1 .. n : DOMAIN states[j].cells = DOMAIN sinfos[j]
  BY DEF StackInv
<1>4. Len(sinfos) \in Nat
  BY DEF Inv, SlotsInv
<1> HIDE DEF n
<1>5. Len(states') <= Len(sinfos) /\ \A j \in 1 .. n - 1 : DOMAIN states'[j].cells = DOMAIN sinfos[j]
  BY <1>2, <1>3, <1>4
<1>6. NUbatch * Len(sinfos) < batch.n + NUbatch
  BY <1>1 DEF StackInv, Busy
<1>7. QED
  BY <1>1, <1>2, <1>5, <1>6 DEF StackInv, Busy

LEMMA ComputeStack ==
    ASSUME Inv, StackInv, Compute
    PROVE  StackInv'
<1>1. call = "compute" /\ states' = states /\ states = <<>> /\ sinfos' = Tail(sinfos)
  BY DEF Compute, StackInv
<1>2. sinfos # <<>> /\ sinfos \in Seq(Slots) /\ NUbatch \in Nat /\ batch.n \in Nat
  BY <1>1, CacheAssumption DEF Inv, DecodeInv, SlotsInv, Batches
<1> DEFINE n == Len(sinfos')
<1>3. Len(sinfos) = n + 1 /\ n \in Nat
  BY <1>1, <1>2
<1>4. CASE Tail(sinfos) = <<>>
  <2>1. call' = "idle" /\ sinfos' = <<>> /\ states' = <<>>
    BY <1>1, <1>4 DEF Compute, Return
  <2>2. QED
    BY <2>1 DEF StackInv, Busy
<1>5. CASE Tail(sinfos) # <<>>
  <2>1. call' = call /\ batch' = batch /\ states' = <<>>
    BY <1>1, <1>5 DEF Compute
  <2>2. NUbatch * Len(sinfos) < batch.n + NUbatch
    BY <1>1 DEF StackInv, Busy
  <2> HIDE DEF n
  <2>3. NUbatch * (n + 1) = NUbatch * n + NUbatch /\ NUbatch * n \in Nat
    BY <1>2, <1>3, OneMore
  <2>4. NUbatch * n < batch.n + NUbatch
    BY <1>2, <1>3, <2>2, <2>3
  <2>5. Len(states') <= n /\ Len(states') = 0
    BY <1>3, <2>1
  <2>6. QED
    BY <1>1, <2>1, <2>4, <2>5 DEF StackInv, Busy, n
<1>6. QED
  BY <1>4, <1>5

LEMMA DecodeStack ==
    ASSUME Inv, StackInv, NEW S \in SUBSET Seqs, NEW n \in 1 .. MaxBatch, Decode(S, n)
    PROVE  StackInv'
<1>1. /\ call = "idle" /\ call' = "prepare" /\ sinfos' = sinfos /\ states' = states
      /\ batch'.n = n
  BY DEF Decode
<1>2. sinfos = <<>> /\ states = <<>>
  BY <1>1 DEF StackInv
<1>3. NUbatch \in Nat \ {0} /\ n \in Nat
  BY CacheAssumption
<1>4. NUbatch * Len(sinfos') < batch'.n + NUbatch
  BY <1>1, <1>2, <1>3
<1>5. QED
  BY <1>1, <1>2, <1>4 DEF StackInv, Busy

LEMMA StackNext == Inv /\ StackInv /\ [Next]_vars => StackInv'
<1> SUFFICES ASSUME Inv, StackInv, [Next]_vars PROVE StackInv'
  OBVIOUS
<1>1. ASSUME UNCHANGED callVars
      PROVE  StackInv'
  BY <1>1 DEF callVars, StackInv, Busy
<1>2. CASE Operation
  <2>1. UNCHANGED callVars
    BY <1>2 DEF Operation, SeqRemove, AnyRemove, CopySequence, CopyStream, Keep, AddShift,
                Divide, Clear
  <2>2. QED
    BY <1>1, <2>1
<1>3. CASE \E S \in SUBSET Seqs, n \in 1 .. MaxBatch : Decode(S, n)
  BY <1>3, DecodeStack
<1>4. CASE Prepare
  BY <1>4, PrepareStack
<1>5. CASE Prepared
  BY <1>5 DEF Prepared, StackInv, Busy
<1>6. CASE Restore
  BY <1>6, RestoreStack
<1>7. CASE Initiated
  <2>1. call = "restore" /\ states = <<>> /\ states' = states /\ batch' = batch
    BY <1>7 DEF Initiated, AllRestored
  <2>2. CASE call' = "compute" /\ sinfos' = sinfos
    BY <2>1, <2>2 DEF StackInv, Busy
  <2>3. CASE call' \in {"prepare", "failed"} /\ sinfos' = <<>>
    <3>1. NUbatch \in Nat \ {0} /\ batch.n \in Nat
      BY <2>1, CacheAssumption DEF Inv, DecodeInv, Batches
    <3>2. NUbatch * Len(sinfos') < batch'.n + NUbatch
      BY <2>1, <2>3, <3>1
    <3>3. QED
      BY <2>1, <2>3, <3>2 DEF StackInv, Busy
  <2>4. QED
    BY <1>7, <2>2, <2>3 DEF Initiated
<1>8. CASE Compute
  BY <1>8, ComputeStack
<1>9. CASE (\E s \in Seqs : ComputeFails(s)) \/ NoSlot
  <2>1. call' = "idle" /\ sinfos' = <<>> /\ states' = <<>>
    BY <1>9 DEF ComputeFails, NoSlot, Return, StackInv
  <2>2. QED
    BY <2>1 DEF StackInv, Busy
<1>10. CASE UNCHANGED vars
  BY <1>1, <1>10 DEF vars
<1>11. QED
  BY <1>2, <1>3, <1>4, <1>5, <1>6, <1>7, <1>8, <1>9, <1>10 DEF Next

-----------------------------------------------------------------------------
(* The plan of a decode *)

Recovery == [heads : [Streams -> Heads], cells : Saved]

\* The contents that the cells of the stream of the batch have once prepare is undone,
\* and the position of the next ubatch that it places.
Undone    == [i \in Cells |-> Restored(v_cells[BatchStream], states, i)]
PlaceFrom == batch.first + NUbatch * Len(sinfos)

PlanInv ==
    Busy =>
        /\ Plan(n_swa, batch.seqs, Undone, sinfos)
        /\ call # "compute" =>
              \A i \in Cells : \A s \in batch.seqs \cap Undone[i].seq : Undone[i].pos < batch.first
        /\ call = "prepare" =>
              Simulated(n_swa, batch.seqs, v_cells[BatchStream], sinfos, PlaceFrom)

LEMMA RestoredType ==
    ASSUME NEW c \in CellsType, NEW sts \in Seq(Recovery), NEW i \in Cells
    PROVE  Restored(c, sts, i) \in Cell
<1>1. CASE SavedIn(sts, i) = {}
  <2>1. Content(c, i) \in Cell
    BY DEF Content, Cell, CellsType
  <2>2. QED
    BY <1>1, <2>1 DEF Restored
<1>2. CASE SavedIn(sts, i) # {}
  <2> DEFINE x == Smallest(SavedIn(sts, i))
  <2>1. SavedIn(sts, i) \in SUBSET Nat
    BY DEF SavedIn
  <2>2. x \in SavedIn(sts, i)
    BY <1>2, <2>1, SmallestIn
  <2> HIDE DEF x
  <2>3. x \in 1 .. Len(sts) /\ i \in DOMAIN sts[x].cells
    BY <2>2 DEF SavedIn
  <2>4. sts[x] \in Recovery
    BY <2>3
  <2>5. sts[x].cells[i] \in Cell
    BY <2>3, <2>4 DEF Recovery, Saved
  <2>6. QED
    BY <1>2, <2>5 DEF Restored, x
<1>3. QED
  BY <1>1, <1>2

\* Nothing has been placed: the cells get back what they have.
LEMMA RestoredNow ==
    ASSUME NEW c
    PROVE  [i \in Cells |-> Restored(c, <<>>, i)] = Contents1(c)
BY RestoredByNothing DEF Contents1

LEMMA BatchStreamSame ==
    ASSUME UNCHANGED <<config, batch>>
    PROVE  BatchStream' = BatchStream
BY DEF BatchStream, StreamOf, config

\* The slot that prepare finds.
LEMMA NextSlotMeans ==
    ASSUME Inv, Prepare
    PROVE  /\ NextSlot \in Slots
           /\ Usable(n_swa, v_cells[BatchStream], NextSlot) /\ Interval(NextSlot)
           /\ \A i \in DOMAIN NextSlot :
                 PlaceFrom <= NextSlot[i] /\ NextSlot[i] < PlaceFrom + NUbatch
<1> DEFINE c     == v_cells[BatchStream]
           head  == v_heads[BatchStream]
           place == NextSlot
           first == PlaceFrom
           n     == NextSize
<1>1. call = "prepare" /\ batch \in Batches /\ BatchStream \in Streams /\ Unplaced > 0
  BY BatchStreamType DEF Prepare, Inv, DecodeInv
<1>2. Good(c) /\ Indexed(c) /\ c \in CellsType /\ head \in Heads
  BY <1>1 DEF Inv, CellsInv, HeadsInv, Good, Indexed
<1>3. first \in Nat /\ n \in Nat /\ first + n - 1 <= MaxPos
  BY <1>1, NextRange DEF PlaceFrom
<1>4. n <= NUbatch /\ NUbatch \in Nat
  <2>1. Unplaced \in Int /\ NUbatch \in Nat
    <3>1. Len(sinfos) \in Nat /\ NUbatch \in Nat /\ batch.n \in Nat
      BY <1>1, CacheAssumption DEF Inv, SlotsInv, Batches
    <3>2. QED
      BY <3>1 DEF Unplaced
  <2>2. QED
    BY <2>1 DEF NextSize
<1>5. place = FindSlot(c, head, first, n) /\ place # <<>>
  BY DEF NextSlot, Prepare, PlaceFrom
<1> HIDE DEF c, head, place, first, n
<1>6. /\ \A i \in DOMAIN place :
            i \in Cells /\ CanUse(c, i) /\ place[i] \in first .. first + n - 1
      /\ \A i \in DOMAIN place, v \in first .. first + n - 1 :
            v <= place[i] => \E j \in DOMAIN place : place[j] = v
  BY <1>2, <1>3, <1>5, FindSlotMeans
<1>7. place \in Slots
  BY <1>3, <1>5, FindSlotType
<1>8. Usable(n_swa, c, place)
  <2> SUFFICES ASSUME NEW i \in DOMAIN place, NEW s \in c.seq[i]
               PROVE  \E x \in Cells : s \in c.seq[x] /\ Masked(n_swa, c.pos[i], c.pos[x] + 1)
    BY DEF Usable
  <2>1. i \in Cells /\ CanUse(c, i) /\ s \in Seqs
    BY <1>2, <1>6 DEF CellsType
  <2>2. c.pos[i] # -1
    BY <1>2, <2>1 DEF Indexed
  <2>3. IsMaskedSwa(c.pos[i], SeqPosMax(c, s) + 1)
    BY <2>1, <2>2 DEF CanUse
  <2>4. PICK x \in Cells : s \in c.seq[x] /\ c.pos[x] = SeqPosMax(c, s)
    BY <1>2, <2>1, SeqPosMaxMeans
  <2>5. QED
    BY <2>3, <2>4, MaskedMeans
<1>9. Interval(place)
  <2> SUFFICES ASSUME NEW x \in DOMAIN place, NEW y \in DOMAIN place, NEW v \in Int,
                      place[x] <= v, v <= place[y]
               PROVE  \E z \in DOMAIN place : place[z] = v
    BY DEF Interval
  <2>1. place[x] \in first .. first + n - 1 /\ place[y] \in first .. first + n - 1
    BY <1>6
  <2>2. v \in first .. first + n - 1
    BY <1>3, <2>1
  <2>3. QED
    BY <1>6, <2>2
<1>10. \A i \in DOMAIN place : first <= place[i] /\ place[i] < first + NUbatch
  <2> SUFFICES ASSUME NEW i \in DOMAIN place
               PROVE  first <= place[i] /\ place[i] < first + NUbatch
    OBVIOUS
  <2>1. place[i] \in first .. first + n - 1
    BY <1>6
  <2>2. QED
    BY <1>3, <1>4, <2>1
<1>11. QED
  BY <1>7, <1>8, <1>9, <1>10 DEF c, place, first

\* What Prepare does to the contents that the cells get back: a cell of no slot has the
\* contents it now has.
LEMMA PrepareUndone ==
    ASSUME Inv, StackInv, Prepare,
           NEW c, c = v_cells[BatchStream], NEW d, d = Apply(c, NextSlot)
    PROVE  /\ v_cells' = [v_cells EXCEPT ![BatchStream] = d]
           /\ BatchStream \in Streams /\ BatchStream' = BatchStream
           /\ c \in CellsType /\ d \in CellsType
           /\ Undone \in [Cells -> Cell] /\ Undone' \in [Cells -> Cell]
           /\ \A i \in Cells : ~InSlots(sinfos, i) => Undone[i] = Content(c, i)
           /\ \A i \in Cells :
                 Undone'[i] = IF InSlots(sinfos, i) \/ i \in DOMAIN NextSlot
                              THEN Undone[i] ELSE Content(d, i)
           /\ Placed(c, d, NextSlot, batch.seqs)
<1> DEFINE place == NextSlot
           saved == [heads |-> v_heads, cells |-> Cp(c, DOMAIN place)]
<1>1. /\ call = "prepare" /\ batch \in Batches /\ BatchStream \in Streams
      /\ BatchStream' = BatchStream
  BY BatchStreamType, BatchStreamSame DEF Prepare, Inv, DecodeInv
<1>2. Good(c) /\ Unshifted(c) /\ c \in CellsType
  BY <1>1 DEF Inv, CellsInv, DecodeInv
<1>3. place \in Slots
  BY NextSlotMeans
<1>4. states' = Append(states, saved) /\ v_cells' = [v_cells EXCEPT ![BatchStream] = d]
  BY DEF Prepare, Change
<1>5. saved.cells = Cp(c, DOMAIN place) /\ DOMAIN place \in SUBSET Cells
  BY <1>3 DEF Slots
<1>6. states \in Seq(Recovery) /\ states' \in Seq(Recovery)
  BY PrepareInv DEF Inv, SlotsInv, Recovery, Streams
<1> HIDE DEF place, saved
<1>7. Good(d) /\ d \in CellsType /\ Placed(c, d, place, batch.seqs)
  <2>1. Good(Apply(c, place)) /\ Placed(c, Apply(c, place), place, batch.seqs)
    BY <1>1, <1>2, <1>3, ApplyGood, ApplyPlaced
  <2>2. QED
    BY <2>1 DEF place, Good, Indexed
<1>8. v_cells'[BatchStream] = d /\ v_cells[BatchStream] = c
  BY <1>1, <1>4 DEF Inv, CellsInv
<1>9. \A i \in Cells : Undone[i] = Restored(c, states, i) /\ Undone'[i] = Restored(d, states', i)
  BY <1>1, <1>8 DEF Undone
<1>10. Undone \in [Cells -> Cell] /\ Undone' \in [Cells -> Cell]
  <2>1. \A i \in Cells : Restored(c, states, i) \in Cell /\ Restored(d, states', i) \in Cell
    BY <1>2, <1>6, <1>7, RestoredType
  <2>2. Undone = [i \in Cells |-> Restored(c, states, i)]
    BY <1>8 DEF Undone
  <2>3. Undone' = [i \in Cells |-> Restored(d, states', i)]
    BY <1>1, <1>8 DEF Undone
  <2>4. QED
    BY <2>1, <2>2, <2>3
<1>11. ASSUME NEW i \in Cells
       PROVE  SavedIn(states, i) # {} <=> InSlots(sinfos, i)
  <2>1. /\ Len(states) = Len(sinfos)
        /\ \A j \in 1 .. Len(states) : DOMAIN states[j].cells = DOMAIN sinfos[j]
    BY <1>1 DEF StackInv
  <2>2. QED
    BY <2>1 DEF SavedIn, InSlots
<1>12. ASSUME NEW i \in Cells, ~InSlots(sinfos, i)
       PROVE  Undone[i] = Content(c, i)
  BY <1>9, <1>11, <1>12 DEF Restored
<1>13. ASSUME NEW i \in Cells
       PROVE  Undone'[i] = IF InSlots(sinfos, i) \/ i \in DOMAIN place
                           THEN Undone[i] ELSE Content(d, i)
  <2>1. Restored(d, Append(states, saved), i)
          = IF SavedIn(states, i) # {} \/ i \in DOMAIN place
            THEN Restored(c, states, i) ELSE Content(d, i)
    BY <1>5, <1>6, RestoredByMore
  <2>2. QED
    BY <1>4, <1>9, <1>11, <2>1
<1>14. QED
  BY <1>1, <1>2, <1>4, <1>7, <1>10, <1>12, <1>13 DEF place

LEMMA PreparePlan ==
    ASSUME Inv, StackInv, PlanInv, Prepare
    PROVE  PlanInv'
<1> DEFINE c     == v_cells[BatchStream]
           place == NextSlot
           d     == Apply(c, place)
           S     == batch.seqs
           w     == n_swa
           more  == Append(sinfos, place)
<1>1. /\ call = "prepare" /\ call' = call /\ batch' = batch /\ n_swa' = n_swa
      /\ sinfos' = more
  BY DEF Prepare, config
<1>2. /\ v_cells' = [v_cells EXCEPT ![BatchStream] = d]
      /\ BatchStream \in Streams /\ BatchStream' = BatchStream
      /\ c \in CellsType /\ d \in CellsType
      /\ Undone \in [Cells -> Cell] /\ Undone' \in [Cells -> Cell]
      /\ \A i \in Cells : ~InSlots(sinfos, i) => Undone[i] = Content(c, i)
      /\ \A i \in Cells :
            Undone'[i] = IF InSlots(sinfos, i) \/ i \in DOMAIN place
                         THEN Undone[i] ELSE Content(d, i)
      /\ Placed(c, d, place, S)
  BY PrepareUndone, Zenon
<1>3. /\ place \in Slots
      /\ Usable(w, c, place) /\ Interval(place)
      /\ \A i \in DOMAIN place : PlaceFrom <= place[i] /\ place[i] < PlaceFrom + NUbatch
  BY NextSlotMeans, Zenon
<1>4. /\ Plan(w, S, Undone, sinfos)
      /\ \A i \in Cells : \A s \in S \cap Undone[i].seq : Undone[i].pos < batch.first
      /\ Simulated(w, S, c, sinfos, PlaceFrom)
  BY <1>1 DEF PlanInv, Busy
<1>5. /\ PlaceFrom \in Nat /\ NUbatch \in Nat /\ batch.first \in Nat /\ batch.first <= PlaceFrom
      /\ PlaceFrom' = PlaceFrom + NUbatch
  <2> DEFINE k == Len(sinfos)
  <2>1. k \in Nat /\ NUbatch \in Nat /\ batch.first \in Nat /\ Len(sinfos') = k + 1
    BY <1>1, CacheAssumption, CellsAssumption DEF Inv, DecodeInv, SlotsInv, Batches, Positions
  <2>2. PlaceFrom = batch.first + NUbatch * k /\ PlaceFrom' = batch.first + NUbatch * (k + 1)
    BY <1>1, <2>1 DEF PlaceFrom
  <2> HIDE DEF k
  <2>3. NUbatch * k \in Nat /\ NUbatch * (k + 1) = NUbatch * k + NUbatch
    BY <2>1, OneMore
  <2>4. QED
    BY <2>1, <2>2, <2>3
<1>6. w \in Nat /\ S # {} /\ sinfos \in Seq(Slots)
  BY <1>1, WindowType DEF Inv, SlotsInv, DecodeInv, Batches
<1>7. \A i \in Cells : \A s \in S \cap Undone[i].seq : Undone[i].pos < PlaceFrom
  <2>1. \A i \in Cells : Undone[i].pos \in Int
    BY <1>2, CellsAssumption DEF Cell, Positions
  <2>2. QED
    BY <1>4, <1>5, <2>1
<1>8. v_cells'[BatchStream] = d
  BY <1>2 DEF Inv, CellsInv
<1> DEFINE U == Undone
           V == Undone'
           base == PlaceFrom
           next == PlaceFrom'
<1>9. /\ \A i \in Cells : ~InSlots(sinfos, i) => U[i] = Content(c, i)
      /\ \A i \in Cells :
            V[i] = IF InSlots(sinfos, i) \/ i \in DOMAIN place THEN U[i] ELSE Content(d, i)
      /\ U \in [Cells -> Cell] /\ V \in [Cells -> Cell]
      /\ Placed(c, d, place, S)
  BY <1>2
<1>10. \A i \in DOMAIN place : base <= place[i] /\ place[i] < next
  BY <1>3, <1>5
<1>11. base \in Int /\ next \in Int /\ base <= next
  BY <1>5
<1>12. Plan(w, S, U, sinfos) /\ Simulated(w, S, c, sinfos, base)
  BY <1>4
<1>13. \A i \in Cells : \A s \in S \cap U[i].seq : U[i].pos < base
  BY <1>7
<1> HIDE DEF c, d, place, S, w, U, V, base, next
<1>14. Plan(w, S, V, more) /\ Simulated(w, S, d, more, next)
  BY <1>2, <1>3, <1>6, <1>9, <1>10, <1>11, <1>12, <1>13, PlanGrows
<1>15. Plan(n_swa', batch'.seqs, Undone', sinfos')
  BY <1>1, <1>14 DEF w, S, V
<1>16. Simulated(n_swa', batch'.seqs, v_cells'[BatchStream'], sinfos', PlaceFrom')
  BY <1>1, <1>2, <1>8, <1>14 DEF w, S, next
<1>17. \A i \in Cells : \A s \in S \cap V[i].seq : V[i].pos < batch.first
  <2> SUFFICES ASSUME NEW i \in Cells, NEW s \in S \cap V[i].seq
               PROVE  V[i].pos < batch.first
    OBVIOUS
  <2>1. s \in S \cap U[i].seq /\ V[i].pos = U[i].pos
    <3>1. CASE InSlots(sinfos, i) \/ i \in DOMAIN place
      BY <1>9, <3>1
    <3>2. CASE ~InSlots(sinfos, i) /\ i \notin DOMAIN place
      <4>1. V[i] = Content(d, i) /\ U[i] = Content(c, i)
        BY <1>9, <3>2
      <4>2. s \in d.seq[i]
        BY <4>1 DEF Content
      <4>3. s \in c.seq[i] /\ d.pos[i] = c.pos[i]
        BY <1>9, <3>2, <4>2 DEF Placed
      <4>4. QED
        BY <4>1, <4>3 DEF Content
    <3>3. QED
      BY <3>1, <3>2
  <2>2. QED
    BY <1>4, <2>1 DEF U, S
<1>18. QED
  BY <1>1, <1>15, <1>16, <1>17 DEF PlanInv, S, V

LEMMA RestorePlan ==
    ASSUME Inv, StackInv, PlanInv, Restore
    PROVE  PlanInv' /\ Undone' = Undone
<1> DEFINE c     == v_cells[BatchStream]
           cells == states[Len(states)].cells
           d     == Set(c, cells)
           rest  == SubSeq(states, 1, Len(states) - 1)
<1>1. /\ call = "restore" /\ call' = call /\ batch' = batch /\ sinfos' = sinfos
      /\ UNCHANGED config /\ states # <<>> /\ states' = rest
      /\ v_cells' = [v_cells EXCEPT ![BatchStream] = d]
  BY DEF Restore, Change
<1>2. BatchStream \in Streams /\ BatchStream' = BatchStream
  BY <1>1, BatchStreamType, BatchStreamSame DEF Inv, DecodeInv
<1>3. c \in CellsType /\ v_cells'[BatchStream] = d
  BY <1>1, <1>2 DEF Inv, CellsInv
<1>4. states \in Seq(Recovery)
  BY DEF Inv, SlotsInv, Recovery
<1>5. \A j \in DOMAIN cells : cells[j] \in Cell
  <2>1. Len(states) \in 1 .. Len(states)
    BY <1>1, <1>4
  <2>2. states[Len(states)] \in Recovery
    BY <1>4, <2>1
  <2>3. QED
    BY <2>2 DEF Recovery, Saved
<1> HIDE DEF c, cells
<1>6. \A i \in Cells : Restored(d, rest, i) = Restored(c, states, i)
  BY <1>1, <1>3, <1>4, <1>5, RestoredByLess DEF cells
<1>7. Undone' = Undone
  BY <1>1, <1>2, <1>3, <1>6 DEF Undone, c
<1>8. PlanInv'
  BY <1>1, <1>7 DEF PlanInv, Busy, config
<1>9. QED
  BY <1>7, <1>8

\* With no slots there is nothing to be right.
LEMMA NoPlan ==
    ASSUME NEW w, NEW S, NEW U, NEW c, NEW base,
           \A i \in Cells : \A s \in S \cap c.seq[i] : c.pos[i] < base
    PROVE  Plan(w, S, U, <<>>) /\ Simulated(w, S, c, <<>>, base)
BY DEF Plan, Simulated

LEMMA InitiatedPlan ==
    ASSUME Inv, StackInv, PlanInv, Initiated
    PROVE  PlanInv' /\ Undone' = Undone
<1> DEFINE c == v_cells[BatchStream]
<1>1. /\ call = "restore" /\ batch' = batch /\ UNCHANGED <<cacheVars, config>>
      /\ states = <<>> /\ states' = states
  BY DEF Initiated, AllRestored
<1>2. v_cells' = v_cells /\ n_swa' = n_swa /\ BatchStream' = BatchStream
  BY <1>1, BatchStreamSame DEF cacheVars, config
<1>3. Undone' = Undone
  BY <1>1, <1>2 DEF Undone
<1>4. /\ Plan(n_swa, batch.seqs, Undone, sinfos)
      /\ \A i \in Cells : \A s \in batch.seqs \cap Undone[i].seq : Undone[i].pos < batch.first
  BY <1>1 DEF PlanInv, Busy
<1>5. CASE call' = "compute" /\ sinfos' = sinfos
  BY <1>1, <1>2, <1>3, <1>4, <1>5 DEF PlanInv, Busy
<1>6. CASE call' = "prepare" /\ sinfos' = <<>>
  <2>1. PlaceFrom' = batch.first
    <3>1. NUbatch \in Nat /\ batch.first \in Nat
      BY <1>1, CacheAssumption, CellsAssumption DEF Inv, DecodeInv, Batches, Positions
    <3>2. PlaceFrom' = batch.first + NUbatch * 0
      BY <1>1, <1>6 DEF PlaceFrom
    <3>3. QED
      BY <3>1, <3>2
  <2>2. Undone = Contents1(c)
    BY <1>1, RestoredNow DEF Undone
  <2>3. \A i \in Cells : \A s \in batch.seqs \cap c.seq[i] : c.pos[i] < batch.first
    BY <1>4, <2>2 DEF Contents1, Content
  <2> HIDE DEF c
  <2>4. Plan(n_swa, batch.seqs, Undone, <<>>) /\ Simulated(n_swa, batch.seqs, c, <<>>, batch.first)
    BY <2>3, NoPlan
  <2>5. QED
    BY <1>1, <1>2, <1>3, <1>4, <1>6, <2>1, <2>4 DEF PlanInv, Busy, c
<1>7. CASE call' = "failed"
  BY <1>3, <1>7 DEF PlanInv, Busy
<1>8. QED
  BY <1>3, <1>5, <1>6, <1>7 DEF Initiated

\* The sequences of a batch are of one stream, which has only positions before the batch
\* for them.
LEMMA AcceptedMeans ==
    ASSUME Inv, NEW S \in SUBSET Seqs, Accepted(S), NEW r \in S,
           NEW first, first = SeqPosMax(v_cells[StreamOf(Smallest(S))], Smallest(S)) + 1
    PROVE  /\ Smallest(S) \in S
           /\ StreamOf(r) = StreamOf(Smallest(S))
           /\ SeqPosMax(v_cells[StreamOf(r)], r) + 1 = first
           /\ \A i \in Cells : r \in v_cells[StreamOf(r)].seq[i] =>
                 v_cells[StreamOf(r)].pos[i] < first
<1> DEFINE a == Smallest(S)
           c == v_cells[StreamOf(r)]
<1>1. a \in S
  <2>1. S # {} /\ S \in SUBSET Nat
    BY DEF Accepted, Seqs
  <2>2. QED
    BY <2>1, SmallestIn
<1> HIDE DEF a
<1>2. unified \/ r = a
  <2>1. CASE unified
    BY <2>1
  <2>2. CASE Cardinality(S) = 1
    <3>1. IsFiniteSet(S)
      <4>1. IsFiniteSet(Seqs)
        BY CellsAssumption, FS_Interval DEF Seqs
      <4>2. QED
        BY <4>1, FS_Subset
    <3>2. \E x : S = {x}
      BY <2>2, <3>1, FS_Singleton
    <3>3. QED
      BY <1>1, <3>2
  <2>3. QED
    BY <2>1, <2>2 DEF Accepted
<1>3. StreamOf(r) = StreamOf(a)
  BY <1>2 DEF StreamOf
<1>4. SeqPosMax(c, r) = SeqPosMax(v_cells[StreamOf(a)], a)
  BY <1>1 DEF Accepted
<1>5. first = SeqPosMax(c, r) + 1
  BY <1>4 DEF a
<1>6. Indexed(c) /\ r \in Seqs
  BY StreamOfType DEF Inv, CellsInv, Good
<1> HIDE DEF c
<1>7. /\ SeqPosMax(c, r) \in Positions \cup {-1}
      /\ \A i \in Cells : r \in c.seq[i] => c.pos[i] \in Positions /\ c.pos[i] <= SeqPosMax(c, r)
  BY <1>6, SeqPosMaxMeans
<1>8. \A i \in Cells : r \in c.seq[i] => c.pos[i] < first
  BY <1>5, <1>7, CellsAssumption DEF Positions
<1>9. QED
  BY <1>1, <1>3, <1>5, <1>8 DEF a, c

LEMMA ResetShiftContents ==
    ASSUME NEW c \in CellsType
    PROVE  ResetShift(c).pos = c.pos /\ ResetShift(c).seq = c.seq
BY DEF ResetShift, CellsType

LEMMA DecodePlan ==
    ASSUME Inv, StackInv, NEW S \in SUBSET Seqs, NEW n \in 1 .. MaxBatch, Decode(S, n)
    PROVE  PlanInv'
<1> DEFINE a     == Smallest(S)
           first == SeqPosMax(v_cells[StreamOf(a)], a) + 1
           c     == v_cells[StreamOf(a)]
           d     == ResetShift(c)
<1>1. /\ call = "idle" /\ call' = "prepare" /\ sinfos' = sinfos /\ states' = states
      /\ batch' = [seqs |-> S, first |-> first, n |-> n] /\ UNCHANGED config
      /\ v_cells' = [t \in Streams |-> ResetShift(v_cells[t])]
      /\ Accepted(S)
  BY DEF Decode
<1>2. sinfos' = <<>> /\ states' = <<>>
  BY <1>1 DEF StackInv
<1>3. S # {} /\ a \in S
  BY <1>1, AcceptedMeans DEF Accepted
<1>4. c \in CellsType /\ StreamOf(a) \in Streams
  BY <1>3, StreamOfType DEF Inv, CellsInv
<1>5. BatchStream' = StreamOf(a)
  <2>1. batch'.seqs = S
    BY <1>1
  <2>2. BatchStream' = IF unified THEN 0 ELSE Smallest(batch'.seqs)
    BY <1>1 DEF BatchStream, StreamOf, config
  <2>3. QED
    BY <2>1, <2>2 DEF StreamOf
<1>6. v_cells'[BatchStream'] = d
  BY <1>1, <1>4, <1>5
<1>7. \A i \in Cells : \A r \in S \cap d.seq[i] : d.pos[i] < first
  <2> SUFFICES ASSUME NEW i \in Cells, NEW r \in S \cap d.seq[i]
               PROVE  d.pos[i] < first
    OBVIOUS
  <2>1. /\ StreamOf(r) = StreamOf(a)
        /\ r \in v_cells[StreamOf(r)].seq[i] => v_cells[StreamOf(r)].pos[i] < first
    BY <1>1, AcceptedMeans
  <2>2. d.pos = c.pos /\ d.seq = c.seq
    BY <1>4, ResetShiftContents
  <2>3. QED
    BY <2>1, <2>2
<1>8. Undone' = Contents1(d)
  <2>1. Undone' = [i \in Cells |-> Restored(d, <<>>, i)]
    BY <1>2, <1>6 DEF Undone
  <2>2. QED
    BY <2>1, RestoredNow
<1>9. PlaceFrom' = first
  <2>1. first \in Nat /\ NUbatch \in Nat
    <3>1. SeqPosMax(v_cells[StreamOf(a)], a) \in Positions \cup {-1}
      BY SeqPosMaxType
    <3>2. QED
      BY <3>1, CacheAssumption, CellsAssumption DEF Positions
  <2>2. PlaceFrom' = first + NUbatch * 0
    BY <1>1, <1>2 DEF PlaceFrom
  <2> HIDE DEF first
  <2>3. QED
    BY <2>1, <2>2
<1>10. batch'.seqs = S /\ batch'.first = first
  BY <1>1
<1> HIDE DEF d, first
<1>11. Plan(n_swa, S, Undone', <<>>) /\ Simulated(n_swa, S, d, <<>>, first)
  BY <1>7, NoPlan
<1>12. \A i \in Cells : \A s \in S \cap Undone'[i].seq : Undone'[i].pos < first
  BY <1>7, <1>8 DEF Contents1, Content
<1>13. n_swa' = n_swa
  BY <1>1 DEF config
<1>14. QED
  BY <1>1, <1>2, <1>6, <1>9, <1>10, <1>11, <1>12, <1>13 DEF PlanInv, Busy

\* What is computed: the first of the slots that are planned, with nothing to undo.
LEMMA ComputePlace ==
    ASSUME Inv, StackInv, PlanInv, call = "compute",
           NEW c, c = v_cells[BatchStream], NEW d, d = Apply(c, Head(sinfos))
    PROVE  /\ Plan(n_swa, batch.seqs, Contents1(c), sinfos)
           /\ sinfos \in Seq(Slots) /\ sinfos # <<>> /\ Head(sinfos) \in Slots
           /\ BatchStream \in Streams /\ states = <<>>
           /\ c \in CellsType /\ d \in CellsType /\ Good(c) /\ Good(d)
           /\ Placed(c, d, Head(sinfos), batch.seqs)
<1> DEFINE place == Head(sinfos)
<1>1. /\ batch \in Batches /\ BatchStream \in Streams /\ states = <<>>
      /\ sinfos \in Seq(Slots) /\ sinfos # <<>>
  BY BatchStreamType DEF Inv, DecodeInv, SlotsInv, StackInv
<1>2. place \in Slots
  BY <1>1
<1> HIDE DEF place
<1>3. Good(c) /\ Unshifted(c) /\ c \in CellsType
  BY <1>1 DEF Inv, CellsInv, DecodeInv
<1>4. Good(Apply(c, place)) /\ Placed(c, Apply(c, place), place, batch.seqs)
  BY <1>1, <1>2, <1>3, ApplyGood, ApplyPlaced
<1>5. d = Apply(c, place)
  BY DEF place
<1>6. d \in CellsType
  BY <1>4, <1>5 DEF Good, Indexed
<1>7. Undone = Contents1(c)
  BY <1>1, RestoredNow DEF Undone
<1>8. Plan(n_swa, batch.seqs, Undone, sinfos)
  BY DEF PlanInv, Busy
<1>9. QED
  BY <1>1, <1>2, <1>3, <1>4, <1>5, <1>6, <1>7, <1>8 DEF place

LEMMA ComputePlan ==
    ASSUME Inv, StackInv, PlanInv, Compute
    PROVE  PlanInv'
<1> DEFINE c == v_cells[BatchStream]
           d == Apply(c, Head(sinfos))
<1>1. /\ call = "compute" /\ sinfos' = Tail(sinfos) /\ states' = states
      /\ v_cells' = [v_cells EXCEPT ![BatchStream] = d] /\ UNCHANGED config
  BY DEF Compute, Change
<1>2. CASE Tail(sinfos) = <<>>
  <2>1. call' = "idle"
    BY <1>2 DEF Compute, Return
  <2>2. QED
    BY <2>1 DEF PlanInv, Busy
<1>3. CASE Tail(sinfos) # <<>>
  <2>1. call' = call /\ batch' = batch
    BY <1>3 DEF Compute
  <2>2. BatchStream' = BatchStream
    BY <1>1, <2>1, BatchStreamSame
  <2>3. /\ Plan(n_swa, batch.seqs, Contents1(c), sinfos)
        /\ sinfos \in Seq(Slots) /\ sinfos # <<>>
        /\ BatchStream \in Streams /\ states = <<>>
        /\ c \in CellsType /\ d \in CellsType
        /\ Placed(c, d, Head(sinfos), batch.seqs)
    BY <1>1, ComputePlace
  <2>4. n_swa \in Nat
    BY WindowType DEF Inv
  <2>5. v_cells'[BatchStream] = d
    BY <1>1, <2>3 DEF Inv, CellsInv
  <2>6. Undone' = Contents1(d)
    <3>1. Undone' = [i \in Cells |-> Restored(d, <<>>, i)]
      BY <1>1, <2>2, <2>3, <2>5 DEF Undone
    <3>2. QED
      BY <3>1, RestoredNow
  <2> HIDE DEF c, d
  <2>7. Plan(n_swa, batch.seqs, Contents1(d), Tail(sinfos))
    BY <2>3, <2>4, PlanShrinks
  <2>8. n_swa' = n_swa
    BY <1>1 DEF config
  <2>9. QED
    BY <1>1, <2>1, <2>6, <2>7, <2>8 DEF PlanInv, Busy
<1>4. QED
  BY <1>2, <1>3

LEMMA PlanNext == Inv /\ StackInv /\ PlanInv /\ [Next]_vars => PlanInv'
<1> SUFFICES ASSUME Inv, StackInv, PlanInv, [Next]_vars PROVE PlanInv'
  OBVIOUS
<1>1. CASE Operation
  <2>1. call' = "idle"
    BY <1>1 DEF Operation, SeqRemove, AnyRemove, CopySequence, CopyStream, Keep, AddShift,
                Divide, Clear, callVars
  <2>2. QED
    BY <2>1 DEF PlanInv, Busy
<1>2. CASE \E S \in SUBSET Seqs, n \in 1 .. MaxBatch : Decode(S, n)
  BY <1>2, DecodePlan
<1>3. CASE Prepare
  BY <1>3, PreparePlan
<1>4. CASE Prepared
  <2>1. call = "prepare" /\ call' = "restore" /\ UNCHANGED <<cacheVars, config, batch, sinfos, states>>
    BY <1>4 DEF Prepared
  <2>2. Undone' = Undone /\ n_swa' = n_swa
    BY <2>1, BatchStreamSame DEF Undone, cacheVars, config
  <2>3. QED
    BY <2>1, <2>2 DEF PlanInv, Busy
<1>5. CASE Restore
  BY <1>5, RestorePlan
<1>6. CASE Initiated
  BY <1>6, InitiatedPlan
<1>7. CASE Compute
  BY <1>7, ComputePlan
<1>8. CASE (\E s \in Seqs : ComputeFails(s)) \/ NoSlot
  <2>1. call' = "idle"
    BY <1>8 DEF ComputeFails, NoSlot, Return
  <2>2. QED
    BY <2>1 DEF PlanInv, Busy
<1>9. CASE UNCHANGED vars
  <2>1. UNCHANGED <<call, batch, sinfos, states, v_cells, config>>
    BY <1>9 DEF vars, callVars, cacheVars
  <2>2. Undone' = Undone /\ n_swa' = n_swa /\ BatchStream' = BatchStream
    BY <2>1, BatchStreamSame DEF Undone, config
  <2>3. QED
    BY <2>1, <2>2 DEF PlanInv, Busy, PlaceFrom
<1>10. QED
  BY <1>1, <1>2, <1>3, <1>4, <1>5, <1>6, <1>7, <1>8, <1>9 DEF Next

-----------------------------------------------------------------------------
(* What placing a ubatch does to the positions of a sequence *)

PosOf(c, s)   == {c.pos[i] : i \in Owned(c, s)}
ValuesOf(place) == {place[i] : i \in DOMAIN place}
Gapless(P)    == \A p, q \in P : p .. q \subseteq P

\* A sequence loses the positions up to those of its cells that are taken, and gets those
\* of the ubatch if that is of the sequence.
LEMMA PlacedPositions ==
    ASSUME NEW c \in CellsType, NEW d \in CellsType, NEW place \in Slots, NEW S, NEW s,
           Placed(c, d, place, S), Before(S, Contents1(c), place)
    PROVE  PosOf(d, s) = {p \in PosOf(c, s) : ~Cut(c, place, s, p)}
                           \cup (IF s \in S THEN ValuesOf(place) ELSE {})
<1>1. PICK R \in SUBSET Cells : place \in [R -> Positions]
  BY DEF Slots
<1>2. /\ \A i \in Cells : c.pos[i] \in Int /\ d.pos[i] \in Int
      /\ \A x \in DOMAIN place : x \in Cells /\ place[x] \in Int
  BY <1>1, CellsAssumption DEF CellsType, Positions
<1>3. s \in S => \A i \in Cells : s \in c.seq[i] => \A x \in DOMAIN place : c.pos[i] < place[x]
  BY DEF Before, Contents1, Content
<1>4. s \in S => \A x \in DOMAIN place : ~Cut(c, place, s, place[x])
  <2> SUFFICES ASSUME s \in S, NEW x \in DOMAIN place, NEW j \in DOMAIN place,
                      s \in c.seq[j], place[x] <= c.pos[j]
               PROVE  FALSE
    BY DEF Cut
  <2>1. c.pos[j] < place[x] /\ c.pos[j] \in Int /\ place[x] \in Int
    BY <1>2, <1>3
  <2>2. QED
    BY <2>1
<1>5. \A x \in DOMAIN place : s \in c.seq[x] => Cut(c, place, s, c.pos[x])
  BY <1>2 DEF Cut
<1>6. ASSUME NEW p \in PosOf(d, s)
      PROVE  \/ p \in PosOf(c, s) /\ ~Cut(c, place, s, p)
             \/ s \in S /\ p \in ValuesOf(place)
  <2>1. PICK i \in Cells : s \in d.seq[i] /\ p = d.pos[i]
    BY DEF PosOf, Owned
  <2>2. CASE i \in DOMAIN place
    BY <2>1, <2>2 DEF Placed, ValuesOf
  <2>3. CASE i \notin DOMAIN place
    <3>1. s \in c.seq[i] /\ ~Cut(c, place, s, c.pos[i]) /\ d.pos[i] = c.pos[i]
      BY <2>1, <2>3 DEF Placed
    <3>2. QED
      BY <2>1, <3>1 DEF PosOf, Owned
  <2>4. QED
    BY <2>2, <2>3
<1>7. ASSUME NEW p \in PosOf(c, s), ~Cut(c, place, s, p)
      PROVE  p \in PosOf(d, s)
  <2>1. PICK i \in Cells : s \in c.seq[i] /\ p = c.pos[i]
    BY DEF PosOf, Owned
  <2>2. i \notin DOMAIN place
    BY <1>5, <1>7, <2>1
  <2>3. s \in d.seq[i]
    BY <1>7, <2>1, <2>2 DEF Placed
  <2>4. d.pos[i] = c.pos[i]
    BY <2>2, <2>3 DEF Placed
  <2>5. QED
    BY <2>1, <2>3, <2>4 DEF PosOf, Owned
<1>8. ASSUME s \in S, NEW p \in ValuesOf(place)
      PROVE  p \in PosOf(d, s)
  <2>1. PICK x \in DOMAIN place : p = place[x]
    BY DEF ValuesOf
  <2>2. s \in d.seq[x]
    BY <1>2, <1>4, <1>8, <2>1 DEF Placed
  <2>3. d.pos[x] = place[x]
    BY <1>2, <2>2 DEF Placed
  <2>4. QED
    BY <1>2, <2>1, <2>2, <2>3 DEF PosOf, Owned
<1>9. QED
  BY <1>6, <1>7, <1>8

Lower(P, low) == {p \in P : p < low}

\* seq_rm of the positions from low on.
LEMMA RemovedPositions ==
    ASSUME NEW d, Good(d), NEW low \in Nat, NEW r \in Seqs, NEW s,
           NEW e, e = SeqRm(d, PosIn(d, low, MaxPos + 1), r)
    PROVE  PosOf(e, s) = IF s = r THEN Lower(PosOf(d, s), low) ELSE PosOf(d, s)
<1> DEFINE R    == PosIn(d, low, MaxPos + 1) \cap Owned(d, r)
           gone == [i \in R |-> {r}]
<1>1. e = Leave(d, gone) /\ DOMAIN gone = R /\ R \subseteq Cells
  BY DEF SeqRm, Owned
<1>2. \A i \in R : gone[i] = {r}
  OBVIOUS
<1> HIDE DEF gone
<1>3. \A i \in Cells :
         /\ Leave(d, gone).seq[i] = IF i \in DOMAIN gone THEN d.seq[i] \ gone[i] ELSE d.seq[i]
         /\ Leave(d, gone).seq[i] # {} =>
              /\ Leave(d, gone).pos[i] = d.pos[i]
              /\ Leave(d, gone).shift[i] = d.shift[i]
  BY <1>1, LeaveContents, Zenon
<1>4. \A i \in Cells : /\ e.seq[i] = IF i \in R THEN d.seq[i] \ {r} ELSE d.seq[i]
                       /\ e.seq[i] # {} => e.pos[i] = d.pos[i]
  BY <1>1, <1>2, <1>3
<1>5. \A i \in Cells : i \in R <=> r \in d.seq[i] /\ low <= d.pos[i]
  <2> SUFFICES ASSUME NEW i \in Cells
               PROVE  i \in R <=> r \in d.seq[i] /\ low <= d.pos[i]
    OBVIOUS
  <2>1. d.pos[i] \in Positions \cup {-1} /\ MaxPos \in Nat
    BY CellsAssumption DEF Good, Indexed, CellsType
  <2>2. d.pos[i] # -1 => d.pos[i] < MaxPos + 1
    BY <2>1 DEF Positions
  <2>3. low <= d.pos[i] => d.pos[i] # -1
    OBVIOUS
  <2>4. QED
    BY <2>2, <2>3 DEF PosIn, Nonempty, Owned
<1>6. \A i \in Cells : d.pos[i] \in Int
  BY CellsAssumption DEF Good, Indexed, CellsType, Positions
<1> HIDE DEF R
<1>7. CASE s # r
  <2>1. \A i \in Cells : s \in e.seq[i] <=> s \in d.seq[i]
    BY <1>4, <1>7
  <2>2. \A i \in Cells : s \in d.seq[i] => e.pos[i] = d.pos[i]
    BY <1>4, <2>1
  <2>3. Owned(e, s) = Owned(d, s)
    BY <2>1 DEF Owned
  <2>4. \A i \in Owned(d, s) : e.pos[i] = d.pos[i]
    BY <2>2 DEF Owned
  <2>5. PosOf(e, s) = PosOf(d, s)
    BY <2>3, <2>4 DEF PosOf
  <2>6. QED
    BY <1>7, <2>5
<1>8. CASE s = r
  <2>1. \A i \in Cells : s \in e.seq[i] <=> s \in d.seq[i] /\ d.pos[i] < low
    <3> SUFFICES ASSUME NEW i \in Cells
                 PROVE  s \in e.seq[i] <=> s \in d.seq[i] /\ d.pos[i] < low
      OBVIOUS
    <3>1. low <= d.pos[i] <=> ~(d.pos[i] < low)
      <4>1. d.pos[i] \in Int
        BY <1>6
      <4>2. QED
        BY <4>1
    <3>2. i \in R <=> s \in d.seq[i] /\ low <= d.pos[i]
      BY <1>5, <1>8
    <3>3. s \in e.seq[i] <=> s \in d.seq[i] /\ i \notin R
      BY <1>4, <1>8
    <3>4. QED
      BY <3>1, <3>2, <3>3
  <2>2. \A i \in Cells : s \in e.seq[i] => e.pos[i] = d.pos[i]
    BY <1>4
  <2>3. QED
    BY <1>8, <2>1, <2>2 DEF PosOf, Owned, Lower
<1>9. QED
  BY <1>7, <1>8

\* What is seen is not removed: v is a position of the ubatch, or comes after all those of
\* a sequence that the ubatch is not of.
LEMMA SeenIsKept ==
    ASSUME NEW w \in Nat, NEW c \in CellsType, NEW place \in Slots, NEW S, NEW s,
           MayTake(w, S, Contents1(c), place), NEW v \in Int,
           s \in S => v \in ValuesOf(place),
           s \notin S => \A i \in Cells : s \in c.seq[i] => c.pos[i] + 1 <= v,
           NEW p \in PosOf(c, s), ~Masked(w, p, v)
    PROVE  ~Cut(c, place, s, p)
<1> SUFFICES ASSUME NEW j \in DOMAIN place, s \in c.seq[j], p <= c.pos[j] PROVE FALSE
  BY DEF Cut
<1>1. j \in Cells
  BY DEF Slots
<1>2. p \in Int /\ c.pos[j] \in Int /\ \A i \in Cells : c.pos[i] \in Int
  BY <1>1, CellsAssumption DEF PosOf, Owned, CellsType, Positions
<1>3. /\ s \in S => \A x \in DOMAIN place : Masked(w, c.pos[j], place[x])
      /\ s \notin S => \E x \in Cells : s \in c.seq[x] /\ Masked(w, c.pos[j], c.pos[x] + 1)
  BY <1>1 DEF MayTake, Contents1, Content
<1>4. Masked(w, c.pos[j], v)
  <2>1. CASE s \in S
    BY <1>3, <2>1 DEF ValuesOf
  <2>2. CASE s \notin S
    <3>1. PICK x \in Cells : s \in c.seq[x] /\ Masked(w, c.pos[j], c.pos[x] + 1)
      BY <1>3, <2>2
    <3>2. c.pos[x] + 1 <= v /\ c.pos[x] + 1 \in Int /\ c.pos[j] <= c.pos[j]
      BY <1>2, <2>2, <3>1
    <3>3. QED
      BY <1>2, <3>1, <3>2, MaskedMore
  <2>3. QED
    BY <2>1, <2>2
<1>5. Masked(w, p, v)
  <2>1. v <= v
    OBVIOUS
  <2>2. QED
    BY <1>2, <1>4, <2>1, MaskedMore
<1>6. QED
  BY <1>5

\* What is left of a sequence without gaps has none.
LEMMA CutLeavesNoGap ==
    ASSUME NEW c, NEW place, NEW s, NEW P \in SUBSET Int, Gapless(P),
           \A i \in DOMAIN place : c.pos[i] \in Int
    PROVE  Gapless({p \in P : ~Cut(c, place, s, p)})
<1> SUFFICES ASSUME NEW p \in P, NEW q \in P, ~Cut(c, place, s, p), NEW v \in p .. q
             PROVE  v \in P /\ ~Cut(c, place, s, v)
  BY DEF Gapless
<1>1. v \in P /\ p <= v /\ p \in Int /\ v \in Int
  BY DEF Gapless
<1>2. ~Cut(c, place, s, v)
  <2> SUFFICES ASSUME NEW j \in DOMAIN place, s \in c.seq[j], v <= c.pos[j] PROVE FALSE
    BY DEF Cut
  <2>1. p <= c.pos[j]
    BY <1>1
  <2>2. QED
    BY <2>1 DEF Cut
<1>3. QED
  BY <1>1, <1>2

\* A ubatch that continues a sequence without gaps leaves none.
LEMMA PlacedLeavesNoGap ==
    ASSUME NEW c \in CellsType, NEW place \in Slots, NEW S, NEW s \in S,
           NEW P, P = PosOf(c, s), Gapless(P), Interval(place),
           Before(S, Contents1(c), place),
           NEW low \in ValuesOf(place), \A v \in ValuesOf(place) : low <= v,
           P = {} \/ low - 1 \in P
    PROVE  Gapless({p \in P : ~Cut(c, place, s, p)} \cup ValuesOf(place))
<1> DEFINE K == {p \in P : ~Cut(c, place, s, p)}
           T == ValuesOf(place)
<1>1. PICK R \in SUBSET Cells : place \in [R -> Positions]
  BY DEF Slots
<1>2. /\ P \in SUBSET Int /\ K \in SUBSET P /\ T \in SUBSET Int /\ low \in Int
      /\ \A i \in DOMAIN place : c.pos[i] \in Int
  BY <1>1, CellsAssumption DEF PosOf, Owned, CellsType, Positions, ValuesOf
<1>3. \A p \in P : p < low
  <2> SUFFICES ASSUME NEW p \in P PROVE p < low
    OBVIOUS
  <2>1. PICK i \in Cells : s \in c.seq[i] /\ p = c.pos[i]
    BY DEF PosOf, Owned
  <2>2. PICK x \in DOMAIN place : low = place[x]
    BY DEF ValuesOf
  <2>3. QED
    BY <2>1, <2>2 DEF Before, Contents1, Content
<1>4. Gapless(K)
  BY <1>2, CutLeavesNoGap
<1>5. \A p \in K, v \in Int : p <= v /\ v < low => v \in K
  <2> SUFFICES ASSUME NEW p \in K, NEW v \in Int, p <= v, v < low PROVE v \in K
    OBVIOUS
  <2>1. low - 1 \in P
    BY <1>2
  <2>2. v \in p .. low - 1 /\ p \in Int
    BY <1>2
  <2>3. v \in P
    BY <1>2, <2>1, <2>2 DEF Gapless
  <2>4. ~Cut(c, place, s, v)
    <3> SUFFICES ASSUME NEW j \in DOMAIN place, s \in c.seq[j], v <= c.pos[j] PROVE FALSE
      BY DEF Cut
    <3>1. p <= c.pos[j]
      BY <1>2, <2>2
    <3>2. QED
      BY <3>1 DEF Cut
  <2>5. QED
    BY <2>3, <2>4
<1>6. \A q \in T, v \in Int : low <= v /\ v <= q => v \in T
  BY DEF Interval, ValuesOf
<1> HIDE DEF K, T
<1>7. ASSUME NEW p \in K \cup T, NEW q \in K \cup T, NEW v \in p .. q
      PROVE  v \in K \cup T
  <2>1. p \in Int /\ q \in Int /\ v \in Int /\ p <= v /\ v <= q
    BY <1>2, <1>7
  <2>2. CASE p \in K /\ q \in K
    BY <1>4, <1>7, <2>2 DEF Gapless
  <2>3. CASE p \in K /\ q \in T
    <3>1. v < low \/ low <= v
      BY <1>2, <2>1
    <3>2. QED
      BY <1>5, <1>6, <2>1, <2>3, <3>1
  <2>4. CASE p \in T
    <3>1. low <= p
      BY <2>4 DEF T
    <3>2. low <= v
      BY <1>2, <2>1, <3>1
    <3>3. q \in T
      <4>1. low <= q
        BY <1>2, <2>1, <3>2
      <4>2. q \notin K
        BY <1>2, <1>3, <2>1, <4>1
      <4>3. QED
        BY <1>7, <4>2
    <3>4. QED
      BY <1>6, <2>1, <3>2, <3>3
  <2>5. QED
    BY <1>7, <2>2, <2>3, <2>4
<1>8. QED
  BY <1>7 DEF Gapless, K, T

-----------------------------------------------------------------------------
(* NeverOverwritesVisible and LeavesNoGap *)

\* While prepare looks for slots, those that the search finds may be taken.
LEMMA UsableMayBeTaken ==
    ASSUME NEW w \in Nat, NEW S, NEW c \in CellsType, NEW place \in Slots, NEW slots,
           NEW base \in Int, Usable(w, c, place), Simulated(w, S, c, slots, base),
           \A i \in DOMAIN place : base <= place[i]
    PROVE  MayTake(w, S, Contents1(c), place) /\ Before(S, Contents1(c), place)
<1>1. PICK R \in SUBSET Cells : place \in [R -> Positions]
  BY DEF Slots
<1>2. /\ \A i \in Cells : c.pos[i] \in Int
      /\ \A x \in DOMAIN place : x \in Cells /\ place[x] \in Int
  BY <1>1, CellsAssumption DEF CellsType, Positions
<1>3. \A i \in Cells : \A s \in S \cap c.seq[i] : c.pos[i] < base
  BY DEF Simulated
<1>4. \A i \in Cells : Contents1(c)[i].pos = c.pos[i] /\ Contents1(c)[i].seq = c.seq[i]
  BY DEF Contents1, Content
<1>5. ASSUME NEW i \in DOMAIN place, NEW s \in c.seq[i], s \in S, NEW x \in DOMAIN place
      PROVE  Masked(w, c.pos[i], place[x])
  <2>1. PICK y \in Cells : s \in c.seq[y] /\ Masked(w, c.pos[i], c.pos[y] + 1)
    BY DEF Usable
  <2>2. c.pos[y] < base /\ base <= place[x]
    BY <1>3, <1>5, <2>1
  <2>3. c.pos[y] + 1 <= place[x] /\ c.pos[y] + 1 \in Int /\ c.pos[i] <= c.pos[i]
    BY <1>2, <2>2
  <2>4. QED
    BY <1>2, <2>1, <2>3, MaskedMore
<1>6. MayTake(w, S, Contents1(c), place)
  <2>1. \A i \in DOMAIN place : \A s \in c.seq[i] :
           \E x \in Cells : s \in c.seq[x] /\ Masked(w, c.pos[i], c.pos[x] + 1)
    BY DEF Usable
  <2>2. QED
    BY <1>2, <1>4, <1>5, <2>1 DEF MayTake
<1>7. Before(S, Contents1(c), place)
  <2> SUFFICES ASSUME NEW i \in Cells, NEW s \in S \cap Contents1(c)[i].seq, NEW x \in DOMAIN place
               PROVE  Contents1(c)[i].pos < place[x]
    BY DEF Before
  <2>1. c.pos[i] < base /\ base <= place[x]
    BY <1>3, <1>4
  <2>2. QED
    BY <1>2, <1>4, <2>1
<1>8. QED
  BY <1>6, <1>7

\* What is known of the slot of a ubatch when it is placed.
LEMMA PlacingMeans ==
    ASSUME Inv, StackInv, PlanInv, Prepare \/ call = "compute",
           NEW c, c = v_cells[BatchStream], NEW d, d = Apply(c, Placing)
    PROVE  /\ c \in CellsType /\ d \in CellsType /\ Good(c) /\ Good(d)
           /\ BatchStream \in Streams /\ Placing \in Slots /\ n_swa \in Nat
           /\ Placed(c, d, Placing, batch.seqs)
           /\ MayTake(n_swa, batch.seqs, Contents1(c), Placing)
           /\ Before(batch.seqs, Contents1(c), Placing) /\ Interval(Placing)
           /\ Low \in ValuesOf(Placing) /\ Low \in Nat /\ \A v \in ValuesOf(Placing) : Low <= v
<1>1. n_swa \in Nat
  BY WindowType DEF Inv
<1>2. ASSUME Prepare
      PROVE  /\ c \in CellsType /\ d \in CellsType /\ Good(c) /\ Good(d)
             /\ BatchStream \in Streams /\ Placing \in Slots
             /\ Placed(c, d, Placing, batch.seqs)
             /\ MayTake(n_swa, batch.seqs, Contents1(c), Placing)
             /\ Before(batch.seqs, Contents1(c), Placing) /\ Interval(Placing)
  <2>1. call = "prepare" /\ Placing = NextSlot /\ batch \in Batches
    BY <1>2 DEF Prepare, Placing, Inv, DecodeInv
  <2>2. /\ BatchStream \in Streams /\ c \in CellsType /\ d \in CellsType
        /\ Placed(c, d, NextSlot, batch.seqs)
    BY <1>2, <2>1, PrepareUndone
  <2>3. /\ NextSlot \in Slots /\ Usable(n_swa, c, NextSlot) /\ Interval(NextSlot)
        /\ \A i \in DOMAIN NextSlot : PlaceFrom <= NextSlot[i]
    BY <1>2, NextSlotMeans
  <2>4. Good(c) /\ Unshifted(c)
    BY <2>1, <2>2 DEF Inv, CellsInv, DecodeInv
  <2>5. Good(d)
    BY <2>1, <2>3, <2>4, ApplyGood
  <2>6. Simulated(n_swa, batch.seqs, c, sinfos, PlaceFrom)
    BY <2>1 DEF PlanInv, Busy
  <2>7. PlaceFrom \in Int
    <3>1. Len(sinfos) \in Nat /\ NUbatch \in Nat /\ batch.first \in Nat
      BY <2>1, CacheAssumption, CellsAssumption DEF Inv, SlotsInv, Batches, Positions
    <3>2. QED
      BY <3>1 DEF PlaceFrom
  <2> HIDE DEF PlaceFrom
  <2>8. MayTake(n_swa, batch.seqs, Contents1(c), NextSlot) /\ Before(batch.seqs, Contents1(c), NextSlot)
    BY <1>1, <2>2, <2>3, <2>6, <2>7, UsableMayBeTaken
  <2>9. QED
    BY <2>1, <2>2, <2>3, <2>4, <2>5, <2>8
<1>3. ASSUME call = "compute"
      PROVE  /\ c \in CellsType /\ d \in CellsType /\ Good(c) /\ Good(d)
             /\ BatchStream \in Streams /\ Placing \in Slots
             /\ Placed(c, d, Placing, batch.seqs)
             /\ MayTake(n_swa, batch.seqs, Contents1(c), Placing)
             /\ Before(batch.seqs, Contents1(c), Placing) /\ Interval(Placing)
  <2>1. Placing = Head(sinfos)
    BY <1>3 DEF Placing
  <2>2. /\ Plan(n_swa, batch.seqs, Contents1(c), sinfos)
        /\ sinfos \in Seq(Slots) /\ sinfos # <<>> /\ Head(sinfos) \in Slots
        /\ BatchStream \in Streams
        /\ c \in CellsType /\ d \in CellsType /\ Good(c) /\ Good(d)
        /\ Placed(c, d, Head(sinfos), batch.seqs)
    BY <1>3, <2>1, ComputePlace
  <2>3. 1 \in 1 .. Len(sinfos) /\ Head(sinfos) = sinfos[1]
    BY <2>2
  <2>4. /\ MayTake(n_swa, batch.seqs, Contents1(c), sinfos[1])
        /\ Interval(sinfos[1]) /\ Before(batch.seqs, Contents1(c), sinfos[1])
    BY <2>2, <2>3 DEF Plan
  <2>5. QED
    BY <2>1, <2>2, <2>3, <2>4
<1>4. Placing \in Slots
  BY <1>2, <1>3
<1>5. ValuesOf(Placing) \in SUBSET Nat /\ ValuesOf(Placing) # {}
  BY <1>4, CellsAssumption DEF Slots, ValuesOf, Positions
<1>6. Low = Smallest(ValuesOf(Placing))
  BY DEF Low, ValuesOf
<1>7. Low \in ValuesOf(Placing) /\ \A v \in ValuesOf(Placing) : Low <= v
  BY <1>5, <1>6, HasSmallest DEF Smallest
<1>8. QED
  BY <1>1, <1>2, <1>3, <1>5, <1>7

\* A step that places a ubatch changes the cells of one stream.
LEMMA PlacingChanges ==
    ASSUME Prepare \/ Compute \/ (\E r \in Seqs : ComputeFails(r)), NEW s
    PROVE  /\ StreamOf(s)' = StreamOf(s)
           /\ \E e : v_cells' = [v_cells EXCEPT ![BatchStream] = e]
<1>1. CASE Prepare
  BY <1>1 DEF Prepare, Change, config, StreamOf
<1>2. CASE Compute
  BY <1>2 DEF Compute, Change, config, StreamOf
<1>3. CASE \E r \in Seqs : ComputeFails(r)
  <2>1. PICK r \in Seqs : ComputeFails(r)
    BY <1>3
  <2>2. UNCHANGED unified
    BY <2>1 DEF ComputeFails, config
  <2>3. \E e : v_cells' = [v_cells EXCEPT ![BatchStream] = e]
    BY <2>1, Zenon DEF ComputeFails, Change
  <2>4. QED
    BY <2>2, <2>3 DEF StreamOf
<1>4. QED
  BY <1>1, <1>2, <1>3

\* The positions that a sequence keeps when a ubatch is placed.
Kept(s) == {p \in PositionsOf(s) : ~Cut(v_cells[BatchStream], Placing, s, p)}

\* A step that places a ubatch: what a sequence has afterwards.
LEMMA PlacingPositions ==
    ASSUME Inv, StackInv, PlanInv, Prepare \/ Compute \/ (\E r \in Seqs : ComputeFails(r)),
           NEW s \in Seqs
    PROVE  \/ PositionsOf(s)' = PositionsOf(s)
           \/ /\ PositionsOf(s) = PosOf(v_cells[BatchStream], s)
              /\ \/ PositionsOf(s)' = Kept(s)
                 \/ s \in batch.seqs /\ PositionsOf(s)' = Kept(s) \cup ValuesOf(Placing)
<1> DEFINE c == v_cells[BatchStream]
           d == Apply(c, Placing)
           S == batch.seqs
           T == ValuesOf(Placing)
           K == {p \in PosOf(c, s) : ~Cut(c, Placing, s, p)}
<1>1. Prepare \/ call = "compute"
  BY DEF Compute, ComputeFails
<1>2. /\ c \in CellsType /\ d \in CellsType /\ Good(c) /\ Good(d)
      /\ BatchStream \in Streams /\ Placing \in Slots
      /\ Placed(c, d, Placing, S)
      /\ Before(S, Contents1(c), Placing)
      /\ Low \in T /\ Low \in Nat /\ \A v \in T : Low <= v
  BY <1>1, PlacingMeans
<1>3. PosOf(d, s) = K \cup (IF s \in S THEN T ELSE {})
  BY <1>2, PlacedPositions
<1>4. StreamOf(s)' = StreamOf(s)
  BY PlacingChanges
<1>5. PositionsOf(s) = PosOf(v_cells[StreamOf(s)], s)
  BY DEF PositionsOf, PosOf
<1>6. PositionsOf(s)' = PosOf(v_cells'[StreamOf(s)], s)
  BY <1>4 DEF PositionsOf, PosOf, Owned
<1>7. ASSUME NEW e, v_cells' = [v_cells EXCEPT ![BatchStream] = e]
      PROVE  v_cells'[StreamOf(s)] = IF StreamOf(s) = BatchStream THEN e ELSE v_cells[StreamOf(s)]
  <2>1. StreamOf(s) \in Streams
    BY StreamOfType
  <2>2. QED
    BY <1>7, <2>1 DEF Inv, CellsInv
<1>8. CASE StreamOf(s) # BatchStream
  <2>1. \E e : v_cells' = [v_cells EXCEPT ![BatchStream] = e]
    BY PlacingChanges
  <2>2. v_cells'[StreamOf(s)] = v_cells[StreamOf(s)]
    BY <1>7, <1>8, <2>1
  <2>3. QED
    BY <1>5, <1>6, <2>2
<1>9. CASE StreamOf(s) = BatchStream
  <2>1. PositionsOf(s) = PosOf(c, s) /\ Kept(s) = K
    BY <1>5, <1>9 DEF Kept
  <2>2. CASE Prepare \/ Compute
    <3>1. v_cells' = [v_cells EXCEPT ![BatchStream] = d]
      BY <2>2 DEF Prepare, Compute, Change, Placing
    <3>2. v_cells'[StreamOf(s)] = d
      BY <1>7, <1>9, <3>1
    <3>3. PositionsOf(s)' = PosOf(d, s)
      BY <1>6, <3>2
    <3> HIDE DEF c, d, K, T, S
    <3>4. PositionsOf(s)' = K \/ (s \in S /\ PositionsOf(s)' = K \cup T)
      BY <1>3, <3>3
    <3>5. QED
      BY <2>1, <3>4 DEF S, T, c
  <2>3. CASE \E r \in Seqs : ComputeFails(r)
    <3>1. PICK r \in Seqs : ComputeFails(r)
      BY <2>3
    <3> DEFINE e == SeqRm(d, PosIn(d, Low, MaxPos + 1), r)
    <3>2. v_cells' = [v_cells EXCEPT ![BatchStream] = e] /\ r \in S
      <4>1. call = "compute" /\ Placing = Head(sinfos)
        BY <3>1 DEF ComputeFails, Placing
      <4>2. QED
        BY <3>1, <4>1 DEF ComputeFails, Change, Low
    <3>3. PositionsOf(s)' = PosOf(e, s)
      BY <1>6, <1>7, <1>9, <3>2
    <3>4. PosOf(e, s) = IF s = r THEN Lower(PosOf(d, s), Low) ELSE PosOf(d, s)
      <4>1. Good(d) /\ Low \in Nat
        BY <1>2
      <4>2. e = SeqRm(d, PosIn(d, Low, MaxPos + 1), r)
        OBVIOUS
      <4> HIDE DEF d, e
      <4>3. QED
        BY <4>1, <4>2, RemovedPositions
    <3>5. s = r => Lower(PosOf(d, s), Low) = K
      <4> SUFFICES ASSUME s = r PROVE Lower(PosOf(d, s), Low) = K
        OBVIOUS
      <4>1. PosOf(d, s) = K \cup T
        BY <1>3, <3>2
      <4>2. \A p \in K : p < Low
        <5> SUFFICES ASSUME NEW i \in Cells, s \in c.seq[i] PROVE c.pos[i] < Low
          BY DEF PosOf, Owned
        <5>1. PICK x \in DOMAIN Placing : Low = Placing[x]
          BY <1>2 DEF ValuesOf
        <5>2. QED
          BY <1>2, <3>2, <5>1 DEF Before, Contents1, Content
      <4>3. \A v \in T : ~(v < Low)
        <5>1. T \subseteq Int
          BY <1>2, CellsAssumption DEF ValuesOf, Slots, Positions
        <5>2. QED
          BY <1>2, <5>1
      <4> HIDE DEF c, d, K, T, S
      <4>4. QED
        BY <4>1, <4>2, <4>3 DEF Lower
    <3> HIDE DEF c, d, e, K, T, S
    <3>6. PositionsOf(s)' = K \/ (s \in S /\ PositionsOf(s)' = K \cup T)
      BY <1>3, <3>3, <3>4, <3>5
    <3>7. QED
      BY <2>1, <3>6 DEF S, T, c
  <2>4. QED
    BY <2>2, <2>3
<1>10. QED
  BY <1>8, <1>9

\* Only these steps change cells while slots are looked for and computed.
LEMMA PlacingSteps ==
    ASSUME [Next]_vars, call \in {"prepare", "compute"}, v_cells' # v_cells
    PROVE  Prepare \/ Compute \/ (\E r \in Seqs : ComputeFails(r))
<1>1. ~Operation
  BY DEF Operation, SeqRemove, AnyRemove, CopySequence, CopyStream, Keep, AddShift, Divide, Clear
<1>2. \A S \in SUBSET Seqs, n \in 1 .. MaxBatch : ~Decode(S, n)
  BY DEF Decode
<1>3. ~Prepared /\ ~Restore /\ ~Initiated /\ ~NoSlot
  BY DEF Prepared, Restore, Initiated, NoSlot, cacheVars
<1>4. ~UNCHANGED vars
  BY DEF vars, cacheVars
<1>5. QED
  BY <1>1, <1>2, <1>3, <1>4 DEF Next

LEMMA VisibleStays ==
    ASSUME Inv, StackInv, PlanInv, Prepare \/ Compute \/ (\E r \in Seqs : ComputeFails(r)),
           NEW s \in Seqs
    PROVE  Visible(s) \subseteq PositionsOf(s)'
<1> DEFINE c == v_cells[BatchStream]
           d == Apply(c, Placing)
           S == batch.seqs
           v == NextOf(s)
<1>1. Prepare \/ call = "compute"
  BY DEF Compute, ComputeFails
<1>2. /\ c \in CellsType /\ Good(c) /\ Placing \in Slots /\ n_swa \in Nat
      /\ MayTake(n_swa, S, Contents1(c), Placing)
      /\ Low \in ValuesOf(Placing) /\ Low \in Nat
  BY <1>1, PlacingMeans
<1>3. /\ s \in S => v \in ValuesOf(Placing)
      /\ s \notin S => v = SeqPosMax(v_cells[StreamOf(s)], s) + 1
      /\ v \in Int
  <2>1. SeqPosMax(v_cells[StreamOf(s)], s) \in Int
    <3>1. SeqPosMax(v_cells[StreamOf(s)], s) \in Positions \cup {-1}
      BY SeqPosMaxType
    <3>2. QED
      BY <3>1, CellsAssumption DEF Positions
  <2>2. v = IF s \in S THEN Low ELSE SeqPosMax(v_cells[StreamOf(s)], s) + 1
    BY DEF NextOf
  <2> HIDE DEF v
  <2>3. QED
    BY <1>2, <2>1, <2>2
<1> HIDE DEF v
<1>4. CASE PositionsOf(s)' = PositionsOf(s)
  BY <1>4 DEF Visible
<1>5. CASE /\ PositionsOf(s) = PosOf(c, s)
           /\ Kept(s) \subseteq PositionsOf(s)'
           /\ StreamOf(s) = BatchStream
  <2> SUFFICES ASSUME NEW p \in PosOf(c, s), ~IsMaskedSwa(p, v)
               PROVE  ~Cut(c, Placing, s, p)
    BY <1>5 DEF Visible, Kept, v
  <2>1. ~Masked(n_swa, p, v)
    BY MaskedMeans
  <2>2. s \notin S => \A i \in Cells : s \in c.seq[i] => c.pos[i] + 1 <= v
    <3>1. \A i \in Cells : s \in c.seq[i] => c.pos[i] \in Positions /\ c.pos[i] <= SeqPosMax(c, s)
      BY <1>2, SeqPosMaxMeans DEF Good
    <3>2. SeqPosMax(c, s) \in Positions \cup {-1}
      BY SeqPosMaxType
    <3>3. s \notin S => v = SeqPosMax(c, s) + 1
      BY <1>3, <1>5
    <3> HIDE DEF c
    <3>4. QED
      BY <3>1, <3>2, <3>3, CellsAssumption DEF Positions
  <2> HIDE DEF c, S
  <2>3. QED
    BY <1>2, <1>3, <2>1, <2>2, SeenIsKept
<1>6. CASE StreamOf(s) # BatchStream
  <2>1. PositionsOf(s)' = PositionsOf(s)
    <3>1. \E e : v_cells' = [v_cells EXCEPT ![BatchStream] = e]
      BY PlacingChanges
    <3>2. StreamOf(s)' = StreamOf(s)
      BY PlacingChanges
    <3>3. v_cells'[StreamOf(s)] = v_cells[StreamOf(s)]
      <4>1. StreamOf(s) \in Streams
        BY StreamOfType
      <4>2. QED
        BY <1>6, <3>1, <4>1 DEF Inv, CellsInv
    <3>4. QED
      BY <3>2, <3>3 DEF PositionsOf, Owned
  <2>2. QED
    BY <1>4, <2>1
<1>7. \/ PositionsOf(s)' = PositionsOf(s)
      \/ PositionsOf(s) = PosOf(c, s) /\ Kept(s) \subseteq PositionsOf(s)'
  <2>1. \/ PositionsOf(s)' = PositionsOf(s)
        \/ /\ PositionsOf(s) = PosOf(c, s)
           /\ \/ PositionsOf(s)' = Kept(s)
              \/ s \in S /\ PositionsOf(s)' = Kept(s) \cup ValuesOf(Placing)
    BY PlacingPositions
  <2>2. QED
    BY <2>1
<1>8. QED
  BY <1>4, <1>5, <1>6, <1>7

LEMMA NoGapLeft ==
    ASSUME Inv, StackInv, PlanInv, Prepare \/ Compute \/ (\E r \in Seqs : ComputeFails(r)),
           Continues, NEW s \in Seqs, Contiguous(s)
    PROVE  Contiguous(s)'
<1> DEFINE c == v_cells[BatchStream]
           d == Apply(c, Placing)
           S == batch.seqs
           P == PositionsOf(s)
           Q == PositionsOf(s)'
<1>1. Prepare \/ call = "compute"
  BY DEF Compute, ComputeFails
<1>2. /\ c \in CellsType /\ Good(c) /\ Placing \in Slots
      /\ Before(S, Contents1(c), Placing) /\ Interval(Placing)
      /\ Low \in ValuesOf(Placing) /\ \A v \in ValuesOf(Placing) : Low <= v
  BY <1>1, PlacingMeans
<1>3. Contiguous(s)' <=> Gapless(Q)
  BY DEF Contiguous, Gapless
<1>4. Gapless(P)
  BY DEF Contiguous, Gapless
<1>5. \/ Q = P
      \/ P = PosOf(c, s) /\ (Q = Kept(s) \/ (s \in S /\ Q = Kept(s) \cup ValuesOf(Placing)))
  BY PlacingPositions
<1>6. Kept(s) = {p \in P : ~Cut(c, Placing, s, p)}
  BY DEF Kept
<1>7. s \in S => PosOf(c, s) = {} \/ Low - 1 \in PosOf(c, s)
  <2> SUFFICES ASSUME s \in S, PosOf(c, s) # {} PROVE Low - 1 \in PosOf(c, s)
    OBVIOUS
  <2>1. PICK i \in Cells : s \in c.seq[i]
    BY DEF PosOf, Owned
  <2>2. PICK j \in Cells : s \in c.seq[j] /\ c.pos[j] = SeqPosMax(c, s)
    BY <1>2, <2>1, SeqPosMaxMeans DEF Good
  <2>3. SeqPosMax(c, s) + 1 = Low
    BY DEF Continues
  <2>4. SeqPosMax(c, s) \in Int
    <3>1. SeqPosMax(c, s) \in Positions \cup {-1}
      BY SeqPosMaxType
    <3>2. QED
      BY <3>1, CellsAssumption DEF Positions
  <2>5. Low - 1 = SeqPosMax(c, s)
    <3> DEFINE m == SeqPosMax(c, s)
    <3>1. m \in Int /\ m + 1 = Low
      BY <2>3, <2>4
    <3> HIDE DEF m
    <3>2. Low - 1 = m
      BY <3>1
    <3>3. QED
      BY <3>2 DEF m
  <2>6. QED
    BY <2>2, <2>5 DEF PosOf, Owned
<1>8. PosOf(c, s) \in SUBSET Int /\ \A i \in DOMAIN Placing : c.pos[i] \in Int
  BY <1>2, CellsAssumption DEF PosOf, Owned, CellsType, Positions, Slots
<1> HIDE DEF c, d, S, P, Q
<1>9. CASE Q = P
  BY <1>3, <1>4, <1>9
<1>10. CASE P = PosOf(c, s) /\ Q = Kept(s)
  <2>1. Gapless({p \in P : ~Cut(c, Placing, s, p)})
    BY <1>4, <1>8, <1>10, CutLeavesNoGap
  <2>2. QED
    BY <1>3, <1>6, <1>10, <2>1
<1>11. CASE P = PosOf(c, s) /\ s \in S /\ Q = Kept(s) \cup ValuesOf(Placing)
  <2>1. Gapless({p \in P : ~Cut(c, Placing, s, p)} \cup ValuesOf(Placing))
    BY <1>2, <1>4, <1>7, <1>11, PlacedLeavesNoGap
  <2>2. QED
    BY <1>3, <1>6, <1>11, <2>1
<1>12. QED
  BY <1>5, <1>9, <1>10, <1>11

-----------------------------------------------------------------------------
(* SlotsAreTakenBack *)

\* The positions that a sequence has in the contents U, and those that it has once
\* prepare is undone.
PosIn1(U, s) == {U[i].pos : i \in {j \in Cells : s \in U[j].seq}}
HeldBy(s) == IF StreamOf(s) = BatchStream THEN PosIn1(Undone, s) ELSE PositionsOf(s)

\* Without a window the positions are those of before, until a ubatch is computed.
TakenInv ==
    call # "idle" /\ n_swa = 0 /\ (call = "compute" => Unplaced <= 0)
        => \A s \in Seqs : before[s] = HeldBy(s)

LEMMA SameHeld ==
    ASSUME NEW U, NEW V, NEW s,
           \A i \in Cells : s \in U[i].seq <=> s \in V[i].seq,
           \A i \in Cells : s \in U[i].seq => U[i].pos = V[i].pos
    PROVE  PosIn1(U, s) = PosIn1(V, s)
BY DEF PosIn1

LEMMA PositionsMeans == \A s : PositionsOf(s) = PosOf(v_cells[StreamOf(s)], s)
BY DEF PositionsOf, PosOf

\* With nothing to undo, what is held is what is in the cells.
LEMMA HeldNow ==
    ASSUME states = <<>>, NEW s
    PROVE  HeldBy(s) = PositionsOf(s)
<1> DEFINE c == v_cells[BatchStream]
<1>1. Undone = Contents1(c)
  BY RestoredNow DEF Undone
<1>2. \A i \in Cells : Contents1(c)[i].pos = c.pos[i] /\ Contents1(c)[i].seq = c.seq[i]
  BY DEF Contents1, Content
<1> HIDE DEF c
<1>3. PosIn1(Contents1(c), s) = PosOf(c, s)
  BY <1>2 DEF PosIn1, PosOf, Owned
<1>4. QED
  BY <1>1, <1>3, PositionsMeans DEF HeldBy, c

NowHeld == states = <<>> => \A s : HeldBy(s) = PositionsOf(s)

LEMMA NowHeldAlways == NowHeld
BY HeldNow DEF NowHeld

LEMMA NowHeldNext == NowHeld'
BY NowHeldAlways, PTL

\* A step that leaves Undone and the cells of the other streams alone, and before.
LEMMA HeldSame ==
    ASSUME Inv, UNCHANGED <<config, batch>>, NEW e,
           v_cells' = v_cells \/ v_cells' = [v_cells EXCEPT ![BatchStream] = e],
           NEW s \in Seqs, PosIn1(Undone', s) = PosIn1(Undone, s)
    PROVE  HeldBy(s)' = HeldBy(s)
<1>1. BatchStream' = BatchStream /\ StreamOf(s)' = StreamOf(s)
  BY BatchStreamSame DEF StreamOf, config
<1>2. CASE StreamOf(s) = BatchStream
  <2>1. HeldBy(s) = PosIn1(Undone, s) /\ HeldBy(s)' = PosIn1(Undone', s)
    BY <1>1, <1>2 DEF HeldBy, PosIn1
  <2>2. QED
    BY <2>1
<1>3. CASE StreamOf(s) # BatchStream
  <2>1. v_cells'[StreamOf(s)] = v_cells[StreamOf(s)]
    <3>1. StreamOf(s) \in Streams
      BY StreamOfType
    <3>2. QED
      BY <1>3, <3>1 DEF Inv, CellsInv
  <2>2. PositionsOf(s)' = PosOf(v_cells'[StreamOf(s)], s)
    BY <1>1 DEF PositionsOf, PosOf, Owned
  <2>3. PositionsOf(s)' = PositionsOf(s)
    BY <2>1, <2>2, PositionsMeans
  <2>4. QED
    BY <1>1, <1>3, <2>3 DEF HeldBy
<1>4. QED
  BY <1>2, <1>3

LEMMA DecodeTaken ==
    ASSUME Inv, StackInv, NEW S \in SUBSET Seqs, NEW n \in 1 .. MaxBatch, Decode(S, n)
    PROVE  TakenInv'
<1>1. /\ states' = <<>> /\ UNCHANGED config
      /\ v_cells' = [t \in Streams |-> ResetShift(v_cells[t])]
      /\ before' = [r \in Seqs |-> PositionsOf(r)]
  BY DEF Decode, StackInv
<1>2. ASSUME NEW s \in Seqs
      PROVE  before'[s] = HeldBy(s)'
  <2> DEFINE c == v_cells[StreamOf(s)]
  <2>1. StreamOf(s) \in Streams /\ StreamOf(s)' = StreamOf(s)
    BY <1>1, StreamOfType DEF StreamOf, config
  <2>2. v_cells'[StreamOf(s)] = ResetShift(c) /\ c \in CellsType
    BY <1>1, <2>1 DEF Inv, CellsInv
  <2>3. PositionsOf(s)' = PosOf(ResetShift(c), s)
    BY <2>1, <2>2 DEF PositionsOf, PosOf, Owned
  <2>4. PositionsOf(s) = PosOf(c, s)
    BY PositionsMeans
  <2> HIDE DEF c
  <2>5. PosOf(ResetShift(c), s) = PosOf(c, s)
    BY <2>2, ResetShiftContents DEF PosOf, Owned
  <2>6. HeldBy(s)' = PositionsOf(s)'
    BY <1>1, NowHeldNext DEF NowHeld
  <2>7. before'[s] = PositionsOf(s)
    BY <1>1
  <2>8. QED
    BY <2>3, <2>4, <2>5, <2>6, <2>7
<1>3. QED
  BY <1>2 DEF TakenInv

\* The cells of a slot are empty when there is no window.
LEMMA PrepareTaken ==
    ASSUME Inv, StackInv, TakenInv, Prepare
    PROVE  TakenInv'
<1> DEFINE c == v_cells[BatchStream]
           d == Apply(c, NextSlot)
           place == NextSlot
           S == batch.seqs
<1>1. /\ call = "prepare" /\ call' = call /\ UNCHANGED <<config, batch, before>>
      /\ n_swa' = n_swa
  BY DEF Prepare, config
<1>2. /\ v_cells' = [v_cells EXCEPT ![BatchStream] = d]
      /\ c \in CellsType
      /\ \A i \in Cells : ~InSlots(sinfos, i) => Undone[i] = Content(c, i)
      /\ \A i \in Cells :
            Undone'[i] = IF InSlots(sinfos, i) \/ i \in DOMAIN place
                         THEN Undone[i] ELSE Content(d, i)
      /\ Placed(c, d, place, S)
  BY PrepareUndone, Zenon
<1>3. Usable(n_swa, c, place)
  BY NextSlotMeans
<1> DEFINE U == Undone
           V == Undone'
<1>4. ASSUME n_swa = 0, NEW s \in Seqs
      PROVE  PosIn1(V, s) = PosIn1(U, s)
  <2>1. \A i \in DOMAIN place : c.seq[i] = {}
    BY <1>3, <1>4 DEF Usable, Masked
  <2>2. ASSUME NEW i \in Cells, ~InSlots(sinfos, i), i \notin DOMAIN place
        PROVE  (s \in U[i].seq <=> s \in V[i].seq) /\ (s \in U[i].seq => U[i].pos = V[i].pos)
    <3>1. U[i] = Content(c, i) /\ V[i] = Content(d, i)
      BY <1>2, <2>2
    <3>2. Placed(c, d, place, S)
      BY <1>2
    <3> HIDE DEF U, V, c, d, place, S
    <3>3. /\ d.seq[i] = {t \in c.seq[i] : ~Cut(c, place, t, c.pos[i])}
          /\ d.seq[i] # {} => d.pos[i] = c.pos[i]
      BY <2>2, <3>2 DEF Placed
    <3>4. \A t : ~Cut(c, place, t, c.pos[i])
      BY <2>1 DEF Cut
    <3>5. d.seq[i] = c.seq[i]
      BY <3>3, <3>4
    <3>6. QED
      BY <3>1, <3>3, <3>5 DEF Content
  <2>3. \A i \in Cells : s \in U[i].seq <=> s \in V[i].seq
    BY <1>2, <2>2
  <2>4. \A i \in Cells : s \in U[i].seq => U[i].pos = V[i].pos
    BY <1>2, <2>2
  <2> HIDE DEF U, V
  <2>5. QED
    BY <2>3, <2>4, SameHeld
<1>5. ASSUME n_swa = 0, NEW s \in Seqs
      PROVE  HeldBy(s)' = HeldBy(s)
  <2>1. PosIn1(Undone', s) = PosIn1(Undone, s)
    BY <1>4, <1>5
  <2> HIDE DEF d
  <2>2. QED
    BY <1>1, <1>2, <2>1, HeldSame
<1>6. QED
  BY <1>1, <1>5 DEF TakenInv

LEMMA TakenNext == Inv /\ StackInv /\ PlanInv /\ TakenInv /\ [Next]_vars => TakenInv'
<1> SUFFICES ASSUME Inv, StackInv, PlanInv, TakenInv, [Next]_vars PROVE TakenInv'
  OBVIOUS
<1>1. CASE Operation
  <2>1. call' = "idle"
    BY <1>1 DEF Operation, SeqRemove, AnyRemove, CopySequence, CopyStream, Keep, AddShift,
                Divide, Clear, callVars
  <2>2. QED
    BY <2>1 DEF TakenInv
<1>2. CASE \E S \in SUBSET Seqs, n \in 1 .. MaxBatch : Decode(S, n)
  BY <1>2, DecodeTaken
<1>3. CASE Prepare
  BY <1>3, PrepareTaken
<1>4. ASSUME call \in {"prepare", "restore"}, UNCHANGED <<config, batch, before>>,
             Undone' = Undone, NEW e,
             v_cells' = v_cells \/ v_cells' = [v_cells EXCEPT ![BatchStream] = e]
      PROVE  TakenInv'
  <2>1. \A s \in Seqs : HeldBy(s)' = HeldBy(s)
    BY <1>4, HeldSame
  <2>2. n_swa' = n_swa
    BY <1>4 DEF config
  <2>3. QED
    BY <1>4, <2>1, <2>2 DEF TakenInv
<1>5. CASE Prepared
  <2>1. call = "prepare" /\ UNCHANGED <<cacheVars, config, batch, before, states>>
    BY <1>5 DEF Prepared
  <2>2. Undone' = Undone /\ v_cells' = v_cells
    BY <2>1, BatchStreamSame DEF Undone, cacheVars
  <2>3. QED
    BY <1>4, <2>1, <2>2
<1>6. CASE Restore
  <2>1. call = "restore" /\ UNCHANGED <<config, batch, before>>
    BY <1>6 DEF Restore
  <2>2. Undone' = Undone
    BY <1>6, RestorePlan
  <2>3. \E e : v_cells' = [v_cells EXCEPT ![BatchStream] = e]
    BY <1>6 DEF Restore, Change
  <2>4. QED
    BY <1>4, <2>1, <2>2, <2>3
<1>7. CASE Initiated
  <2>1. call = "restore" /\ UNCHANGED <<cacheVars, config, batch, before>>
    BY <1>7 DEF Initiated
  <2>2. Undone' = Undone /\ v_cells' = v_cells
    BY <1>7, <2>1, InitiatedPlan DEF cacheVars
  <2>3. QED
    BY <1>4, <2>1, <2>2
<1>8. CASE Compute
  <2>1. CASE Tail(sinfos) = <<>>
    <3>1. call' = "idle"
      BY <1>8, <2>1 DEF Compute, Return
    <3>2. QED
      BY <3>1 DEF TakenInv
  <2>2. CASE Tail(sinfos) # <<>>
    <3> DEFINE n == Len(Tail(sinfos))
    <3>1. call = "compute" /\ call' = call /\ batch' = batch /\ sinfos' = Tail(sinfos)
      BY <1>8, <2>2 DEF Compute
    <3>2. /\ Len(sinfos) = n + 1 /\ n \in Nat /\ NUbatch \in Nat /\ batch.n \in Nat
          /\ NUbatch * Len(sinfos) < batch.n + NUbatch
      <4>1. sinfos \in Seq(Slots) /\ sinfos # <<>> /\ batch \in Batches
        BY <3>1 DEF Inv, DecodeInv, SlotsInv
      <4>2. Len(sinfos) = n + 1 /\ n \in Nat
        BY <4>1
      <4>3. QED
        BY <3>1, <4>1, <4>2, CacheAssumption DEF Batches, StackInv, Busy
    <3>3. Unplaced' = batch.n - NUbatch * n
      BY <3>1 DEF Unplaced
    <3> HIDE DEF n
    <3>4. NUbatch * (n + 1) = NUbatch * n + NUbatch /\ NUbatch * n \in Nat
      BY <3>2, OneMore
    <3>5. ~(batch.n - NUbatch * n <= 0)
      BY <3>2, <3>4
    <3>6. QED
      BY <3>1, <3>3, <3>5 DEF TakenInv
  <2>3. QED
    BY <2>1, <2>2
<1>9. CASE (\E s \in Seqs : ComputeFails(s)) \/ NoSlot
  <2>1. call' = "idle"
    BY <1>9 DEF ComputeFails, NoSlot, Return
  <2>2. QED
    BY <2>1 DEF TakenInv
<1>10. CASE UNCHANGED vars
  <2>1. UNCHANGED <<call, batch, before, sinfos, states, v_cells, config, n_swa>>
    BY <1>10 DEF vars, callVars, cacheVars, config
  <2>2. Undone' = Undone /\ Unplaced' = Unplaced
    BY <2>1, BatchStreamSame DEF Undone, Unplaced
  <2>3. \A s \in Seqs : HeldBy(s)' = HeldBy(s)
    BY <2>1, <2>2, HeldSame
  <2>4. QED
    BY <2>1, <2>2, <2>3 DEF TakenInv
<1>11. QED
  BY <1>1, <1>2, <1>3, <1>5, <1>6, <1>7, <1>8, <1>9, <1>10 DEF Next

-----------------------------------------------------------------------------
(* DataFollowsCells: what the operations do to the rows *)

\* The cells d hold no tokens that c does not, and what they hold is where it was but for
\* the shifts that are still to be applied.
Tracks(c, d) ==
    \A i \in Cells : d.seq[i] # {} =>
        c.seq[i] # {} /\ d.pos[i] - d.shift[i] = c.pos[i] - c.shift[i]

LEMMA LeaveTracks ==
    ASSUME NEW c, Good(c), NEW gone, DOMAIN gone \subseteq Cells
    PROVE  Tracks(c, Leave(c, gone))
<1>1. \A i \in Cells :
         /\ Leave(c, gone).seq[i] = IF i \in DOMAIN gone THEN c.seq[i] \ gone[i] ELSE c.seq[i]
         /\ Leave(c, gone).seq[i] # {} =>
              /\ Leave(c, gone).pos[i] = c.pos[i]
              /\ Leave(c, gone).shift[i] = c.shift[i]
  BY LeaveContents, Zenon
<1>2. QED
  BY <1>1 DEF Tracks

LEMMA SeqAddTracks ==
    ASSUME NEW c, Good(c), NEW s, NEW R \in SUBSET Nonempty(c)
    PROVE  Tracks(c, SeqAdd(c, R, s))
<1> DEFINE d == SeqAdd(c, R, s)
<1>1. c \in CellsType /\ \A i \in Cells : c.pos[i] = -1 <=> c.seq[i] = {}
  BY DEF Good, Indexed
<1>2. d.pos = c.pos /\ d.shift = c.shift
      /\ d.seq = [i \in Cells |-> IF i \in R THEN c.seq[i] \cup {s} ELSE c.seq[i]]
  BY <1>1 DEF SeqAdd, CellsType
<1> HIDE DEF d
<1>3. \A i \in R : c.seq[i] # {}
  BY <1>1 DEF Nonempty
<1>4. Tracks(c, d)
  BY <1>2, <1>3 DEF Tracks
<1>5. QED
  BY <1>4 DEF d

\* pos_add and pos_div of cells: what is added to a position is added to the shift.
LEMMA MoveTracks ==
    ASSUME NEW c \in CellsType, NEW place, NEW by,
           \A i \in Cells \cap DOMAIN place :
              by[i] \in Int /\ place[i] \in Int /\ place[i] - by[i] = c.pos[i]
    PROVE  Tracks(c, Move(c, place, by))
<1> DEFINE d == Move(c, place, by)
<1>1. \A i \in Cells :
         /\ d.pos[i] = IF i \in DOMAIN place THEN place[i] ELSE c.pos[i]
         /\ d.seq[i] = c.seq[i]
         /\ d.shift[i] = IF i \in DOMAIN place THEN c.shift[i] + by[i] ELSE c.shift[i]
  BY MoveContents
<1> HIDE DEF d
<1>2. ASSUME NEW i \in Cells
      PROVE  d.pos[i] - d.shift[i] = c.pos[i] - c.shift[i]
  <2>1. CASE i \in DOMAIN place
    <3>1. /\ d.pos[i] = place[i] /\ d.shift[i] = c.shift[i] + by[i]
          /\ place[i] \in Int /\ by[i] \in Int /\ c.shift[i] \in Int
          /\ place[i] - by[i] = c.pos[i]
      BY <1>1, <2>1 DEF CellsType
    <3>2. \A x, y, z \in Int : x - (z + y) = (x - y) - z
      OBVIOUS
    <3>3. QED
      BY <3>1, <3>2
  <2>2. CASE i \notin DOMAIN place
    BY <1>1, <2>2
  <2>3. QED
    BY <2>1, <2>2
<1>3. QED
  BY <1>1, <1>2 DEF Tracks, d

LEMMA TracksFurther ==
    ASSUME NEW c, NEW d, NEW e, Tracks(c, d), Tracks(d, e)
    PROVE  Tracks(c, e)
<1>1. ASSUME NEW i \in Cells, e.seq[i] # {}
      PROVE  c.seq[i] # {} /\ e.pos[i] - e.shift[i] = c.pos[i] - c.shift[i]
  <2>1. d.seq[i] # {} /\ e.pos[i] - e.shift[i] = d.pos[i] - d.shift[i]
    BY <1>1 DEF Tracks
  <2>2. c.seq[i] # {} /\ d.pos[i] - d.shift[i] = c.pos[i] - c.shift[i]
    BY <2>1 DEF Tracks
  <2>3. QED
    BY <2>1, <2>2
<1>2. QED
  BY <1>1 DEF Tracks

LEMMA PosAddTracks ==
    ASSUME NEW c, Good(c), NEW R \in SUBSET Nonempty(c), NEW n \in Int
    PROVE  Tracks(c, PosAdd(c, R, n))
<1> DEFINE negative == {i \in R : c.pos[i] + n < 0}
           kept     == R \ negative
           gone     == [i \in negative |-> c.seq[i]]
           place    == [i \in kept |-> c.pos[i] + n]
           by       == [i \in kept |-> n]
           d == Rm(c, negative)
           e == Move(d, place, by)
           f == [e EXCEPT !.has_shift = e.has_shift \/ R # {}]
<1>1. PosAdd(c, R, n) = f
  BY DEF PosAdd
<1>2. c \in CellsType /\ R \in SUBSET Cells
  BY DEF Good, Indexed, Nonempty
<1>3. d = Leave(c, gone) /\ DOMAIN gone \subseteq Cells
  BY <1>2 DEF Rm
<1>4. Good(d) /\ Tracks(c, d)
  <2> HIDE DEF d, gone
  <2>1. QED
    BY <1>3, LeaveGood, LeaveTracks
<1>5. \A i \in kept : d.pos[i] = c.pos[i]
  <2>1. kept \subseteq Cells \ DOMAIN gone
    BY <1>2
  <2>2. \A i \in Cells \ DOMAIN gone : Leave(c, gone).pos[i] = c.pos[i]
    BY <1>3, LeaveFields
  <2>3. QED
    BY <1>3, <2>1, <2>2
<1>6. d \in CellsType
  BY <1>4 DEF Good, Indexed
<1>7. \A i \in Cells \cap DOMAIN place :
         by[i] \in Int /\ place[i] \in Int /\ place[i] - by[i] = d.pos[i]
  <2> SUFFICES ASSUME NEW i \in kept
               PROVE  by[i] \in Int /\ place[i] \in Int /\ place[i] - by[i] = d.pos[i]
    OBVIOUS
  <2>1. c.pos[i] \in Int /\ place[i] = c.pos[i] + n /\ by[i] = n /\ d.pos[i] = c.pos[i]
    BY <1>2, <1>5, CellsAssumption DEF CellsType, Positions
  <2>2. QED
    BY <2>1
<1> HIDE DEF d, place, by
<1>8. Tracks(d, e)
  BY <1>6, <1>7, MoveTracks
<1>9. f.pos = e.pos /\ f.seq = e.seq /\ f.shift = e.shift
  BY <1>6 DEF Move, Shifted, Set, CellsType
<1> HIDE DEF e, f
<1>10. Tracks(c, e)
  BY <1>4, <1>8, TracksFurther
<1>11. Tracks(c, f)
  BY <1>9, <1>10 DEF Tracks
<1>12. QED
  BY <1>1, <1>11

\* Dividing the position 0 moves nothing.
LEMMA PosDivTracks ==
    ASSUME NEW c, Good(c), NEW R \in SUBSET Nonempty(c), NEW n \in Nat \ {0},
           \A i \in R : ~(c.pos[i] > 0)
    PROVE  Tracks(c, PosDiv(c, R, n))
<1> DEFINE place == [i \in R |-> c.pos[i] \div n]
           by    == [i \in R |-> c.pos[i] - (c.pos[i] \div n)]
<1>1. c \in CellsType /\ R \in SUBSET Cells
  BY DEF Good, Indexed, Nonempty
<1>2. 0 \div n = 0
  <2>1. \A p \in Nat : p \div n \in 0 .. p
    OBVIOUS
  <2>2. 0 \div n \in 0 .. 0
    BY <2>1
  <2>3. QED
    BY <2>2
<1>3. \A i \in R : c.pos[i] = 0
  BY <1>1, CellsAssumption DEF CellsType, Nonempty, Positions
<1>4. \A i \in Cells \cap DOMAIN place :
         by[i] \in Int /\ place[i] \in Int /\ place[i] - by[i] = c.pos[i]
  BY <1>2, <1>3
<1> HIDE DEF place, by
<1>5. Tracks(c, Move(c, place, by))
  BY <1>1, <1>4, MoveTracks
<1>6. QED
  BY <1>5 DEF PosDiv, place, by

\* What seq_cp between streams leaves in a cell: the tokens of a, where they were.
LEMMA CopiedContents ==
    ASSUME NEW c, Good(c), NEW a \in Seqs, NEW b \in Seqs, NEW i \in Cells
    PROVE  Copied(c, a, b).seq[i] # {} =>
             /\ c.seq[i] # {}
             /\ Copied(c, a, b).pos[i] = c.pos[i]
             /\ Copied(c, a, b).shift[i] = c.shift[i]
<1> DEFINE R     == Owned(c, a)
           place == [j \in Owned(c, a) |-> c.pos[j]]
           late  == {j \in Owned(c, a) : c.shift[j] # 0}
           by    == [j \in late |-> c.shift[j]]
           d == Put(Reset, place, {b})
           e == Shifted(d, by)
           f == [e EXCEPT !.has_shift = (late # {})]
<1>1. Copied(c, a, b) = f
  BY DEF Copied
<1>2. Reset \in CellsType
  BY ResetGood DEF Good, Indexed
<1>3. \A j \in Cells : Reset.seq[j] = {} /\ Reset.shift[j] = 0
  BY DEF Reset
<1>4. DOMAIN place = R /\ DOMAIN by = late /\ \A j \in R : place[j] = c.pos[j]
  OBVIOUS
<1>5. \A j \in late : by[j] = c.shift[j]
  OBVIOUS
<1> HIDE DEF place, by
<1>6. /\ d.pos[i] = IF i \in R THEN place[i] ELSE Reset.pos[i]
      /\ d.seq[i] = IF i \in R THEN {b} ELSE Reset.seq[i]
      /\ d.shift[i] = Reset.shift[i]
  BY <1>2, <1>4, PutContents
<1>7. f.pos[i] = d.pos[i] /\ f.seq[i] = d.seq[i]
      /\ f.shift[i] = IF i \in late THEN by[i] ELSE d.shift[i]
  <2>1. d \in CellsType
    <3>1. Good(d)
      <4>1. R \in SUBSET Cells /\ place \in [R -> Positions]
        BY CellsAssumption DEF place, Owned, Good, Indexed, CellsType
      <4>2. QED
        BY <4>1, ResetGood, PutGood
    <3>2. QED
      BY <3>1 DEF Good, Indexed
  <2> HIDE DEF d
  <2>2. /\ e.pos = d.pos /\ e.seq = d.seq
        /\ e.shift = [j \in Cells |-> IF j \in DOMAIN by THEN by[j] ELSE d.shift[j]]
    BY <2>1 DEF Shifted, CellsType
  <2>3. f.pos = e.pos /\ f.seq = e.seq /\ f.shift = e.shift
    BY <2>1 DEF Shifted, CellsType
  <2> HIDE DEF e, f
  <2>4. QED
    BY <1>4, <2>2, <2>3
<1> HIDE DEF d, e, f
<1>8. i \in R => a \in c.seq[i]
  BY DEF Owned
<1>9. i \in R /\ i \notin late => c.shift[i] = 0
  OBVIOUS
<1>10. late \subseteq R
  OBVIOUS
<1> HIDE DEF R, late
<1>11. QED
  BY <1>1, <1>3, <1>4, <1>5, <1>6, <1>7, <1>8, <1>9, <1>10

-----------------------------------------------------------------------------
(* The pending copies of streams *)

Copies == [src : Streams, dst : Streams]
Rows   == [Streams -> [Cells -> Int]]

\* The definition of the function step of CopyData, for the first n of the copies sc.
Copying(sc, k, n, f) ==
    f = [j \in 0 .. n |->
            IF j = 0 THEN k ELSE [f[j - 1] EXCEPT ![sc[j].dst] = f[j - 1][sc[j].src]]]

Made(sc, k, n) == (CHOOSE f : Copying(sc, k, n, f))[n]

LEMMA CopyDataMeans == \A k : CopyData(k) = Made(sc_info, k, Len(sc_info))
BY Zenon DEF CopyData, Made, Copying

\* A set of numbers with 0 and with the successors of its elements has them all.
LEMMA Induct ==
    ASSUME NEW T \in SUBSET Nat, 0 \in T, \A n \in Nat : n \in T => n + 1 \in T
    PROVE  T = Nat
<1> DEFINE S == Nat \ T
<1> SUFFICES ASSUME S # {}
             PROVE  FALSE
  OBVIOUS
<1>1. PICK n \in S : \A m \in S : n <= m
  BY HasSmallest
<1>2. n \in Nat /\ n # 0 /\ n \notin T
  OBVIOUS
<1>3. n - 1 \in Nat /\ ~(n <= n - 1)
  BY <1>2
<1>4. n - 1 \in T
  BY <1>1, <1>3
<1>5. (n - 1) + 1 = n
  BY <1>2
<1>6. QED
  BY <1>2, <1>3, <1>4, <1>5

\* What that function is.
Steps(sc, k, n, f) ==
    /\ f[0] = k
    /\ \A j \in 1 .. n : f[j] = [f[j - 1] EXCEPT ![sc[j].dst] = f[j - 1][sc[j].src]]

LEMMA CopyingMeans ==
    ASSUME NEW sc, NEW k, NEW n \in Nat, NEW f, Copying(sc, k, n, f)
    PROVE  Steps(sc, k, n, f)
<1>1. \A j \in 0 .. n :
         f[j] = IF j = 0 THEN k ELSE [f[j - 1] EXCEPT ![sc[j].dst] = f[j - 1][sc[j].src]]
  BY Zenon DEF Copying
<1>2. \A j \in 1 .. n : j \in 0 .. n /\ j # 0
  OBVIOUS
<1>3. 0 \in 0 .. n
  OBVIOUS
<1>4. \A j \in 1 .. n : f[j] = [f[j - 1] EXCEPT ![sc[j].dst] = f[j - 1][sc[j].src]]
  BY <1>1, <1>2, Zenon
<1>5. QED
  BY <1>1, <1>3, <1>4 DEF Steps

\* One copy more than the functions f for n.
LEMMA CopyingFurther ==
    ASSUME NEW sc, NEW k, NEW n \in Nat, NEW f, Copying(sc, k, n, f),
           NEW g, g = [j \in 0 .. n + 1 |->
                          IF j = n + 1
                          THEN [f[n] EXCEPT ![sc[j].dst] = f[n][sc[j].src]]
                          ELSE f[j]]
    PROVE  Copying(sc, k, n + 1, g)
<1>1. \A j \in 0 .. n : g[j] = f[j]
  BY SMT
<1>2. /\ f[0] = k
      /\ \A j \in 1 .. n : f[j] = [f[j - 1] EXCEPT ![sc[j].dst] = f[j - 1][sc[j].src]]
  <2>1. Steps(sc, k, n, f)
    BY CopyingMeans
  <2>2. QED
    BY <2>1, Zenon DEF Steps
<1>3. \A j \in 0 .. n + 1 :
         g[j] = IF j = 0 THEN k ELSE [g[j - 1] EXCEPT ![sc[j].dst] = g[j - 1][sc[j].src]]
  <2> SUFFICES ASSUME NEW j \in 0 .. n + 1
               PROVE  g[j] = IF j = 0 THEN k
                             ELSE [g[j - 1] EXCEPT ![sc[j].dst] = g[j - 1][sc[j].src]]
    OBVIOUS
  <2>1. CASE j = n + 1
    <3>1. g[j] = [f[n] EXCEPT ![sc[j].dst] = f[n][sc[j].src]] /\ g[n] = f[n]
      BY <1>1, <2>1
    <3>2. j - 1 = n /\ j # 0
      BY <2>1
    <3>3. QED
      BY <3>1, <3>2
  <2>2. CASE j # n + 1 /\ j # 0
    <3>1. j \in 1 .. n /\ j - 1 \in 0 .. n /\ j \in 0 .. n
      BY <2>2
    <3>2. g[j] = f[j] /\ g[j - 1] = f[j - 1]
      BY <1>1, <3>1
    <3>3. f[j] = [f[j - 1] EXCEPT ![sc[j].dst] = f[j - 1][sc[j].src]]
      BY <1>2, <3>1
    <3>4. QED
      BY <2>2, <3>2, <3>3
  <2>3. CASE j = 0
    BY <1>1, <1>2, <2>3
  <2>4. QED
    BY <2>1, <2>2, <2>3
<1>4. g = [j \in 0 .. n + 1 |-> g[j]]
  OBVIOUS
<1>5. QED
  BY <1>3, <1>4 DEF Copying

LEMMA CopyingExists ==
    ASSUME NEW sc, NEW k, NEW n \in Nat
    PROVE  \E f : Copying(sc, k, n, f)
<1> DEFINE T == {m \in Nat : \E f : Copying(sc, k, m, f)}
<1>1. 0 \in T
  <2> DEFINE f == [j \in 0 .. 0 |-> k]
  <2>1. Copying(sc, k, 0, f)
    BY DEF Copying
  <2>2. QED
    BY <2>1
<1>2. ASSUME NEW m \in Nat, m \in T
      PROVE  m + 1 \in T
  <2>1. PICK f : Copying(sc, k, m, f)
    BY <1>2
  <2> DEFINE g == [j \in 0 .. m + 1 |->
                      IF j = m + 1
                      THEN [f[m] EXCEPT ![sc[j].dst] = f[m][sc[j].src]]
                      ELSE f[j]]
  <2>2. Copying(sc, k, m + 1, g)
    BY <2>1, CopyingFurther
  <2>3. QED
    BY <2>2
<1> HIDE DEF T
<1>3. T = Nat
  <2>1. T \in SUBSET Nat
    BY DEF T
  <2>2. QED
    BY <1>1, <1>2, <2>1, Induct
<1>4. QED
  BY <1>3 DEF T

\* The function is the same for more copies.
LEMMA CopyingUnique ==
    ASSUME NEW sc, NEW sd, NEW k, NEW n \in Nat, NEW N \in Nat, NEW f, NEW g, n <= N,
           Copying(sc, k, n, f), Copying(sd, k, N, g), \A j \in 1 .. n : sc[j] = sd[j]
    PROVE  f[n] = g[n]
<1> DEFINE T == {m \in Nat : m <= n => f[m] = g[m]}
<1>1. /\ f[0] = k
      /\ \A j \in 1 .. n : f[j] = [f[j - 1] EXCEPT ![sc[j].dst] = f[j - 1][sc[j].src]]
  <2>1. Steps(sc, k, n, f)
    BY CopyingMeans
  <2>2. QED
    BY <2>1, Zenon DEF Steps
<1>2. /\ g[0] = k
      /\ \A j \in 1 .. N : g[j] = [g[j - 1] EXCEPT ![sd[j].dst] = g[j - 1][sd[j].src]]
  <2>1. Steps(sd, k, N, g)
    BY CopyingMeans
  <2>2. QED
    BY <2>1, Zenon DEF Steps
<1>3. 0 \in T
  BY <1>1, <1>2
<1>4. ASSUME NEW m \in Nat, m \in T
      PROVE  m + 1 \in T
  <2> SUFFICES ASSUME m + 1 <= n PROVE f[m + 1] = g[m + 1]
    OBVIOUS
  <2>1. m <= n /\ m + 1 \in 1 .. n /\ m + 1 \in 1 .. N /\ (m + 1) - 1 = m
    OBVIOUS
  <2>2. f[m] = g[m] /\ sc[m + 1] = sd[m + 1]
    BY <1>4, <2>1
  <2>3. f[m + 1] = [f[m] EXCEPT ![sc[m + 1].dst] = f[m][sc[m + 1].src]]
    BY <1>1, <2>1
  <2>4. g[m + 1] = [g[m] EXCEPT ![sd[m + 1].dst] = g[m][sd[m + 1].src]]
    BY <1>2, <2>1
  <2>5. QED
    BY <2>2, <2>3, <2>4
<1> HIDE DEF T
<1>5. T = Nat
  <2>1. T \in SUBSET Nat
    BY DEF T
  <2>2. QED
    BY <1>3, <1>4, <2>1, Induct
<1>6. QED
  BY <1>5 DEF T

\* No copies leave the rows alone, and one more copies a stream of the result.
LEMMA MadeNone ==
    ASSUME NEW sc, NEW k
    PROVE  Made(sc, k, 0) = k
<1> DEFINE f == CHOOSE f : Copying(sc, k, 0, f)
<1>1. Copying(sc, k, 0, f)
  BY CopyingExists
<1>2. Made(sc, k, 0) = f[0]
  BY DEF Made
<1> HIDE DEF f
<1>3. f[0] = k
  BY <1>1, CopyingMeans DEF Steps
<1>4. QED
  BY <1>2, <1>3

Recopied(m, x) == [m EXCEPT ![x.dst] = m[x.src]]

LEMMA MadeMore ==
    ASSUME NEW S, NEW sc \in Seq(S), NEW x, NEW k, NEW n, n = Len(sc),
           NEW m, m = Made(sc, k, n)
    PROVE  Made(Append(sc, x), k, n + 1) = Recopied(m, x)
<1> DEFINE more == Append(sc, x)
           f == CHOOSE f : Copying(sc, k, n, f)
           g == CHOOSE g : Copying(more, k, n + 1, g)
<1>1. n \in Nat /\ more[n + 1] = x /\ \A j \in 1 .. n : sc[j] = more[j]
  OBVIOUS
<1> HIDE DEF more
<1>2. Copying(sc, k, n, f) /\ Copying(more, k, n + 1, g)
  <2>1. n + 1 \in Nat
    BY <1>1
  <2>2. (\E h : Copying(sc, k, n, h)) /\ \E h : Copying(more, k, n + 1, h)
    BY <1>1, <2>1, CopyingExists
  <2>3. QED
    BY <2>2, Zenon
<1>3. m = f[n] /\ Made(more, k, n + 1) = g[n + 1]
  BY DEF Made
<1> HIDE DEF f, g
<1>4. f[n] = g[n]
  <2>1. n <= n + 1 /\ n + 1 \in Nat
    BY <1>1
  <2>2. QED
    BY <1>1, <1>2, <2>1, CopyingUnique
<1>5. g[n + 1] = [g[n] EXCEPT ![more[n + 1].dst] = g[n][more[n + 1].src]]
  <2>1. \A j \in 1 .. n + 1 :
           g[j] = [g[j - 1] EXCEPT ![more[j].dst] = g[j - 1][more[j].src]]
    <3>1. n + 1 \in Nat
      BY <1>1
    <3>2. Steps(more, k, n + 1, g)
      BY <1>2, <3>1, CopyingMeans
    <3>3. QED
      BY <3>2, Zenon DEF Steps
  <2>2. n + 1 \in 1 .. n + 1 /\ (n + 1) - 1 = n
    BY <1>1
  <2>3. QED
    BY <2>1, <2>2
<1>6. QED
  BY <1>1, <1>3, <1>4, <1>5 DEF more, Recopied

-----------------------------------------------------------------------------
(* The rows follow the cells *)

\* A stream's rows m are rotated to the positions of the tokens in the cells c, but for
\* the pending shifts, or to those of the contents U.
Follows(m, c)         == \A i \in Cells : c.seq[i] # {} => m[i] \in {-1, c.pos[i] - c.shift[i]}
FollowsContents(m, U) == \A i \in Cells : U[i].seq # {} => m[i] \in {-1, U[i].pos}

\* The rows once the pending copies are made, and the contents that a stream has once
\* prepare has taken back what it placed.
MadeRows  == Made(sc_info, k_pos, Len(sc_info))
ViewOf(t) == IF t = BatchStream THEN Undone ELSE Contents1(v_cells[t])

RowsInv ==
    /\ sc_info \in Seq(Copies) /\ k_pos \in Rows /\ MadeRows \in Rows
    /\ call = "idle" /\ ~divided => \A t \in Streams : Follows(MadeRows[t], v_cells[t])
    /\ call # "idle" => sc_info = <<>>
    /\ call # "idle" /\ ~divided => \A t \in Streams : FollowsContents(k_pos[t], ViewOf(t))

LEMMA FollowsFurther ==
    ASSUME NEW m, NEW c, NEW d, Follows(m, c), Tracks(c, d)
    PROVE  Follows(m, d)
BY DEF Follows, Tracks

\* Without pending shifts the cells and their contents are followed alike.
LEMMA FollowsAlike ==
    ASSUME NEW m, NEW c \in CellsType, Unshifted(c)
    PROVE  FollowsContents(m, Contents1(c)) <=> Follows(m, c)
<1>1. \A i \in Cells : Contents1(c)[i] = Content(c, i)
  BY DEF Contents1
<1>2. \A i \in Cells : Contents1(c)[i].seq = c.seq[i] /\ Contents1(c)[i].pos = c.pos[i]
  <2>1. \A i : Content(c, i).seq = c.seq[i] /\ Content(c, i).pos = c.pos[i]
    BY DEF Content
  <2>2. QED
    BY <1>1, <2>1, Zenon
<1>3. ASSUME NEW i \in Cells
      PROVE  c.pos[i] - c.shift[i] = c.pos[i]
  <2>1. c.pos[i] \in Int /\ c.shift[i] = 0
    BY CellsAssumption DEF CellsType, Unshifted, Positions
  <2>2. QED
    BY <2>1
<1>4. QED
  BY <1>2, <1>3, Zenon DEF FollowsContents, Follows

\* Without pending copies the rows are what they are.
MadeOfNone == sc_info = <<>> => MadeRows = k_pos

LEMMA MadeOfNoneAlways == MadeOfNone
<1> SUFFICES ASSUME sc_info = <<>> PROVE MadeRows = k_pos
  BY DEF MadeOfNone
<1>1. Len(sc_info) = 0
  OBVIOUS
<1>2. Made(sc_info, k_pos, 0) = k_pos
  BY MadeNone
<1>3. QED
  BY <1>1, <1>2 DEF MadeRows

LEMMA MadeOfNoneNext == MadeOfNone'
BY MadeOfNoneAlways, PTL

\* An operation that keeps the rows, and the cells where they follow.
LEMMA TracksRows ==
    ASSUME RowsInv, call = "idle", call' = "idle", UNCHANGED <<sc_info, k_pos>>,
           ~divided' => ~divided /\ \A t \in Streams : Tracks(v_cells[t], v_cells'[t])
    PROVE  RowsInv'
<1>1. MadeRows' = MadeRows
  BY DEF MadeRows
<1>2. ASSUME ~divided', NEW t \in Streams
      PROVE  Follows(MadeRows[t], v_cells'[t])
  <2>1. Follows(MadeRows[t], v_cells[t]) /\ Tracks(v_cells[t], v_cells'[t])
    BY <1>2 DEF RowsInv
  <2>2. QED
    BY <2>1, FollowsFurther
<1>3. Streams' = Streams
  BY DEF Streams
<1>4. \A t \in Streams : Follows(MadeRows[t], v_cells[t])' <=> Follows(MadeRows'[t], v_cells'[t])
  BY DEF Follows
<1>5. QED
  BY <1>1, <1>2 DEF RowsInv

LEMMA ChangeTracks ==
    ASSUME Inv, NEW t \in Streams, NEW d, NEW h, Change(t, d, h), Tracks(v_cells[t], d)
    PROVE  \A u \in Streams : Tracks(v_cells[u], v_cells'[u])
<1> SUFFICES ASSUME NEW u \in Streams PROVE Tracks(v_cells[u], v_cells'[u])
  OBVIOUS
<1>1. v_cells'[u] = IF u = t THEN d ELSE v_cells[u]
  BY DEF Change, Inv, CellsInv
<1>2. Tracks(v_cells[u], v_cells[u])
  BY DEF Tracks
<1>3. QED
  BY <1>1, <1>2

LEMMA SeqRemoveRows ==
    ASSUME Inv, RowsInv, NEW s \in Seqs, NEW r, SeqRemove(s, r)
    PROVE  RowsInv'
<1> DEFINE t == StreamOf(s)
           c == v_cells[t]
           gone == [i \in InRange(c, r) \cap Owned(c, s) |-> {s}]
           d == Leave(c, gone)
<1>1. t \in Streams /\ Good(c)
  BY StreamOfType DEF Inv, CellsInv
<1>2. Tracks(c, d)
  <2>1. DOMAIN gone \subseteq Cells
    BY DEF Owned
  <2> HIDE DEF gone, c
  <2>2. QED
    BY <1>1, <2>1, LeaveTracks
<1>3. /\ call = "idle" /\ call' = "idle" /\ UNCHANGED <<sc_info, k_pos, divided>>
      /\ Change(t, d, EarlierHead(v_heads[t], Freed(c, d)))
  BY DEF SeqRemove, callVars, SeqRm
<1> HIDE DEF d, t
<1>4. \A u \in Streams : Tracks(v_cells[u], v_cells'[u])
  BY <1>1, <1>2, <1>3, ChangeTracks DEF t
<1>5. QED
  BY <1>3, <1>4, TracksRows

LEMMA AnyRemoveRows ==
    ASSUME Inv, RowsInv, NEW r, AnyRemove(r)
    PROVE  RowsInv'
<1>1. ASSUME NEW t \in Streams
      PROVE  Tracks(v_cells[t], v_cells'[t])
  <2> DEFINE c == v_cells[t]
             gone == [i \in InRange(c, r) |-> c.seq[i]]
  <2>1. v_cells'[t] = Leave(c, gone)
    BY DEF AnyRemove, Rm
  <2>2. Good(c) /\ DOMAIN gone \subseteq Cells
    BY DEF Inv, CellsInv, InRange, PosIn, Nonempty
  <2> HIDE DEF c, gone
  <2>3. QED
    BY <2>1, <2>2, LeaveTracks DEF c
<1>2. call = "idle" /\ call' = "idle" /\ UNCHANGED <<sc_info, k_pos, divided>>
  BY DEF AnyRemove, callVars
<1>3. QED
  BY <1>1, <1>2, TracksRows

LEMMA CopySequenceRows ==
    ASSUME Inv, RowsInv, NEW a \in Seqs, NEW b \in Seqs, NEW r, CopySequence(a, b, r)
    PROVE  RowsInv'
<1> DEFINE t == StreamOf(a)
           R == InRange(v_cells[t], r) \cap Owned(v_cells[t], a)
<1>1. t \in Streams
  BY StreamOfType
<1>2. R \in SUBSET Nonempty(v_cells[t]) /\ Good(v_cells[t])
  BY <1>1 DEF InRange, PosIn, Inv, CellsInv
<1>3. /\ call = "idle" /\ call' = "idle" /\ UNCHANGED <<sc_info, k_pos, divided>>
      /\ Change(t, SeqAdd(v_cells[t], R, b), v_heads[t])
  BY DEF CopySequence, callVars
<1> HIDE DEF R, t
<1>4. Tracks(v_cells[t], SeqAdd(v_cells[t], R, b))
  BY <1>2, SeqAddTracks
<1>5. \A u \in Streams : Tracks(v_cells[u], v_cells'[u])
  BY <1>1, <1>3, <1>4, ChangeTracks
<1>6. QED
  BY <1>3, <1>5, TracksRows

LEMMA KeepRows ==
    ASSUME Inv, RowsInv, NEW s \in Seqs, Keep(s)
    PROVE  RowsInv'
<1> DEFINE t == StreamOf(s)
           c == v_cells[t]
           gone == [i \in Nonempty(c) |-> c.seq[i] \ {s}]
           d == Leave(c, gone)
<1>1. t \in Streams /\ Good(c)
  BY StreamOfType DEF Inv, CellsInv
<1>2. Tracks(c, d)
  <2>1. DOMAIN gone \subseteq Cells
    BY DEF Nonempty
  <2> HIDE DEF gone, c
  <2>2. QED
    BY <1>1, <2>1, LeaveTracks
<1>3. /\ call = "idle" /\ call' = "idle" /\ UNCHANGED <<sc_info, k_pos, divided>>
      /\ Change(t, d, EarlierHead(v_heads[t], Freed(c, d)))
  BY DEF Keep, callVars, SeqKeep
<1> HIDE DEF d, t
<1>4. \A u \in Streams : Tracks(v_cells[u], v_cells'[u])
  BY <1>1, <1>2, <1>3, ChangeTracks DEF t
<1>5. QED
  BY <1>3, <1>4, TracksRows

LEMMA AddShiftRows ==
    ASSUME Inv, RowsInv, NEW s \in Seqs, NEW r, NEW n \in Shifts, AddShift(s, r, n)
    PROVE  RowsInv'
<1> DEFINE t == StreamOf(s)
           c == v_cells[t]
           R == InRange(c, r) \cap Owned(c, s)
           d == PosAdd(c, R, n)
<1>1. t \in Streams /\ n \in Int /\ Good(c) /\ R \in SUBSET Nonempty(c)
  BY StreamOfType, CacheAssumption DEF Inv, CellsInv, InRange, PosIn
<1>2. /\ call = "idle" /\ call' = "idle" /\ UNCHANGED <<sc_info, k_pos, divided>>
      /\ \E h : Change(t, d, h)
  BY DEF AddShift, callVars
<1> HIDE DEF R
<1>3. Tracks(c, d)
  BY <1>1, PosAddTracks
<1> HIDE DEF d, t
<1>4. \A u \in Streams : Tracks(v_cells[u], v_cells'[u])
  BY <1>1, <1>2, <1>3, ChangeTracks
<1>5. QED
  BY <1>2, <1>4, TracksRows

\* Only a division that moves a token loses the rows.
LEMMA DivideRows ==
    ASSUME Inv, RowsInv, NEW s \in Seqs, NEW r, NEW n \in Divisors[setup], Divide(s, r, n)
    PROVE  RowsInv'
<1> DEFINE t == StreamOf(s)
           c == v_cells[t]
           R == InRange(c, r) \cap Owned(c, s)
           d == PosDiv(c, R, n)
<1>1. t \in Streams /\ n \in Nat \ {0} /\ Good(c) /\ R \in SUBSET Nonempty(c)
  BY StreamOfType, CacheAssumption DEF Inv, CellsInv, ConfigInv, InRange, PosIn
<1>2. /\ call = "idle" /\ call' = "idle" /\ UNCHANGED <<sc_info, k_pos>>
      /\ Change(t, d, v_heads[t])
      /\ divided' = (divided \/ \E i \in R : c.pos[i] > 0)
  BY DEF Divide, callVars
<1> HIDE DEF R
<1>3. ASSUME ~divided'
      PROVE  Tracks(c, d)
  <2>1. \A i \in R : ~(c.pos[i] > 0)
    BY <1>2, <1>3
  <2>2. QED
    BY <1>1, <2>1, PosDivTracks
<1> HIDE DEF d, t
<1>4. ~divided' => ~divided /\ \A u \in Streams : Tracks(v_cells[u], v_cells'[u])
  BY <1>1, <1>2, <1>3, ChangeTracks
<1>5. QED
  BY <1>2, <1>4, TracksRows

LEMMA ClearRows ==
    ASSUME Inv, RowsInv, Clear
    PROVE  RowsInv'
<1>1. ASSUME NEW t \in Streams
      PROVE  Tracks(v_cells[t], v_cells'[t])
  <2>1. v_cells'[t] = Reset
    BY DEF Clear
  <2>2. \A i \in Cells : Reset.seq[i] = {}
    BY DEF Reset
  <2>3. QED
    BY <2>1, <2>2 DEF Tracks
<1>2. call = "idle" /\ call' = "idle" /\ UNCHANGED <<sc_info, k_pos, divided>>
  BY DEF Clear, callVars
<1>3. QED
  BY <1>1, <1>2, TracksRows

\* A copy between streams is pending for the rows as it is made for the cells.
LEMMA CopyStreamRows ==
    ASSUME Inv, RowsInv, NEW a \in Seqs, NEW b \in Seqs, CopyStream(a, b)
    PROVE  RowsInv'
<1> DEFINE s0 == StreamOf(a)
           s1 == StreamOf(b)
           x  == [src |-> s0, dst |-> s1]
           d  == Copied(v_cells[s0], a, b)
<1>1. s0 \in Streams /\ s1 \in Streams /\ Good(v_cells[s0])
  BY StreamOfType DEF Inv, CellsInv
<1>2. /\ call = "idle" /\ call' = "idle" /\ UNCHANGED <<k_pos, divided>>
      /\ sc_info' = Append(sc_info, x)
      /\ v_cells' = [v_cells EXCEPT ![s1] = d]
  BY DEF CopyStream, callVars, Change
<1>3. sc_info \in Seq(Copies) /\ k_pos \in Rows /\ MadeRows \in Rows
  BY DEF RowsInv
<1>4. sc_info' \in Seq(Copies)
  BY <1>1, <1>2, <1>3 DEF Copies
<1>5. MadeRows' = [MadeRows EXCEPT ![s1] = MadeRows[s0]]
  <2>1. Made(Append(sc_info, x), k_pos, Len(sc_info) + 1) = Recopied(MadeRows, x)
    <3> DEFINE n == Len(sc_info)
    <3>1. n = Len(sc_info) /\ MadeRows = Made(sc_info, k_pos, n)
      BY DEF MadeRows
    <3> HIDE DEF n, x
    <3>2. Made(Append(sc_info, x), k_pos, n + 1) = Recopied(MadeRows, x)
      BY <1>3, <3>1, MadeMore
    <3>3. QED
      BY <3>1, <3>2
  <2>2. Len(Append(sc_info, x)) = Len(sc_info) + 1
    BY <1>3
  <2>3. x.dst = s1 /\ x.src = s0
    OBVIOUS
  <2> HIDE DEF x, s0, s1
  <2>4. MadeRows' = Made(Append(sc_info, x), k_pos, Len(sc_info) + 1)
    BY <1>2, <2>2 DEF MadeRows
  <2>5. QED
    BY <2>1, <2>3, <2>4 DEF Recopied
<1>6. MadeRows' \in Rows
  BY <1>1, <1>3, <1>5 DEF Rows
<1>7. Tracks(v_cells[s0], d)
  <2> SUFFICES ASSUME NEW i \in Cells, d.seq[i] # {}
               PROVE  /\ v_cells[s0].seq[i] # {}
                      /\ d.pos[i] - d.shift[i] = v_cells[s0].pos[i] - v_cells[s0].shift[i]
    BY DEF Tracks
  <2>1. QED
    BY <1>1, CopiedContents
<1> HIDE DEF d, x, s0, s1
<1>8. ASSUME ~divided', NEW t \in Streams
      PROVE  Follows(MadeRows'[t], v_cells'[t])
  <2>1. \A u \in Streams : Follows(MadeRows[u], v_cells[u])
    BY <1>2, <1>8 DEF RowsInv
  <2>2. CASE t = s1
    <3>1. MadeRows'[t] = MadeRows[s0] /\ v_cells'[t] = d
      BY <1>1, <1>2, <1>3, <1>5, <2>2 DEF Rows, Inv, CellsInv
    <3>2. QED
      BY <1>1, <1>7, <2>1, <3>1, FollowsFurther
  <2>3. CASE t # s1
    <3>1. MadeRows'[t] = MadeRows[t] /\ v_cells'[t] = v_cells[t]
      BY <1>1, <1>2, <1>3, <1>5, <2>3 DEF Rows, Inv, CellsInv
    <3>2. QED
      BY <2>1, <3>1
  <2>4. QED
    BY <2>2, <2>3
<1>9. QED
  BY <1>2, <1>3, <1>4, <1>6, <1>8 DEF RowsInv

\* decode makes the pending copies and applies the shifts.
LEMMA DecodeRows ==
    ASSUME Inv, StackInv, RowsInv, NEW S \in SUBSET Seqs, NEW n \in 1 .. MaxBatch, Decode(S, n)
    PROVE  RowsInv'
<1>1. /\ call = "idle" /\ call' = "prepare" /\ sc_info' = <<>> /\ divided' = divided
      /\ k_pos' = Rotated(CopyData(k_pos))
      /\ v_cells' = [t \in Streams |-> ResetShift(v_cells[t])]
      /\ states' = states
  BY DEF Decode
<1>2. CopyData(k_pos) = MadeRows
  BY CopyDataMeans, Zenon DEF MadeRows
<1>3. MadeRows \in Rows /\ v_cells \in [Streams -> CellsType]
  BY DEF RowsInv, Inv, CellsInv
<1>4. \A t \in Streams, i \in Cells :
         k_pos'[t][i] = IF MadeRows[t][i] = -1 THEN -1 ELSE MadeRows[t][i] + v_cells[t].shift[i]
  BY <1>1, <1>2 DEF Rotated
<1>5. k_pos' \in Rows
  <2>1. \A t \in Streams, i \in Cells : MadeRows[t][i] \in Int /\ v_cells[t].shift[i] \in Int
    BY <1>3 DEF Rows, CellsType
  <2>2. \A t \in Streams, i \in Cells : k_pos'[t][i] \in Int
    BY <1>4, <2>1
  <2>3. Rotated(MadeRows) \in [Streams -> [Cells -> Int]]
    BY <2>1 DEF Rotated
  <2>4. QED
    BY <1>1, <1>2, <2>3 DEF Rows
<1>6. sc_info' \in Seq(Copies) /\ MadeRows' = k_pos'
  BY <1>1, MadeOfNoneNext DEF MadeOfNone
<1>7. ASSUME NEW t \in Streams
      PROVE  ViewOf(t)' = Contents1(v_cells'[t])
  <2>1. states' = <<>>
    BY <1>1 DEF StackInv
  <2>2. CASE t = BatchStream'
    <3>1. ViewOf(t)' = [i \in Cells |-> Restored(v_cells'[t], <<>>, i)]
      BY <2>1, <2>2 DEF ViewOf, Undone
    <3>2. QED
      BY <3>1, RestoredNow
  <2>3. CASE t # BatchStream'
    BY <2>3 DEF ViewOf
  <2>4. QED
    BY <2>2, <2>3
<1>8. ASSUME ~divided', NEW t \in Streams
      PROVE  FollowsContents(k_pos'[t], ViewOf(t)')
  <2> DEFINE c == v_cells[t]
             d == ResetShift(c)
             m == MadeRows[t]
  <2>1. Follows(m, c) /\ c \in CellsType /\ Good(c)
    BY <1>1, <1>3, <1>8 DEF RowsInv, Inv, CellsInv
  <2>2. d \in CellsType /\ Unshifted(d) /\ d.pos = c.pos /\ d.seq = c.seq
    <3>1. Good(d) /\ Unshifted(d)
      BY <2>1, ResetShiftGood
    <3>2. d.pos = c.pos /\ d.seq = c.seq
      BY <2>1, ResetShiftContents
    <3>3. QED
      BY <3>1, <3>2 DEF Good, Indexed
  <2>3. m \in [Cells -> Int]
    BY <1>3 DEF Rows
  <2>4. \A i \in Cells : k_pos'[t][i] = IF m[i] = -1 THEN -1 ELSE m[i] + c.shift[i]
    BY <1>4
  <2>5. v_cells'[t] = d
    BY <1>1
  <2> HIDE DEF c, d, m
  <2>6. ASSUME NEW i \in Cells, d.seq[i] # {}
        PROVE  k_pos'[t][i] \in {-1, d.pos[i] - d.shift[i]}
    <3>1. m[i] \in {-1, c.pos[i] - c.shift[i]}
      BY <2>1, <2>2, <2>6 DEF Follows
    <3>2. c.pos[i] \in Int /\ c.shift[i] \in Int /\ m[i] \in Int /\ d.shift[i] = 0
      BY <2>1, <2>2, <2>3, CellsAssumption DEF CellsType, Unshifted, Positions
    <3>3. d.pos[i] = c.pos[i]
      BY <2>2
    <3> DEFINE x == m[i]
               y == c.pos[i]
               z == c.shift[i]
               v == k_pos'[t][i]
    <3>4. v = IF x = -1 THEN -1 ELSE x + z
      BY <2>4
    <3> HIDE DEF x, y, z, v
    <3>5. v \in {-1, y - 0}
      BY <3>1, <3>2, <3>4 DEF x, y, z
    <3>6. QED
      BY <3>2, <3>3, <3>5 DEF v, y
  <2>7. Follows(k_pos'[t], d)
    BY <2>6 DEF Follows
  <2>8. FollowsContents(k_pos'[t], Contents1(d))
    BY <2>2, <2>7, FollowsAlike
  <2>9. QED
    BY <1>7, <2>5, <2>8
<1>9. \A t : FollowsContents(k_pos[t], ViewOf(t))' <=> FollowsContents(k_pos'[t], ViewOf(t)')
  BY DEF FollowsContents
<1>10. QED
  BY <1>1, <1>5, <1>6, <1>8, <1>9 DEF RowsInv

\* While decode runs: the rows are as before, and the view of every stream holds no
\* tokens that it did not.
ViewTracks(U, V) == \A i \in Cells : V[i].seq # {} => U[i].seq # {} /\ V[i].pos = U[i].pos

LEMMA ViewRows ==
    ASSUME RowsInv, call # "idle", call' # "idle", UNCHANGED <<sc_info, k_pos, divided>>,
           \A t \in Streams : ViewTracks(ViewOf(t), ViewOf(t)')
    PROVE  RowsInv'
<1>1. MadeRows' = MadeRows
  BY DEF MadeRows
<1>2. ASSUME ~divided', NEW t \in Streams
      PROVE  FollowsContents(k_pos[t], ViewOf(t)')
  <2> DEFINE U == ViewOf(t)
             V == ViewOf(t)'
  <2>1. FollowsContents(k_pos[t], U) /\ ViewTracks(U, V)
    BY <1>2 DEF RowsInv
  <2> HIDE DEF U, V
  <2>2. FollowsContents(k_pos[t], V)
    BY <2>1 DEF FollowsContents, ViewTracks
  <2>3. QED
    BY <2>2 DEF V
<1>3. \A t : FollowsContents(k_pos[t], ViewOf(t))' <=> FollowsContents(k_pos'[t], ViewOf(t)')
  BY DEF FollowsContents
<1>4. QED
  BY <1>1, <1>2, <1>3 DEF RowsInv

\* A step that leaves Undone and the other streams alone leaves every view alone.
LEMMA ViewSame ==
    ASSUME Inv, Undone' = Undone, UNCHANGED <<config, batch>>, NEW e,
           v_cells' = v_cells \/ v_cells' = [v_cells EXCEPT ![BatchStream] = e]
    PROVE  \A t \in Streams : ViewTracks(ViewOf(t), ViewOf(t)')
<1> SUFFICES ASSUME NEW t \in Streams PROVE ViewOf(t)' = ViewOf(t)
  BY DEF ViewTracks
<1>1. BatchStream' = BatchStream
  BY BatchStreamSame
<1>2. CASE t = BatchStream
  BY <1>1, <1>2 DEF ViewOf
<1>3. CASE t # BatchStream
  <2>1. v_cells'[t] = v_cells[t]
    BY <1>3 DEF Inv, CellsInv
  <2>2. QED
    BY <1>1, <1>3, <2>1 DEF ViewOf
<1>4. QED
  BY <1>2, <1>3

\* What Placed leaves of the cells that it does not fill.
LEMMA PlacedTracks ==
    ASSUME NEW c, NEW d, NEW place, NEW S, Placed(c, d, place, S), NEW i \in Cells,
           i \notin DOMAIN place, d.seq[i] # {}
    PROVE  c.seq[i] # {} /\ d.pos[i] = c.pos[i]
BY DEF Placed

LEMMA PrepareRows ==
    ASSUME Inv, StackInv, RowsInv, Prepare
    PROVE  RowsInv'
<1> DEFINE c == v_cells[BatchStream]
           d == Apply(c, NextSlot)
           place == NextSlot
<1>1. call = "prepare" /\ call' = call /\ UNCHANGED <<sc_info, k_pos, divided>>
  BY DEF Prepare
<1>2. /\ v_cells' = [v_cells EXCEPT ![BatchStream] = d]
      /\ BatchStream' = BatchStream
      /\ \A i \in Cells : ~InSlots(sinfos, i) => Undone[i] = Content(c, i)
      /\ \A i \in Cells :
            Undone'[i] = IF InSlots(sinfos, i) \/ i \in DOMAIN place
                         THEN Undone[i] ELSE Content(d, i)
      /\ Placed(c, d, place, batch.seqs)
  BY PrepareUndone, Zenon
<1> DEFINE U == Undone
           V == Undone'
<1>3. ASSUME NEW i \in Cells, V[i].seq # {}
      PROVE  U[i].seq # {} /\ V[i].pos = U[i].pos
  <2>1. CASE InSlots(sinfos, i) \/ i \in DOMAIN place
    BY <1>2, <1>3, <2>1
  <2>2. CASE ~InSlots(sinfos, i) /\ i \notin DOMAIN place
    <3>1. U[i] = Content(c, i) /\ V[i] = Content(d, i) /\ Placed(c, d, place, batch.seqs)
      BY <1>2, <2>2
    <3> HIDE DEF U, V, c, d, place
    <3>2. d.seq[i] # {}
      BY <1>3, <3>1 DEF Content
    <3>3. c.seq[i] # {} /\ d.pos[i] = c.pos[i]
      BY <2>2, <3>1, <3>2, PlacedTracks
    <3>4. QED
      BY <3>1, <3>3 DEF Content
  <2>3. QED
    BY <2>1, <2>2
<1>4. ViewTracks(U, V)
  BY <1>3 DEF ViewTracks
<1> HIDE DEF d
<1>5. ASSUME NEW t \in Streams
      PROVE  ViewTracks(ViewOf(t), ViewOf(t)')
  <2>1. CASE t = BatchStream
    BY <1>2, <1>4, <2>1 DEF ViewOf
  <2>2. CASE t # BatchStream
    <3>1. v_cells'[t] = v_cells[t]
      BY <1>2, <2>2 DEF Inv, CellsInv
    <3>2. ViewOf(t)' = ViewOf(t)
      BY <1>2, <2>2, <3>1 DEF ViewOf
    <3>3. QED
      BY <3>2 DEF ViewTracks
  <2>3. QED
    BY <2>1, <2>2
<1>6. QED
  BY <1>1, <1>5, ViewRows

\* What a computation does to the rows of its stream: the rows of the slot are those of its
\* tokens, or garbage when it fails; d holds nothing else that the cells c did not.
Computed(k, l, c, d, place) ==
    \A i \in Cells :
        /\ i \in DOMAIN place => l[i] = -1 \/ (l[i] = place[i] /\ (d.seq[i] # {} => d.pos[i] = place[i]))
        /\ i \notin DOMAIN place =>
              l[i] = k[i] /\ (d.seq[i] # {} => c.seq[i] # {} /\ d.pos[i] = c.pos[i])

LEMMA ComputedRows ==
    ASSUME Inv, StackInv, RowsInv, call = "compute",
           NEW c, c = v_cells[BatchStream], NEW d \in CellsType, Unshifted(d),
           NEW place, NEW l, l \in [Cells -> Int], Computed(k_pos[BatchStream], l, c, d, place),
           sc_info' = sc_info, divided' = divided, states' = states, UNCHANGED config,
           v_cells' = [v_cells EXCEPT ![BatchStream] = d],
           k_pos' = [k_pos EXCEPT ![BatchStream] = l],
           call' = "idle" \/ (call' = call /\ batch' = batch)
    PROVE  RowsInv'
<1>1. states = <<>> /\ sc_info = <<>> /\ BatchStream \in Streams /\ k_pos \in Rows
  BY BatchStreamType DEF StackInv, RowsInv, Inv, DecodeInv
<1>2. k_pos' \in Rows
  BY <1>1 DEF Rows
<1>3. sc_info' \in Seq(Copies) /\ MadeRows' = k_pos'
  <2>1. sc_info' = <<>>
    BY <1>1
  <2>2. <<>> \in Seq(Copies)
    OBVIOUS
  <2>3. QED
    BY <2>1, <2>2, MadeOfNoneNext DEF MadeOfNone
<1>4. ASSUME NEW t \in Streams
      PROVE  ViewOf(t) = Contents1(v_cells[t])
  <2>1. Undone = Contents1(v_cells[BatchStream])
    BY <1>1, RestoredNow DEF Undone
  <2>2. QED
    BY <2>1 DEF ViewOf
<1>5. ASSUME ~divided, NEW t \in Streams
      PROVE  /\ FollowsContents(k_pos'[t], Contents1(v_cells'[t]))
             /\ Follows(k_pos'[t], v_cells'[t])
  <2>1. FollowsContents(k_pos[t], Contents1(v_cells[t]))
    BY <1>4, <1>5 DEF RowsInv
  <2>2. v_cells[t] \in CellsType /\ Unshifted(v_cells[t])
    BY DEF Inv, CellsInv, DecodeInv
  <2>3. Follows(k_pos[t], v_cells[t])
    BY <2>1, <2>2, FollowsAlike
  <2>4. CASE t # BatchStream
    <3>1. v_cells'[t] = v_cells[t] /\ k_pos'[t] = k_pos[t]
      BY <1>1, <2>4 DEF Inv, CellsInv, Rows
    <3>2. QED
      BY <2>1, <2>3, <3>1
  <2>5. CASE t = BatchStream
    <3> DEFINE k == k_pos[BatchStream]
    <3>1. v_cells'[t] = d /\ k_pos'[t] = l
      BY <1>1, <2>5 DEF Inv, CellsInv, Rows
    <3>2. Follows(k, c) /\ Unshifted(c) /\ c \in CellsType /\ Computed(k, l, c, d, place)
      BY <2>2, <2>3, <2>5
    <3> HIDE DEF k
    <3>3. ASSUME NEW i \in Cells, d.seq[i] # {}
          PROVE  l[i] \in {-1, d.pos[i]}
      <4>1. CASE i \in DOMAIN place
        BY <3>2, <3>3, <4>1 DEF Computed
      <4>2. CASE i \notin DOMAIN place
        <5>1. l[i] = k[i] /\ c.seq[i] # {} /\ d.pos[i] = c.pos[i]
          BY <3>2, <3>3, <4>2 DEF Computed
        <5>2. k[i] \in {-1, c.pos[i] - c.shift[i]}
          BY <3>2, <5>1 DEF Follows
        <5>3. c.pos[i] \in Int /\ c.shift[i] = 0
          BY <3>2, CellsAssumption DEF CellsType, Unshifted, Positions
        <5>4. QED
          BY <5>1, <5>2, <5>3
      <4>3. QED
        BY <4>1, <4>2
    <3>4. ASSUME NEW i \in Cells
          PROVE  d.pos[i] - d.shift[i] = d.pos[i]
      <4>1. d.pos[i] \in Int /\ d.shift[i] = 0
        BY CellsAssumption DEF CellsType, Unshifted, Positions
      <4>2. QED
        BY <4>1
    <3>5. Follows(l, d)
      BY <3>3, <3>4, Zenon DEF Follows
    <3>6. FollowsContents(l, Contents1(d))
      BY <3>5, FollowsAlike
    <3>7. QED
      BY <3>1, <3>5, <3>6
  <2>6. QED
    BY <2>4, <2>5
<1>6. CASE call' = "idle"
  BY <1>1, <1>2, <1>3, <1>5, <1>6 DEF RowsInv, Follows
<1>7. CASE call' = call /\ batch' = batch
  <2>1. BatchStream' = BatchStream
    BY <1>7, BatchStreamSame
  <2>2. ASSUME NEW t \in Streams
        PROVE  ViewOf(t)' = Contents1(v_cells'[t])
    <3>1. CASE t = BatchStream
      <4>1. ViewOf(t)' = [i \in Cells |-> Restored(v_cells'[t], <<>>, i)]
        BY <1>1, <2>1, <3>1 DEF ViewOf, Undone
      <4>2. QED
        BY <4>1, RestoredNow
    <3>2. CASE t # BatchStream
      BY <2>1, <3>2 DEF ViewOf
    <3>3. QED
      BY <3>1, <3>2
  <2>3. \A t : FollowsContents(k_pos[t], ViewOf(t))' <=> FollowsContents(k_pos'[t], ViewOf(t)')
    BY DEF FollowsContents
  <2>4. sc_info' = <<>>
    BY <1>1
  <2>5. QED
    BY <1>2, <1>3, <1>5, <1>7, <2>2, <2>3, <2>4 DEF RowsInv
<1>8. QED
  BY <1>6, <1>7

\* The cells and the slot of the ubatch that is computed.
LEMMA ComputeCells ==
    ASSUME Inv, call = "compute", NEW c, c = v_cells[BatchStream], NEW place, place = Head(sinfos)
    PROVE  /\ Good(Apply(c, place)) /\ Unshifted(Apply(c, place))
           /\ Placed(c, Apply(c, place), place, batch.seqs)
           /\ \A i \in DOMAIN place : place[i] \in Int
           /\ BatchStream \in Streams
<1>1. /\ batch \in Batches /\ BatchStream \in Streams
      /\ sinfos \in Seq(Slots) /\ sinfos # <<>>
  BY BatchStreamType DEF Inv, DecodeInv, SlotsInv
<1>2. place \in Slots
  BY <1>1
<1>3. Good(c) /\ Unshifted(c)
  BY <1>1 DEF Inv, CellsInv, DecodeInv
<1>4. \A i \in DOMAIN place : place[i] \in Int
  BY <1>2, CellsAssumption DEF Slots, Positions
<1>5. Good(Apply(c, place)) /\ Unshifted(Apply(c, place))
  BY <1>1, <1>2, <1>3, ApplyGood
<1>6. Placed(c, Apply(c, place), place, batch.seqs)
  BY <1>1, <1>2, <1>3, ApplyPlaced
<1>7. QED
  BY <1>1, <1>4, <1>5, <1>6

LEMMA ComputeRows ==
    ASSUME Inv, StackInv, RowsInv, Compute
    PROVE  RowsInv'
<1> DEFINE c == v_cells[BatchStream]
           place == Head(sinfos)
           d == Apply(c, place)
           k == k_pos[BatchStream]
           l == [i \in Cells |-> IF i \in DOMAIN place THEN place[i] ELSE k[i]]
<1>1. /\ call = "compute" /\ UNCHANGED <<sc_info, config, divided, states>>
      /\ v_cells' = [v_cells EXCEPT ![BatchStream] = d]
      /\ k_pos' = [k_pos EXCEPT ![BatchStream] = l]
      /\ call' = "idle" \/ (call' = call /\ batch' = batch)
  BY DEF Compute, Change, Return
<1>2. /\ Good(d) /\ Unshifted(d) /\ Placed(c, d, place, batch.seqs)
      /\ \A i \in DOMAIN place : place[i] \in Int
      /\ BatchStream \in Streams
  BY <1>1, ComputeCells
<1>3. d \in CellsType
  BY <1>2 DEF Good, Indexed
<1>4. l \in [Cells -> Int]
  <2>1. k \in [Cells -> Int]
    BY <1>2 DEF RowsInv, Rows
  <2>2. QED
    BY <1>2, <2>1
<1>5. \A i \in Cells : l[i] = IF i \in DOMAIN place THEN place[i] ELSE k[i]
  OBVIOUS
<1> HIDE DEF c, d, place, k, l
<1>6. Computed(k, l, c, d, place)
  BY <1>2, <1>5, PlacedTracks DEF Computed, Placed
<1>7. QED
  BY <1>1, <1>2, <1>3, <1>4, <1>6, ComputedRows DEF c, k

LEMMA ComputeFailsRows ==
    ASSUME Inv, StackInv, RowsInv, NEW s \in Seqs, ComputeFails(s)
    PROVE  RowsInv'
<1> DEFINE c == v_cells[BatchStream]
           place == Head(sinfos)
           e == Apply(c, place)
           low == Smallest({place[i] : i \in DOMAIN place})
           gone == [i \in PosIn(e, low, MaxPos + 1) \cap Owned(e, s) |-> {s}]
           d == Leave(e, gone)
           k == k_pos[BatchStream]
           l == [i \in Cells |-> IF i \in DOMAIN place THEN -1 ELSE k[i]]
<1>1. /\ call = "compute" /\ UNCHANGED <<sc_info, config, divided, states>>
      /\ v_cells' = [v_cells EXCEPT ![BatchStream] = d]
      /\ k_pos' = [k_pos EXCEPT ![BatchStream] = l]
      /\ call' = "idle"
  BY DEF ComputeFails, Change, Return, SeqRm
<1>2. /\ Good(e) /\ Unshifted(e) /\ Placed(c, e, place, batch.seqs)
      /\ BatchStream \in Streams
  BY <1>1, ComputeCells
<1>3. DOMAIN gone \subseteq Cells
  BY DEF Owned
<1>4. l \in [Cells -> Int]
  <2>1. k \in [Cells -> Int]
    BY <1>2 DEF RowsInv, Rows
  <2>2. QED
    BY <2>1
<1>5. \A i \in Cells : l[i] = IF i \in DOMAIN place THEN -1 ELSE k[i]
  OBVIOUS
<1> HIDE DEF c, e, gone, place, k, l
<1>6. Good(d) /\ Unshifted(d)
  BY <1>2, <1>3, LeaveGood
<1>7. d \in CellsType
  BY <1>6 DEF Good, Indexed
<1>8. \A i \in Cells :
         /\ d.seq[i] = IF i \in DOMAIN gone THEN e.seq[i] \ gone[i] ELSE e.seq[i]
         /\ d.seq[i] # {} => d.pos[i] = e.pos[i] /\ d.shift[i] = e.shift[i]
  BY <1>2, <1>3, LeaveContents, Zenon
<1>9. \A i \in Cells : d.seq[i] # {} => e.seq[i] # {}
  BY <1>8
<1> HIDE DEF d
<1>10. Computed(k, l, c, d, place)
  <2>1. \A i \in Cells : i \notin DOMAIN place /\ e.seq[i] # {} =>
           c.seq[i] # {} /\ e.pos[i] = c.pos[i]
    BY <1>2, PlacedTracks
  <2>2. QED
    BY <1>5, <1>8, <1>9, <2>1 DEF Computed
<1>11. QED
  BY <1>1, <1>4, <1>6, <1>7, <1>10, ComputedRows DEF c, k

LEMMA NoSlotRows ==
    ASSUME Inv, StackInv, RowsInv, NoSlot
    PROVE  RowsInv'
<1>1. /\ call = "failed" /\ call' = "idle"
      /\ UNCHANGED <<v_cells, sc_info, k_pos, divided>>
  BY DEF NoSlot, Return, cacheVars
<1>2. states = <<>> /\ sc_info = <<>>
  BY <1>1 DEF StackInv, RowsInv
<1>3. MadeRows' = MadeRows /\ MadeRows = k_pos
  BY <1>1, <1>2, MadeOfNoneAlways DEF MadeRows, MadeOfNone
<1>4. ASSUME ~divided, NEW t \in Streams
      PROVE  Follows(k_pos[t], v_cells[t])
  <2>1. ViewOf(t) = Contents1(v_cells[t])
    <3>1. Undone = Contents1(v_cells[BatchStream])
      BY <1>2, RestoredNow DEF Undone
    <3>2. QED
      BY <3>1 DEF ViewOf
  <2>2. FollowsContents(k_pos[t], Contents1(v_cells[t]))
    BY <1>1, <1>4, <2>1 DEF RowsInv
  <2>3. v_cells[t] \in CellsType /\ Unshifted(v_cells[t])
    BY <1>1 DEF Inv, CellsInv, DecodeInv
  <2>4. QED
    BY <2>2, <2>3, FollowsAlike
<1>5. \A t : Follows(MadeRows[t], v_cells[t])' <=> Follows(MadeRows'[t], v_cells'[t])
  BY DEF Follows
<1>6. QED
  BY <1>1, <1>3, <1>4, <1>5 DEF RowsInv

LEMMA OperationRows ==
    ASSUME Inv, RowsInv, Operation
    PROVE  RowsInv'
<1>1. CASE \E s \in Seqs, r \in Ranges : SeqRemove(s, r)
  BY <1>1, SeqRemoveRows
<1>2. CASE \E r \in Ranges : AnyRemove(r)
  BY <1>2, AnyRemoveRows
<1>3. CASE \E a, b \in Seqs, r \in Ranges : CopySequence(a, b, r)
  BY <1>3, CopySequenceRows
<1>4. CASE \E a, b \in Seqs : CopyStream(a, b)
  BY <1>4, CopyStreamRows
<1>5. CASE \E s \in Seqs : Keep(s)
  BY <1>5, KeepRows
<1>6. CASE \E s \in Seqs, r \in Ranges, d \in Shifts : AddShift(s, r, d)
  BY <1>6, AddShiftRows
<1>7. CASE \E s \in Seqs, r \in Ranges, d \in Divisors[setup] : Divide(s, r, d)
  BY <1>7, DivideRows
<1>8. CASE Clear
  BY <1>8, ClearRows
<1>9. QED
  BY <1>1, <1>2, <1>3, <1>4, <1>5, <1>6, <1>7, <1>8 DEF Operation

LEMMA RowsNext == Inv /\ StackInv /\ PlanInv /\ RowsInv /\ [Next]_vars => RowsInv'
<1> SUFFICES ASSUME Inv, StackInv, PlanInv, RowsInv, [Next]_vars PROVE RowsInv'
  OBVIOUS
<1>1. CASE Operation
  BY <1>1, OperationRows
<1>2. CASE \E S \in SUBSET Seqs, n \in 1 .. MaxBatch : Decode(S, n)
  BY <1>2, DecodeRows
<1>3. CASE Prepare
  BY <1>3, PrepareRows
<1>4. CASE Prepared
  <2>1. /\ call = "prepare" /\ call' = "restore" /\ UNCHANGED <<config, batch, states>>
        /\ UNCHANGED <<v_cells, sc_info, k_pos, divided>>
    BY <1>4 DEF Prepared, cacheVars
  <2>2. Undone' = Undone
    BY <2>1, BatchStreamSame DEF Undone
  <2>3. QED
    BY <2>1, <2>2, ViewSame, ViewRows
<1>5. CASE Restore
  <2>1. /\ call = "restore" /\ call' = call /\ UNCHANGED <<config, batch>>
        /\ UNCHANGED <<sc_info, k_pos, divided>>
    BY <1>5 DEF Restore
  <2>2. Undone' = Undone
    BY <1>5, RestorePlan
  <2>3. PICK e : v_cells' = [v_cells EXCEPT ![BatchStream] = e]
    BY <1>5 DEF Restore, Change
  <2>4. QED
    BY <2>1, <2>2, <2>3, ViewSame, ViewRows
<1>6. CASE Initiated
  <2>1. /\ call = "restore" /\ call' # "idle" /\ UNCHANGED <<config, batch>>
        /\ UNCHANGED <<v_cells, sc_info, k_pos, divided>>
    BY <1>6 DEF Initiated, cacheVars
  <2>2. Undone' = Undone
    BY <1>6, InitiatedPlan
  <2>3. QED
    BY <2>1, <2>2, ViewSame, ViewRows
<1>7. CASE Compute
  BY <1>7, ComputeRows
<1>8. CASE \E s \in Seqs : ComputeFails(s)
  BY <1>8, ComputeFailsRows
<1>9. CASE NoSlot
  BY <1>9, NoSlotRows
<1>10. CASE UNCHANGED vars
  <2>1. UNCHANGED <<call, batch, states, v_cells, sc_info, k_pos, config, divided>>
    BY <1>10 DEF vars, callVars, cacheVars
  <2>2. MadeRows' = MadeRows /\ Undone' = Undone /\ BatchStream' = BatchStream
    BY <2>1, BatchStreamSame DEF MadeRows, Undone
  <2>3. \A t : ViewOf(t)' = ViewOf(t)
    BY <2>1, <2>2 DEF ViewOf
  <2>4. QED
    BY <2>1, <2>2, <2>3 DEF RowsInv, Follows, FollowsContents
<1>11. QED
  BY <1>1, <1>2, <1>3, <1>4, <1>5, <1>6, <1>7, <1>8, <1>9, <1>10 DEF Next

LEMMA InitRows == Init => RowsInv
<1> SUFFICES ASSUME Init PROVE RowsInv
  OBVIOUS
<1>1. /\ sc_info = <<>> /\ call = "idle"
      /\ v_cells = [t \in Streams |-> Reset]
      /\ k_pos = [t \in Streams |-> [i \in Cells |-> -1]]
  BY DEF Init
<1>2. MadeRows = k_pos
  BY <1>1, MadeOfNoneAlways DEF MadeOfNone
<1>3. k_pos \in Rows /\ sc_info \in Seq(Copies)
  BY <1>1 DEF Rows
<1>4. \A t \in Streams : Follows(k_pos[t], v_cells[t])
  BY <1>1 DEF Follows
<1>5. QED
  BY <1>1, <1>2, <1>3, <1>4 DEF RowsInv

LEMMA FollowsMeans == Inv /\ RowsInv => DataFollowsCells
<1> SUFFICES ASSUME Inv, RowsInv, call = "idle", ~divided, NEW t \in Streams, NEW i \in Cells,
                    v_cells[t].pos[i] # -1
             PROVE  CopyData(k_pos)[t][i] \in {-1, v_cells[t].pos[i] - v_cells[t].shift[i]}
  BY DEF DataFollowsCells, RowsFollow
<1>1. CopyData(k_pos) = MadeRows
  BY CopyDataMeans, Zenon DEF MadeRows
<1>2. v_cells[t].seq[i] # {}
  BY DEF Inv, CellsInv, Good, Indexed
<1>3. Follows(MadeRows[t], v_cells[t])
  BY DEF RowsInv
<1>4. QED
  BY <1>1, <1>2, <1>3 DEF Follows

-----------------------------------------------------------------------------
(* The theorems about decode *)

DecodeInvs == Inv /\ StackInv /\ PlanInv /\ TakenInv /\ RowsInv

LEMMA InitDecode == Init => DecodeInvs
<1> SUFFICES ASSUME Init PROVE DecodeInvs
  OBVIOUS
<1>1. Inv
  BY InitInv
<1>2. StackInv
  BY DEF Init, StackInv, Busy
<1>3. PlanInv /\ TakenInv
  BY DEF Init, PlanInv, TakenInv, Busy
<1>4. RowsInv
  BY InitRows
<1>5. QED
  BY <1>1, <1>2, <1>3, <1>4 DEF DecodeInvs

LEMMA NextDecode == DecodeInvs /\ [Next]_vars => DecodeInvs'
BY NextInv, StackNext, PlanNext, TakenNext, RowsNext DEF DecodeInvs

LEMMA AlwaysDecode == Spec => []DecodeInvs
BY InitDecode, NextDecode, PTL DEF Spec

\* A ubatch never takes the place of a token that it attends to, or the next token of
\* another sequence, although prepare finds its slot among contents of the cells that are
\* taken back before it is computed (llama-kv-cache.cpp:675, :1048).
THEOREM VisibleNeverOverwritten == Spec => NeverOverwritesVisible
<1>1. ASSUME DecodeInvs, [Next]_vars
      PROVE  [/\ call \in {"prepare", "compute"}
              /\ v_cells' # v_cells
              => \A s \in Seqs : Visible(s) \subseteq PositionsOf(s)']_vars
  <2> SUFFICES ASSUME call \in {"prepare", "compute"}, v_cells' # v_cells, NEW s \in Seqs
               PROVE  Visible(s) \subseteq PositionsOf(s)'
    OBVIOUS
  <2>1. Prepare \/ Compute \/ (\E r \in Seqs : ComputeFails(r))
    BY <1>1, PlacingSteps
  <2>2. QED
    BY <1>1, <2>1, VisibleStays DEF DecodeInvs
<1>2. QED
  BY <1>1, AlwaysDecode, PTL DEF Spec, NeverOverwritesVisible

\* Placing a ubatch that continues its sequences leaves no gap in a sequence that had
\* none, even if the computation fails: what llama-kv-cache.cpp:1061 says of the purge.
THEOREM GapsNeverLeft == Spec => LeavesNoGap
<1>1. ASSUME DecodeInvs, [Next]_vars
      PROVE  [/\ call \in {"prepare", "compute"} /\ v_cells' # v_cells
              /\ Continues
              => \A s \in Seqs : Contiguous(s) => Contiguous(s)']_vars
  <2> SUFFICES ASSUME call \in {"prepare", "compute"}, v_cells' # v_cells, Continues,
                      NEW s \in Seqs, Contiguous(s)
               PROVE  Contiguous(s)'
    OBVIOUS
  <2>1. Prepare \/ Compute \/ (\E r \in Seqs : ComputeFails(r))
    BY <1>1, PlacingSteps
  <2>2. QED
    BY <1>1, <2>1, NoGapLeft DEF DecodeInvs
<1>2. QED
  BY <1>1, AlwaysDecode, PTL DEF Spec, LeavesNoGap

\* When decode finds no slot in a cache without a window, and when it is about to compute,
\* every sequence has the positions that it had before prepare placed and restored cells.
THEOREM SlotsAlwaysTakenBack == Spec => []SlotsAreTakenBack
<1>1. DecodeInvs => SlotsAreTakenBack
  <2> SUFFICES ASSUME DecodeInvs, call \in {"compute", "failed"}, n_swa = 0,
                      call = "compute" => Unplaced <= 0, NEW s \in Seqs
               PROVE  PositionsOf(s) = before[s]
    BY DEF SlotsAreTakenBack
  <2>1. states = <<>>
    BY DEF DecodeInvs, StackInv
  <2>2. before[s] = HeldBy(s)
    BY DEF DecodeInvs, TakenInv
  <2>3. QED
    BY <2>1, <2>2, HeldNow
<1>2. QED
  BY <1>1, AlwaysDecode, PTL

\* Between calls the row of every cell is, once the pending copies are made, rotated to the
\* position of the cell but for its pending shift, or garbage of a failed computation.
THEOREM DataAlwaysFollowsCells == Spec => []DataFollowsCells
<1>1. DecodeInvs => DataFollowsCells
  BY FollowsMeans DEF DecodeInvs
<1>2. QED
  BY <1>1, AlwaysDecode, PTL

RetriedInv == retried \in BOOLEAN

\* The variables always have their types.
THEOREM TypesAlwaysRight == Spec => []TypeOK
<1>1. Slots \subseteq Places
  BY DEF Slots, Places
<1>2. Saved \subseteq UNION {[R -> Cell] : R \in SUBSET Cells}
  BY DEF Saved
<1>3. [heads : [Streams -> Heads], cells : Saved] \subseteq Restores
  BY <1>2 DEF Restores, Heads
<1>4. ASSUME NEW S, NEW T, S \subseteq T
      PROVE  Seq(S) \subseteq Seq(T)
  BY <1>4
<1>5. DecodeInvs /\ RetriedInv => TypeOK
  <2> SUFFICES ASSUME DecodeInvs, retried \in BOOLEAN PROVE TypeOK
    BY DEF RetriedInv
  <2>1. v_cells \in [Streams -> CellsType] /\ v_heads \in [Streams -> 0 .. NCells]
    BY DEF DecodeInvs, Inv, CellsInv, HeadsInv, Heads
  <2>2. sc_info \in Seq([src : Streams, dst : Streams]) /\ k_pos \in [Streams -> [Cells -> Int]]
    BY DEF DecodeInvs, RowsInv, Copies, Rows
  <2>3. unified \in BOOLEAN /\ n_swa \in Nat
    BY WindowType DEF DecodeInvs, Inv, ConfigInv
  <2>4. call \in {"idle", "prepare", "restore", "compute", "failed"}
    BY DEF DecodeInvs, StackInv
  <2>5. call # "idle" => batch \in Batches
    BY DEF DecodeInvs, Inv, DecodeInv
  <2>6. sinfos \in Seq(Places)
    BY <1>1, <1>4 DEF DecodeInvs, Inv, SlotsInv
  <2>7. states \in Seq(Restores)
    BY <1>3, <1>4 DEF DecodeInvs, Inv, SlotsInv
  <2>8. QED
    BY <2>1, <2>2, <2>3, <2>4, <2>5, <2>6, <2>7 DEF TypeOK
<1>6. Init => RetriedInv
  BY DEF Init, RetriedInv
<1>7. RetriedInv /\ [Next]_vars => RetriedInv'
  <2> SUFFICES ASSUME retried \in BOOLEAN, [Next]_vars PROVE retried' \in BOOLEAN
    BY DEF RetriedInv
  <2>1. CASE Operation
    BY <2>1 DEF Operation, SeqRemove, AnyRemove, CopySequence, CopyStream, Keep, AddShift,
                Divide, Clear, callVars
  <2>2. CASE \E S \in SUBSET Seqs, n \in 1 .. MaxBatch : Decode(S, n)
    BY <2>2 DEF Decode
  <2>3. CASE Prepare
    BY <2>3 DEF Prepare
  <2>4. CASE Prepared
    BY <2>4 DEF Prepared
  <2>5. CASE Restore
    BY <2>5 DEF Restore
  <2>6. CASE Initiated
    BY <2>6 DEF Initiated
  <2>7. CASE Compute
    BY <2>7 DEF Compute, Return
  <2>8. CASE \E s \in Seqs : ComputeFails(s)
    BY <2>8 DEF ComputeFails, Return
  <2>9. CASE NoSlot
    BY <2>9 DEF NoSlot, Return
  <2>10. CASE UNCHANGED vars
    BY <2>10 DEF vars, callVars
  <2>11. QED
    BY <2>1, <2>2, <2>3, <2>4, <2>5, <2>6, <2>7, <2>8, <2>9, <2>10 DEF Next
<1>8. QED
  BY <1>5, <1>6, <1>7, AlwaysDecode, PTL DEF Spec
=============================================================================
