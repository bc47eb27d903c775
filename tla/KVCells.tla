------------------------------- MODULE KVCells -------------------------------
(***************************************************************************)
(* llama_kv_cells (src/llama-kv-cells.h): the metadata of the cells of a   *)
(* KV cache.  A cell holds the K and V rows of one token, at one position  *)
(* and in one or more sequences; the class also keeps two indices that are *)
(* updated one cell at a time and never recomputed: used, and seq_pos,     *)
(* which counts the cells of a sequence at a position.                     *)
(*                                                                         *)
(* The callers change cells in loops, each cell at most once.  An operator *)
(* here is such a loop: c is the class, R the cells of the loop.           *)
(***************************************************************************)
EXTENDS Integers, FiniteSets

CONSTANTS
    NCells, \* the number of cells of a stream
    NSeqs,  \* the number of sequences, n_seq_max
    MaxPos  \* bound: the largest position

ASSUME CellsAssumption == NCells \in Nat \ {0} /\ NSeqs \in Nat \ {0} /\ MaxPos \in Nat

Cells     == 0 .. NCells - 1
Seqs      == 0 .. NSeqs - 1
Positions == 0 .. MaxPos

\* A cell as cp() copies it.
Cell   == [pos : Positions \cup {-1}, seq : SUBSET Seqs]
NoCell == [pos |-> -1, seq |-> {}]

\* reset()
Reset ==
    [pos       |-> [i \in Cells |-> -1],
     seq       |-> [i \in Cells |-> {}],
     shift     |-> [i \in Cells |-> 0],
     has_shift |-> FALSE,
     used      |-> {},
     seq_pos   |-> [s \in Seqs |-> [p \in Positions |-> 0]]]

-----------------------------------------------------------------------------
(* Queries *)

Nonempty(c)   == {i \in Cells : c.pos[i] # -1}
Owned(c, s)   == {i \in Cells : s \in c.seq[i]}
At(c, R, s, p) == {i \in R : s \in c.seq[i] /\ c.pos[i] = p}

\* pos_in
PosIn(c, p0, p1) == {i \in Nonempty(c) : p0 <= c.pos[i] /\ c.pos[i] < p1}

Present(c, s)   == {p \in Positions : c.seq_pos[s][p] > 0}
Largest(S)      == CHOOSE x \in S : \A y \in S : y <= x
Smallest(S)     == CHOOSE x \in S : \A y \in S : x <= y
SeqPosMax(c, s) == IF Present(c, s) = {} THEN -1 ELSE Largest(Present(c, s))
SeqPosMin(c, s) == IF Present(c, s) = {} THEN -1 ELSE Smallest(Present(c, s))

\* cp(idxs)
Cp(c, R) == [i \in R |-> [pos |-> c.pos[i], seq |-> c.seq[i]]]

-----------------------------------------------------------------------------
(* Operations *)

Entries(new, s, p) == {i \in DOMAIN new : s \in new[i].seq /\ new[i].pos = p}

\* Mutant of Set: the sequences that the cells leave stay counted.
SetUncounted(c, new) ==
    [c EXCEPT
        !.pos  = [i \in Cells |-> IF i \in DOMAIN new THEN new[i].pos ELSE c.pos[i]],
        !.seq  = [i \in Cells |-> IF i \in DOMAIN new THEN new[i].seq ELSE c.seq[i]],
        !.used = (c.used \ DOMAIN new) \cup {i \in DOMAIN new : new[i].pos # -1},
        !.seq_pos = [s \in Seqs |-> [p \in Positions |->
                        c.seq_pos[s][p] + Cardinality(Entries(new, s, p))]]]

\* set(idxs, other): seq_pos_rm, the assignment and seq_pos_add of each cell of new.
Set(c, new) ==
    [c EXCEPT
        !.pos  = [i \in Cells |-> IF i \in DOMAIN new THEN new[i].pos ELSE c.pos[i]],
        !.seq  = [i \in Cells |-> IF i \in DOMAIN new THEN new[i].seq ELSE c.seq[i]],
        !.used = (c.used \ DOMAIN new) \cup {i \in DOMAIN new : new[i].pos # -1},
        !.seq_pos = [s \in Seqs |-> [p \in Positions |->
                        (c.seq_pos[s][p] - Cardinality(At(c, DOMAIN new, s, p)))
                        + Cardinality(Entries(new, s, p))]]]

\* Adds by[i] to the accumulated shifts; 0 is assigned to those of emptied cells.
Shifted(c, by) == [c EXCEPT !.shift = [i \in Cells |-> IF i \in DOMAIN by THEN by[i] ELSE @[i]]]

\* rm, seq_rm and seq_keep: cell i leaves the sequences gone[i], and is emptied when
\* none is left.
Leave(c, gone) ==
    LET Left(i) == c.seq[i] \ gone[i]
        emptied == {i \in DOMAIN gone : Left(i) = {}}
    IN  Shifted(Set(c, [i \in DOMAIN gone |->
                            IF i \in emptied THEN NoCell ELSE [pos |-> c.pos[i], seq |-> Left(i)]]),
                [i \in emptied |-> 0])

Rm(c, R)       == Leave(c, [i \in R |-> c.seq[i]])
SeqRm(c, R, s) == Leave(c, [i \in R \cap Owned(c, s) |-> {s}])
SeqKeep(c, s)  == Leave(c, [i \in Nonempty(c) |-> c.seq[i] \ {s}])

\* pos_set of the empty cells of place, and seq_add of the sequences S.
Put(c, place, S) == Set(c, [i \in DOMAIN place |-> [pos |-> place[i], seq |-> S]])

\* seq_add, for cells that s is not in yet.
SeqAdd(c, R, s) ==
    [c EXCEPT !.seq = [i \in Cells |-> IF i \in R THEN @[i] \cup {s} ELSE @[i]],
              !.seq_pos[s] = [p \in Positions |-> @[p] + Cardinality({i \in R : c.pos[i] = p})]]

\* The common part of pos_add and pos_div.
Move(c, place, by) ==
    [Shifted(Set(c, [i \in DOMAIN place |-> [pos |-> place[i], seq |-> c.seq[i]]]),
             [i \in DOMAIN place |-> c.shift[i] + by[i]])
     EXCEPT !.has_shift = @ \/ DOMAIN place # {}]

\* pos_add: a cell whose position becomes negative is emptied.
PosAdd(c, R, d) ==
    LET negative == {i \in R : c.pos[i] + d < 0}
        kept     == R \ negative
    IN  [Move(Rm(c, negative), [i \in kept |-> c.pos[i] + d], [i \in kept |-> d])
         EXCEPT !.has_shift = @ \/ R # {}]

\* pos_div
PosDiv(c, R, d) ==
    Move(c, [i \in R |-> c.pos[i] \div d], [i \in R |-> c.pos[i] - (c.pos[i] \div d)])

\* reset_shift
ResetShift(c) == [c EXCEPT !.shift = [i \in Cells |-> 0], !.has_shift = FALSE]

-----------------------------------------------------------------------------
(* The representation *)

CellsType ==
    [pos : [Cells -> Positions \cup {-1}], seq : [Cells -> SUBSET Seqs],
     shift : [Cells -> Int], has_shift : BOOLEAN,
     used : SUBSET Cells, seq_pos : [Seqs -> [Positions -> Nat]]]

\* What the comments of the class say of its members: used are the cells with a
\* position, and seq_pos[s][p] tells "how many times the position p is currently
\* present for sequence s".  A cell has a position when it has a sequence, and a shift
\* that is to be applied is not forgotten.
Representation(c) ==
    /\ c.used = Nonempty(c)
    /\ \A s \in Seqs, p \in Positions : c.seq_pos[s][p] = Cardinality(At(c, Cells, s, p))
    /\ \A i \in Cells : c.pos[i] = -1 <=> c.seq[i] = {}
    /\ \A i \in Cells : c.pos[i] = -1 => c.shift[i] = 0
    /\ ~c.has_shift => \A i \in Cells : c.shift[i] = 0
=============================================================================
