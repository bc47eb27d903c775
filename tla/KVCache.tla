------------------------------- MODULE KVCache -------------------------------
(***************************************************************************)
(* llama_kv_cache (src/llama-kv-cache.cpp) and the part of                 *)
(* llama_context::decode that drives it: the operations on sequences, and  *)
(* a call of decode, which first applies pending shifts and copies, then   *)
(* places the ubatches of the batch one after another (prepare), takes     *)
(* them back, and only then places and computes each for good.             *)
(*                                                                         *)
(* A context has one cache, or one per sequence if it is not unified; each *)
(* is a stream.  With a sliding window (n_swa) it is the SWA cache of      *)
(* llama_kv_cache_iswa, its base cache having room for everything.  Of the *)
(* K and V data the position it is rotated to is modelled.                 *)
(***************************************************************************)
EXTENDS KVCells, Sequences

CONSTANTS
    NUbatch,  \* tokens of a ubatch, n_ubatch
    MaxBatch, \* bound: tokens of a batch
    LastPos,  \* bound: the last position of a batch, for every setup
    Setups,   \* the pairs <<kv_unified, n_swa>> to consider, n_swa = 0 without a window
    Ranges,   \* bound: the ranges <<p0, p1>> that callers give to the operations
    Shifts,   \* bound: the shifts of seq_add
    Divisors, \* bound: the divisors of seq_div, for every setup
    MaxShift, \* bound: the shift that a cell accumulates
    MaxCopies \* bound: pending copies of streams

ASSUME CacheAssumption ==
    /\ NUbatch \in Nat \ {0} /\ MaxBatch \in Nat /\ MaxCopies \in Nat
    /\ Setups \subseteq (BOOLEAN \X Nat) /\ LastPos \in [Setups -> Positions]
    /\ Divisors \in [Setups -> SUBSET (Nat \ {0})]
    /\ MaxShift \in Nat
    /\ Ranges \subseteq (Int \X Int) /\ Shifts \subseteq Int

VARIABLES
    v_cells, \* the cells of every stream
    v_heads, \* where find_slot starts to search
    sc_info, \* copies of streams that the next update makes
    k_pos,   \* the position the K row of every cell is rotated to, -1 for garbage
    unified,
    n_swa,
    call,    \* where decode is: idle, prepare, restore, compute or failed
    retried, \* has init_batch made its second attempt ?
    batch,   \* the batch of decode: its sequences, first position and tokens
    sinfos,  \* the slots found for its ubatches
    states,  \* the recovery stack of prepare
    before,  \* history: the positions of every sequence when decode was called
    divided  \* history: has seq_div changed a position ?

cacheVars == <<v_cells, v_heads, sc_info, k_pos>>
config    == <<unified, n_swa>>
callVars  == <<call, retried, batch, sinfos, states, before>>
vars      == <<cacheVars, config, callVars, divided>>

Streams == Seqs
setup   == <<unified, n_swa>>

\* seq_to_stream
StreamOf(s) == IF unified THEN 0 ELSE s

PositionsOf(s) == {v_cells[StreamOf(s)].pos[i] : i \in Owned(v_cells[StreamOf(s)], s)}

-----------------------------------------------------------------------------
(* Operations on sequences.  They are called between calls of decode. *)

\* "If we freed up a slot, set head to it so searching can start there."
Freed(c, d) == Nonempty(c) \ Nonempty(d)
EarlierHead(head, freed) ==
    IF freed # {} /\ Smallest(freed) < head THEN Smallest(freed) ELSE head

\* The cells of stream t become d and its head h.
Change(t, d, h) ==
    /\ v_cells' = [v_cells EXCEPT ![t] = d]
    /\ v_heads' = [v_heads EXCEPT ![t] = h]

\* Negative bounds of a range stand for its ends.
From(p) == IF p < 0 THEN 0 ELSE p
To(p)   == IF p < 0 THEN MaxPos + 1 ELSE p
InRange(c, r) == PosIn(c, From(r[1]), To(r[2]))

SeqRemove(s, r) ==
    LET t == StreamOf(s)
        c == v_cells[t]
        d == SeqRm(c, InRange(c, r), s)
    IN  /\ call = "idle"
        /\ Change(t, d, EarlierHead(v_heads[t], Freed(c, d)))
        /\ UNCHANGED <<sc_info, k_pos, config, divided, callVars>>

\* seq_rm with seq_id = -1
AnyRemove(r) ==
    LET After(t) == Rm(v_cells[t], InRange(v_cells[t], r))
    IN  /\ call = "idle"
        /\ v_cells' = [t \in Streams |-> After(t)]
        /\ v_heads' = [t \in Streams |-> EarlierHead(v_heads[t], Freed(v_cells[t], After(t)))]
        /\ UNCHANGED <<sc_info, k_pos, config, divided, callVars>>

\* seq_cp within a stream; seq_add asserts that the cells are not in b yet.
CopySequence(a, b, r) ==
    LET t == StreamOf(a)
        R == InRange(v_cells[t], r) \cap Owned(v_cells[t], a)
    IN  /\ call = "idle"
        /\ a # b /\ StreamOf(b) = t
        /\ R \cap Owned(v_cells[t], b) = {}
        /\ Change(t, SeqAdd(v_cells[t], R, b), v_heads[t])
        /\ UNCHANGED <<sc_info, k_pos, config, divided, callVars>>

\* Mutant of Copied: the shifts that are still to be applied are not copied.
CopiedUnshifted(c, a, b) == Put(Reset, [i \in Owned(c, a) |-> c.pos[i]], {b})

\* The cells of a for b in another stream: pos_set to where the row is, seq_add, and
\* pos_add of the shift if there is one.
Copied(c, a, b) ==
    LET late == {i \in Owned(c, a) : c.shift[i] # 0}
    IN  [Shifted(Put(Reset, [i \in Owned(c, a) |-> c.pos[i]], {b}), [i \in late |-> c.shift[i]])
         EXCEPT !.has_shift = late # {}]

\* seq_cp between streams, which asserts that the range is that of the whole buffer.
CopyStream(a, b) ==
    LET s0 == StreamOf(a)
        s1 == StreamOf(b)
    IN  /\ call = "idle"
        /\ s0 # s1
        /\ Len(sc_info) < MaxCopies
        /\ sc_info' = Append(sc_info, [src |-> s0, dst |-> s1])
        /\ Change(s1, Copied(v_cells[s0], a, b), v_heads[s0])
        /\ UNCHANGED <<k_pos, config, divided, callVars>>

Keep(s) ==
    LET t == StreamOf(s)
        d == SeqKeep(v_cells[t], s)
    IN  /\ call = "idle"
        /\ Change(t, d, EarlierHead(v_heads[t], Freed(v_cells[t], d)))
        /\ UNCHANGED <<sc_info, k_pos, config, divided, callVars>>

\* llama_memory_can_shift, which callers ask: no, when the base cache is larger.
CanShift == n_swa = 0

AddShift(s, r, d) ==
    LET t == StreamOf(s)
        c == v_cells[t]
        R == InRange(c, r) \cap Owned(c, s)
        moved == PosAdd(c, R, d)
    IN  /\ call = "idle"
        /\ CanShift
        /\ d # 0 /\ From(r[1]) # To(r[2])
        /\ \A i \in R : c.pos[i] + d <= MaxPos /\ c.shift[i] + d \in -MaxShift .. MaxShift
        /\ Change(t, moved, IF Freed(c, moved) = {} THEN 0 ELSE Smallest(Freed(c, moved)))
        /\ UNCHANGED <<sc_info, k_pos, config, divided, callVars>>

Divide(s, r, d) ==
    LET t == StreamOf(s)
        R == InRange(v_cells[t], r) \cap Owned(v_cells[t], s)
    IN  /\ call = "idle"
        /\ CanShift
        /\ d # 1 /\ From(r[1]) # To(r[2])
        /\ \A i \in Cells : PosDiv(v_cells[t], R, d).shift[i] \in -MaxShift .. MaxShift
        /\ Change(t, PosDiv(v_cells[t], R, d), v_heads[t])
        /\ divided' = (divided \/ \E i \in R : v_cells[t].pos[i] > 0)
        /\ UNCHANGED <<sc_info, k_pos, config, callVars>>

\* Pending copies stay pending.
Clear ==
    /\ call = "idle"
    /\ v_cells' = [t \in Streams |-> Reset]
    /\ v_heads' = [t \in Streams |-> 0]
    /\ UNCHANGED <<sc_info, k_pos, config, divided, callVars>>

-----------------------------------------------------------------------------
(* A call of decode *)

\* The rows of the streams once the pending copies are made in order.
CopyData(k) ==
    LET step[j \in 0 .. Len(sc_info)] ==
            IF j = 0 THEN k
            ELSE [step[j - 1] EXCEPT ![sc_info[j].dst] = step[j - 1][sc_info[j].src]]
    IN  step[Len(sc_info)]

\* The rotation of the rows by the shifts of their cells.
Rotated(k) ==
    [t \in Streams |-> [i \in Cells |->
        IF k[t][i] = -1 THEN -1 ELSE k[t][i] + v_cells[t].shift[i]]]

\* llama_batch_allocr::init accepts the batch: its sequences, which share all of its
\* tokens, have the same positions, the batch continues them, and a cache that is not
\* unified has no tokens of two sequences.
Accepted(S) ==
    /\ S # {} /\ (unified \/ Cardinality(S) = 1)
    /\ \A s, r \in S :
          /\ SeqPosMin(v_cells[StreamOf(s)], s) = SeqPosMin(v_cells[StreamOf(r)], r)
          /\ SeqPosMax(v_cells[StreamOf(s)], s) = SeqPosMax(v_cells[StreamOf(r)], r)

\* decode up to init_batch: memory_update makes the copies and applies the shifts.
Decode(S, n) ==
    LET s     == Smallest(S)
        first == SeqPosMax(v_cells[StreamOf(s)], s) + 1
    IN  /\ call = "idle"
        /\ Accepted(S)
        /\ first + n - 1 <= LastPos[setup]
        /\ sc_info' = <<>>
        /\ k_pos' = Rotated(CopyData(k_pos))
        /\ v_cells' = [t \in Streams |-> ResetShift(v_cells[t])]
        /\ batch' = [seqs |-> S, first |-> first, n |-> n]
        /\ before' = [r \in Seqs |-> PositionsOf(r)]
        /\ call' = "prepare"
        /\ retried' = FALSE
        /\ UNCHANGED <<v_heads, config, divided, sinfos, states>>

BatchStream == StreamOf(Smallest(batch.seqs))

\* is_masked_swa, for LLAMA_SWA_TYPE_STANDARD
IsMaskedSwa(p0, p1) == n_swa > 0 /\ p1 - p0 >= n_swa

\* Mutant of CanUse: the window is that of the token after the next one.
CanUseTooEarly(c, i) ==
    \/ c.pos[i] = -1
    \/ /\ Cardinality(c.seq[i]) = 1
       /\ \A s \in c.seq[i] : IsMaskedSwa(c.pos[i], SeqPosMax(c, s) + 2)

\* A cell can be used that is empty, or that its only sequence does not look at any more.
CanUse(c, i) ==
    \/ c.pos[i] = -1
    \/ /\ Cardinality(c.seq[i]) = 1
       /\ \A s \in c.seq[i] : IsMaskedSwa(c.pos[i], SeqPosMax(c, s) + 1)

\* find_slot for n tokens from position first on: the cells that can be used, from the
\* head on and around; the position each is to hold, or an empty function.
FindSlot(c, head, first, n) ==
    LET start   == IF head > Cardinality(c.used) + 2 * n THEN 0 ELSE head
        usable  == {i \in Cells : CanUse(c, i)}
        Dist(i) == IF i < start THEN i - start + NCells ELSE i - start
        Rank(i) == Cardinality({j \in usable : Dist(j) < Dist(i)})
        nearest == {i \in usable : Rank(i) < n}
    IN  IF Cardinality(usable) < n THEN <<>> ELSE [i \in nearest |-> first + Rank(i)]

\* Mutant of Purge: the older positions of an overwritten sequence stay.
PurgeNothing(c, over, d) == d

\* "we have to purge any position which is less than those we would overwrite": over
\* are the cells of c that were overwritten to get d.
Purge(c, over, d) ==
    LET Below(s) == {i \in Owned(d, s) : \E j \in over \cap Owned(c, s) : d.pos[i] <= c.pos[j]}
        older    == {i \in Cells : \E s \in Seqs : i \in Below(s)}
    IN  Leave(d, [i \in older |-> {s \in Seqs : i \in Below(s)}])

\* apply_ubatch on the cells c
Apply(c, place) ==
    LET over == {i \in DOMAIN place : c.pos[i] # -1}
    IN  Purge(c, over, Put(Rm(c, over), place, batch.seqs))

\* "move the head at the end of the slot"
EndOf(place) == 1 + (CHOOSE i \in DOMAIN place : \A j \in DOMAIN place : place[j] <= place[i])

\* The tokens of the batch that have not been placed, a ubatch of them, or none.
Unplaced == batch.n - NUbatch * Len(sinfos)
NextSize == IF Unplaced < NUbatch THEN Unplaced ELSE NUbatch
NextSlot == FindSlot(v_cells[BatchStream], v_heads[BatchStream],
                     batch.first + NUbatch * Len(sinfos), NextSize)

\* An iteration of prepare: the place of a ubatch, and the state it is put into.
Prepare ==
    LET t     == BatchStream
        place == NextSlot
    IN  /\ call = "prepare"
        /\ Unplaced > 0 /\ place # <<>>
        /\ sinfos' = Append(sinfos, place)
        /\ states' = Append(states, [heads |-> v_heads, cells |-> Cp(v_cells[t], DOMAIN place)])
        /\ Change(t, Apply(v_cells[t], place), EndOf(place))
        /\ UNCHANGED <<sc_info, k_pos, config, divided, call, retried, batch, before>>

\* The loop of prepare ends, with all ubatches placed or without a slot for one.
Prepared ==
    /\ call = "prepare"
    /\ Unplaced <= 0 \/ NextSlot = <<>>
    /\ call' = "restore"
    /\ UNCHANGED <<cacheVars, config, divided, retried, batch, sinfos, states, before>>

\* An iteration of the loop that restores the cells.  The head comes from that of
\* stream 0, whichever the stream of the batch is.
Restore ==
    LET t   == BatchStream
        top == states[Len(states)]
    IN  /\ call = "restore"
        /\ states # <<>>
        /\ Change(t, Set(v_cells[t], top.cells), top.heads[0])
        /\ states' = SubSeq(states, 1, Len(states) - 1)
        /\ UNCHANGED <<sc_info, k_pos, config, divided, call, retried, batch, sinfos, before>>

\* Mutant of AllRestored: the first ubatch is forgotten.
AllButOneRestored == Len(states) <= 1

AllRestored == states = <<>>

\* The end of init_batch.  With a window, split_equal is tried after split_simple; for
\* a batch whose tokens have the same sequences both give the same ubatches.
Initiated ==
    /\ call = "restore"
    /\ AllRestored
    /\ IF Unplaced <= 0 THEN call' = "compute" /\ UNCHANGED <<retried, sinfos>>
       ELSE IF n_swa > 0 /\ unified /\ ~retried
       THEN call' = "prepare" /\ retried' = TRUE /\ sinfos' = <<>>
       ELSE call' = "failed" /\ sinfos' = <<>> /\ UNCHANGED retried
    /\ UNCHANGED <<cacheVars, config, divided, batch, states, before>>

Return ==
    /\ batch' = <<>>
    /\ before' = <<>>
    /\ retried' = FALSE
    /\ call' = "idle"

\* process_ubatch: apply and the computation of the rows.
Compute ==
    LET t     == BatchStream
        place == Head(sinfos)
    IN  /\ call = "compute"
        /\ Change(t, Apply(v_cells[t], place), EndOf(place))
        /\ k_pos' = [k_pos EXCEPT ![t] = [i \in Cells |->
                        IF i \in DOMAIN place THEN place[i] ELSE @[i]]]
        /\ sinfos' = Tail(sinfos)
        /\ IF Tail(sinfos) = <<>> THEN Return ELSE UNCHANGED <<call, retried, batch, before>>
        /\ UNCHANGED <<sc_info, config, divided, states>>

\* The computation fails or is aborted: the positions of the ubatch are removed from
\* the first sequence of its tokens.
ComputeFails(s) ==
    LET t     == BatchStream
        place == Head(sinfos)
        c     == Apply(v_cells[t], place)
        low   == Smallest({place[i] : i \in DOMAIN place})
        d     == SeqRm(c, PosIn(c, low, MaxPos + 1), s)
    IN  /\ call = "compute"
        /\ s \in batch.seqs
        /\ Change(t, d, EarlierHead(EndOf(place), Freed(c, d)))
        /\ k_pos' = [k_pos EXCEPT ![t] = [i \in Cells |->
                        IF i \in DOMAIN place THEN -1 ELSE @[i]]]
        /\ sinfos' = <<>>
        /\ Return
        /\ UNCHANGED <<sc_info, config, divided, states>>

\* decode returns 1: no slot for the batch.
NoSlot ==
    /\ call = "failed"
    /\ Return
    /\ UNCHANGED <<cacheVars, config, divided, sinfos, states>>

-----------------------------------------------------------------------------
Init ==
    /\ v_cells = [t \in Streams |-> Reset]
    /\ v_heads = [t \in Streams |-> 0]
    /\ sc_info = <<>>
    /\ k_pos = [t \in Streams |-> [i \in Cells |-> -1]]
    /\ \E u \in Setups : unified = u[1] /\ n_swa = u[2]
    /\ call = "idle"
    /\ retried = FALSE
    /\ batch = <<>>
    /\ sinfos = <<>>
    /\ states = <<>>
    /\ before = <<>>
    /\ divided = FALSE

Operation ==
    \/ \E s \in Seqs, r \in Ranges : SeqRemove(s, r)
    \/ \E r \in Ranges : AnyRemove(r)
    \/ \E a, b \in Seqs, r \in Ranges : CopySequence(a, b, r)
    \/ \E a, b \in Seqs : CopyStream(a, b)
    \/ \E s \in Seqs : Keep(s)
    \/ \E s \in Seqs, r \in Ranges, d \in Shifts : AddShift(s, r, d)
    \/ \E s \in Seqs, r \in Ranges, d \in Divisors[setup] : Divide(s, r, d)
    \/ Clear

Next ==
    \/ Operation
    \/ \E S \in SUBSET Seqs, n \in 1 .. MaxBatch : Decode(S, n)
    \/ Prepare \/ Prepared \/ Restore \/ Initiated
    \/ Compute \/ (\E s \in Seqs : ComputeFails(s)) \/ NoSlot

Spec == Init /\ [][Next]_vars

-----------------------------------------------------------------------------
(* Properties *)

Batches  == [seqs : (SUBSET Seqs) \ {{}}, first : Positions, n : Nat \ {0}]
Places   == UNION {[R -> Positions] : R \in SUBSET Cells}
Restores == [heads : [Streams -> 0 .. NCells], cells : UNION {[R -> Cell] : R \in SUBSET Cells}]

\* The types of the variables.
TypeOK ==
    /\ v_cells \in [Streams -> CellsType]
    /\ v_heads \in [Streams -> 0 .. NCells]
    /\ sc_info \in Seq([src : Streams, dst : Streams])
    /\ k_pos \in [Streams -> [Cells -> Int]]
    /\ unified \in BOOLEAN /\ n_swa \in Nat
    /\ call \in {"idle", "prepare", "restore", "compute", "failed"}
    /\ retried \in BOOLEAN
    /\ call # "idle" => batch \in Batches
    /\ sinfos \in Seq(Places)
    /\ states \in Seq(Restores)

\* The indices used and seq_pos, and the flag for pending shifts, tell of the cells
\* what their comments say, whatever operations, failed and successful calls of decode
\* have come before: find_slot, seq_pos_min and seq_pos_max rely on them.
IndicesAgree == \A t \in Streams : Representation(v_cells[t])

\* Between calls the rows are, once the pending copies are made, rotated to the
\* positions of their cells but for the shifts that are still to be applied.  (Rows
\* of a failed computation are garbage.)
RowsFollow(t, i) ==
    v_cells[t].pos[i] # -1 =>
        CopyData(k_pos)[t][i] \in {-1, v_cells[t].pos[i] - v_cells[t].shift[i]}

DataFollowsCells == call = "idle" /\ ~divided => \A t \in Streams, i \in Cells : RowsFollow(t, i)

\* prepare leaves the cells of a cache without a window as it found them, so that a
\* decode that finds no slot changes nothing.
SlotsAreTakenBack ==
    call \in {"compute", "failed"} /\ n_swa = 0 /\ (call = "compute" => Unplaced <= 0)
        => \A s \in Seqs : PositionsOf(s) = before[s]

\* The slot of the ubatch that is placed next, and the first position in it.
Placing == IF call = "prepare" THEN NextSlot ELSE Head(sinfos)
Low     == Smallest({Placing[i] : i \in DOMAIN Placing})

\* The positions that the next token of s attends to, a token of the ubatch or, in a
\* sequence that it does not continue, any later one.
NextOf(s)  == IF s \in batch.seqs THEN Low ELSE SeqPosMax(v_cells[StreamOf(s)], s) + 1
Visible(s) == {p \in PositionsOf(s) : ~IsMaskedSwa(p, NextOf(s))}

\* A ubatch never takes the place of a token that it attends to, or the next token of
\* another sequence: what prepare found for it, among other contents of the cells, is
\* still right when it is computed.
NeverOverwritesVisible ==
    [][/\ call \in {"prepare", "compute"}
       /\ v_cells' # v_cells
       => \A s \in Seqs : Visible(s) \subseteq PositionsOf(s)']_vars

\* Stated at llama-kv-cache.cpp:1061, "all positions between [pos_min, pos_max] for each
\* sequence will be present in the cache": placing a ubatch that continues a sequence
\* leaves no gap in it, nor in those whose cells it takes.
Contiguous(s) == \A p, q \in PositionsOf(s) : p .. q \subseteq PositionsOf(s)
Continues == \A s \in batch.seqs : SeqPosMax(v_cells[BatchStream], s) + 1 = Low

LeavesNoGap ==
    [][/\ call \in {"prepare", "compute"} /\ v_cells' # v_cells
       /\ Continues
       => \A s \in Seqs : Contiguous(s) => Contiguous(s)']_vars

=============================================================================
