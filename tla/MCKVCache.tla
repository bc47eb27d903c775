------------------------------ MODULE MCKVCache ------------------------------
(***************************************************************************)
(* KVCache for TLC: the arguments of the calls.                            *)
(***************************************************************************)
EXTENDS KVCache

\* Everything, and the two halves at a position.
MCRanges == {<<-1, -1>>, <<1, -1>>, <<-1, 1>>}
MCShifts == {-1}

\* A unified cache with a window and one without, and a cache per sequence.
MCSetups   == {<<TRUE, 2>>, <<TRUE, 0>>, <<FALSE, 0>>}
MCLastPos  == [u \in MCSetups |-> CASE u[2] > 0 -> 3 [] u[1] -> 2 [] OTHER -> 1]
MCDivisors == [u \in MCSetups |-> IF u = <<TRUE, 0>> THEN {2} ELSE {}]

\* States that differ only in the rows of empty cells are the same: such a row is only
\* read after Compute has written it, or after a copy from a stream whose cell is in
\* use, unless the cell is still to be restored.
MCToRestore(t) ==
    {i \in Cells : \E j \in DOMAIN states :
        t = BatchStream /\ i \in DOMAIN states[j].cells /\ states[j].cells[i].pos # -1}
MCView ==
    LET k == CopyData(k_pos)
    IN  <<v_cells, v_heads, sc_info, config, callVars, divided,
          IF divided THEN <<>>
          ELSE [t \in Streams |->
                   [i \in Nonempty(v_cells[t]) \cup MCToRestore(t) |-> k[t][i]]]>>
=============================================================================
