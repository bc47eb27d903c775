----------------------------- MODULE GraphPhases -----------------------------
(***************************************************************************)
(* What ggml_graph_compute promises to the operators of a graph: every     *)
(* thread of the call goes through the same phases, a phase of one thread  *)
(* begins when all threads have ended the phase before it, and the call    *)
(* returns when all have ended the same last phase.  A phase is what a     *)
(* thread does between two barriers.                                       *)
(***************************************************************************)
EXTENDS Naturals

CONSTANT Threads \* the threads of the pool

VARIABLES
    active, \* the threads that take part in the call, {} between calls
    ended,  \* the number of phases each of them has ended
    busy    \* the threads that are in the middle of a phase

vars == <<active, ended, busy>>

Init ==
    /\ active = {}
    /\ ended = [t \in Threads |-> 0]
    /\ busy = {}

Call ==
    /\ active = {}
    /\ active' \in SUBSET Threads \ {{}}
    /\ ended' = [t \in Threads |-> 0]
    /\ UNCHANGED busy

BeginPhase(t) ==
    /\ t \in active \ busy
    /\ \A u \in active : ended[u] >= ended[t]
    /\ busy' = busy \cup {t}
    /\ UNCHANGED <<active, ended>>

EndPhase(t) ==
    /\ t \in busy
    /\ busy' = busy \ {t}
    /\ ended' = [ended EXCEPT ![t] = @ + 1]
    /\ UNCHANGED active

Return ==
    /\ active # {}
    /\ busy = {}
    /\ \A t, u \in active : ended[t] = ended[u]
    /\ active' = {}
    /\ UNCHANGED <<ended, busy>>

Next == Call \/ (\E t \in Threads : BeginPhase(t) \/ EndPhase(t)) \/ Return

Spec == Init /\ [][Next]_vars
=============================================================================
