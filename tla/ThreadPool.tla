----------------------------- MODULE ThreadPool -----------------------------
(***************************************************************************)
(* The thread pool of the CPU backend (ggml/src/ggml-cpu/ggml-cpu.c) in    *)
(* the build without OpenMP: threads that poll for a graph and then sleep, *)
(* the barrier between its nodes, the chunks of a matrix multiplication    *)
(* that threads take from a shared counter, pause, abort and free.         *)
(*                                                                         *)
(* An action is one access to memory other threads use, or one critical    *)
(* section of the mutex.  Memory is sequentially consistent here; the code *)
(* asks for that in the barrier and at the kickoff, and for no more than   *)
(* relaxed accesses elsewhere.                                             *)
(*                                                                         *)
(* A worker blocked in the condition variable is at "paused" or "asleep";  *)
(* every signal is a broadcast, which sends it back to its check.          *)
(***************************************************************************)
EXTENDS Integers, Sequences

CONSTANTS
    N,               \* threads of the pool, the caller's included
    Graphs,          \* graphs that may be computed: sequences of operators
    NChunks,         \* chunks of a matrix multiplication, nchunk0 * nchunk1
    ChunksPerThread, \* fewer chunks for each thread than this are merged
    MaxGraphs        \* bound on the graphs that are computed

Operators == {"empty", "plain", "mul_mat"}

ASSUME ThreadsAssumption == N \in Nat \ {0}
ASSUME GraphsAssumption  == Graphs \subseteq Seq(Operators)
ASSUME ChunksAssumption  == NChunks \in Nat \ {0} /\ ChunksPerThread \in Nat
ASSUME BoundAssumption   == MaxGraphs \in Nat

Threads == 0 .. N - 1 \* thread 0 is the caller of ggml_graph_compute
Workers == Threads \ {0}

VARIABLES
    cgraph,           \* ggml_threadpool::cgraph
    n_graph,          \* ggml_threadpool::n_graph, as count and threads
    n_barrier,        \* ggml_threadpool::n_barrier
    n_barrier_passed, \* ggml_threadpool::n_barrier_passed
    current_chunk,    \* ggml_threadpool::current_chunk
    stop,             \* ggml_threadpool::stop
    pause,            \* ggml_threadpool::pause
    abort,            \* ggml_threadpool::abort
    pc,               \* program point of every thread
    last_graph,       \* ggml_compute_state::last_graph
    nth,              \* ggml_compute_params::nth of every thread
    node_n,           \* the node it computes
    chunk,            \* the chunk it computes
    n_passed,         \* n_barrier_passed as it has read it in the barrier
    after,            \* where it goes from the barrier
    asked,            \* cplan->n_threads of the call, limited to the pool
    ended,            \* history: phases it has ended in this graph
    computed          \* history: how often each chunk has been computed

poolVars   == <<cgraph, n_graph, n_barrier, n_barrier_passed, current_chunk,
                stop, pause, abort>>
threadVars == <<pc, last_graph, nth, node_n, chunk, n_passed, after>>
vars == <<poolVars, threadVars, asked, ended, computed>>

\* Program points at which a thread is in the middle of a phase.
Busy == {"work", "convert", "chunk", "claim"}
Barrier == {"enter", "add", "reset", "pass", "spin"}
Computing == {"start", "loop"} \cup Busy \cup Barrier
MainPoints == {"idle", "kickoff", "joining", "freed"} \cup Computing
WorkerPoints == {"top", "paused", "check", "poll", "lock", "asleep", "exited"}
                    \cup Computing

Goto(t, from, to) ==
    /\ pc[t] = from
    /\ pc' = [pc EXCEPT ![t] = to]

-----------------------------------------------------------------------------
(* ggml_barrier *)

\* n_graph & GGML_THREADPOOL_N_THREADS_MASK
NThreads == n_graph.threads

\* Where a thread goes when it has passed the barrier.
Leave(t, from) == Goto(t, from, after[t])

BarrierEnter(t) ==
    /\ IF NThreads = 1 THEN Leave(t, "enter") ELSE Goto(t, "enter", "add")
    /\ n_passed' = [n_passed EXCEPT ![t] = n_barrier_passed]
    /\ UNCHANGED <<poolVars, last_graph, nth, node_n, chunk, after,
                   asked, ended, computed>>

LastButOneArrives == n_barrier >= NThreads - 2 \* a mutant of LastArrives

LastArrives == n_barrier = NThreads - 1

BarrierAdd(t) ==
    /\ Goto(t, "add", IF LastArrives THEN "reset" ELSE "spin")
    /\ n_barrier' = n_barrier + 1
    /\ UNCHANGED <<cgraph, n_graph, n_barrier_passed, current_chunk, stop,
                   pause, abort, last_graph, nth, node_n, chunk, n_passed,
                   after, asked, ended, computed>>

BarrierReset(t) ==
    /\ Goto(t, "reset", "pass")
    /\ n_barrier' = 0
    /\ UNCHANGED <<cgraph, n_graph, n_barrier_passed, current_chunk, stop,
                   pause, abort, last_graph, nth, node_n, chunk, n_passed,
                   after, asked, ended, computed>>

BarrierPass(t) ==
    /\ Leave(t, "pass")
    /\ n_barrier_passed' = n_barrier_passed + 1
    /\ UNCHANGED <<cgraph, n_graph, n_barrier, current_chunk, stop, pause,
                   abort, last_graph, nth, node_n, chunk, n_passed, after,
                   asked, ended, computed>>

BarrierSpin(t) ==
    /\ Leave(t, "spin")
    /\ n_barrier_passed # n_passed[t]
    /\ UNCHANGED <<poolVars, last_graph, nth, node_n, chunk, n_passed, after,
                   asked, ended, computed>>

-----------------------------------------------------------------------------
(* ggml_graph_compute_thread *)

Start(t) ==
    /\ Goto(t, "start", "loop")
    /\ nth' = [nth EXCEPT ![t] = NThreads]
    /\ node_n' = [node_n EXCEPT ![t] = 0]
    /\ UNCHANGED <<poolVars, last_graph, chunk, n_passed, after, asked, ended,
                   computed>>

More(t) == node_n[t] < Len(cgraph) /\ abort # node_n[t]
Op(t)   == cgraph[node_n[t] + 1]

\* A worker goes on to its next check for work, the caller returns.
Home(t) == IF t = 0 THEN "idle" ELSE "top"

\* The barrier at the end of the graph.
LoopEnd(t) ==
    /\ Goto(t, "loop", "enter")
    /\ ~More(t)
    /\ after' = [after EXCEPT ![t] = Home(t)]
    /\ UNCHANGED <<poolVars, last_graph, nth, node_n, chunk, n_passed, asked,
                   ended, computed>>

LoopSkip(t) ==
    /\ pc[t] = "loop"
    /\ More(t)
    /\ Op(t) = "empty"
    /\ node_n' = [node_n EXCEPT ![t] = @ + 1]
    /\ UNCHANGED <<poolVars, pc, last_graph, nth, chunk, n_passed, after,
                   asked, ended, computed>>

LoopCompute(t) ==
    /\ pc[t] = "loop"
    /\ More(t)
    /\ Op(t) # "empty"
    /\ Goto(t, "loop", IF Op(t) = "plain" THEN "work" ELSE "convert")
    /\ UNCHANGED <<poolVars, last_graph, nth, node_n, chunk, n_passed, after,
                   asked, ended, computed>>

EndPhase(t) == ended' = [ended EXCEPT ![t] = @ + 1]

\* The abort callback, which the caller's thread asks after each node.
AskAbort(t) ==
    abort' \in IF t = 0 THEN {abort, node_n[t] + 1} ELSE {abort}

\* The node is done: a barrier, unless it was the last.
EndNode(t, from) ==
    /\ Goto(t, from, IF node_n[t] + 1 < Len(cgraph) THEN "enter" ELSE "loop")
    /\ after' = [after EXCEPT ![t] = "loop"]
    /\ node_n' = [node_n EXCEPT ![t] = @ + 1]
    /\ AskAbort(t)

Work(t) ==
    /\ EndNode(t, "work")
    /\ EndPhase(t)
    /\ UNCHANGED <<cgraph, n_graph, n_barrier, n_barrier_passed, current_chunk,
                   stop, pause, last_graph, nth, chunk, n_passed, asked,
                   computed>>

-----------------------------------------------------------------------------
(* ggml_compute_forward_mul_mat *)

\* The chunks there are: one for each thread when they would be too few.
Total(n) == IF NChunks < n * ChunksPerThread THEN n ELSE NChunks

\* A mutant of Convert.
ConvertOnly(t) ==
    /\ Goto(t, "convert", "enter")
    /\ EndPhase(t)
    /\ after' = [after EXCEPT ![t] = "chunk"]
    /\ chunk' = [chunk EXCEPT ![t] = t]
    /\ computed' = IF t = 0 THEN [c \in 0 .. Total(nth[t]) - 1 |-> 0]
                   ELSE computed
    /\ UNCHANGED <<cgraph, n_graph, n_barrier, n_barrier_passed, current_chunk,
                   stop, pause, abort, last_graph, nth, node_n, n_passed,
                   asked>>

\* The threads convert src1; the caller's thread sets the counter that the
\* chunks beyond the first of each thread are taken from.
Convert(t) ==
    /\ Goto(t, "convert", "enter")
    /\ EndPhase(t)
    /\ after' = [after EXCEPT ![t] = "chunk"]
    /\ chunk' = [chunk EXCEPT ![t] = t]
    /\ IF t = 0
       THEN /\ current_chunk' = nth[t]
            /\ computed' = [c \in 0 .. Total(nth[t]) - 1 |-> 0]
       ELSE UNCHANGED <<current_chunk, computed>>
    /\ UNCHANGED <<cgraph, n_graph, n_barrier, n_barrier_passed, stop, pause,
                   abort, last_graph, nth, node_n, n_passed, asked>>

Chunk(t) ==
    /\ pc[t] = "chunk"
    /\ chunk[t] < Total(nth[t])
    /\ computed' = [computed EXCEPT ![chunk[t]] = @ + 1]
    /\ IF nth[t] >= Total(nth[t])
       THEN EndNode(t, "chunk") /\ EndPhase(t)
       ELSE Goto(t, "chunk", "claim") /\ UNCHANGED <<after, node_n, abort, ended>>
    /\ UNCHANGED <<cgraph, n_graph, n_barrier, n_barrier_passed, current_chunk,
                   stop, pause, last_graph, nth, chunk, n_passed, asked>>

Claim(t) ==
    /\ Goto(t, "claim", "chunk")
    /\ chunk' = [chunk EXCEPT ![t] = current_chunk]
    /\ current_chunk' = current_chunk + 1
    /\ UNCHANGED <<cgraph, n_graph, n_barrier, n_barrier_passed, stop, pause,
                   abort, last_graph, nth, node_n, n_passed, after, asked,
                   ended, computed>>

NoChunk(t) ==
    /\ EndNode(t, "chunk")
    /\ chunk[t] >= Total(nth[t])
    /\ EndPhase(t)
    /\ UNCHANGED <<cgraph, n_graph, n_barrier, n_barrier_passed, current_chunk,
                   stop, pause, last_graph, nth, chunk, n_passed, asked,
                   computed>>

Compute(t) ==
    \/ BarrierEnter(t) \/ BarrierAdd(t) \/ BarrierReset(t) \/ BarrierPass(t)
    \/ BarrierSpin(t) \/ Start(t) \/ LoopEnd(t) \/ LoopSkip(t) \/ LoopCompute(t)
    \/ Work(t) \/ Convert(t) \/ Chunk(t) \/ Claim(t) \/ NoChunk(t)

-----------------------------------------------------------------------------
(* ggml_graph_compute_secondary_thread *)

\* ggml_graph_compute_thread_ready, which also takes the new graph.
IsNew(t)   == ~stop /\ ~pause /\ n_graph # last_graph[t]
IsReady(t) == stop \/ pause \/ IsNew(t)
Pending(t) == IsNew(t) /\ t < NThreads
TakeGraph(t) ==
    last_graph' = IF IsNew(t) THEN [last_graph EXCEPT ![t] = n_graph]
                  ELSE last_graph

waitVars == <<poolVars, nth, node_n, chunk, n_passed, after, asked, ended,
              computed>>

Top(t) ==
    /\ Goto(t, "top", IF pause THEN "paused" ELSE "check")
    /\ UNCHANGED <<waitVars, last_graph>>

Check(t) ==
    /\ Goto(t, "check", IF stop THEN "exited" ELSE "poll")
    /\ UNCHANGED <<waitVars, last_graph>>

\* ggml_graph_compute_poll_for_work ends with work, or without.
Poll(t) ==
    /\ Goto(t, "poll", IF Pending(t) THEN "start" ELSE "lock")
    /\ TakeGraph(t)
    /\ UNCHANGED waitVars

\* A mutant of Lock.
LockAndSleep(t) ==
    /\ Goto(t, "lock", "asleep")
    /\ UNCHANGED <<waitVars, last_graph>>

\* The thread looks again under the mutex before it sleeps.
Lock(t) ==
    /\ Goto(t, "lock", IF Pending(t) THEN "start"
                       ELSE IF IsReady(t) THEN "top" ELSE "asleep")
    /\ TakeGraph(t)
    /\ UNCHANGED waitVars

Wait(t) == Top(t) \/ Check(t) \/ Poll(t) \/ Lock(t)

-----------------------------------------------------------------------------
(* The caller: ggml_graph_compute, pause, resume and free *)

\* ggml_cond_broadcast wakes those that sleep and those that are paused.
Broadcast(from, to) ==
    /\ pc[0] = from
    /\ pc' = [t \in Threads |-> IF t = 0 THEN to
                               ELSE IF pc[t] = "asleep" THEN "lock"
                               ELSE IF pc[t] = "paused" THEN "top"
                               ELSE pc[t]]

\* The parameters of the call, which no worker should be accessing now.
GraphCompute ==
    /\ n_graph.count < MaxGraphs
    /\ Goto(0, "idle", "kickoff")
    /\ cgraph' \in Graphs
    /\ asked' \in Threads \cup {N}
    /\ asked' > 0
    /\ current_chunk' = 0
    /\ abort' = -1
    /\ computed' = <<>>
    /\ UNCHANGED <<n_graph, n_barrier, n_barrier_passed, stop, pause,
                   last_graph, nth, node_n, chunk, n_passed, after, ended>>

\* Start processing a new graph, which also resumes a paused pool.
Kickoff ==
    /\ Broadcast("kickoff", "start")
    /\ n_graph' = [count |-> n_graph.count + 1, threads |-> asked]
    /\ pause' = FALSE
    /\ ended' = [t \in Threads |-> 0]
    /\ UNCHANGED <<cgraph, n_barrier, n_barrier_passed, current_chunk, stop,
                   abort, last_graph, nth, node_n, chunk, n_passed, after,
                   asked, computed>>

SetPause ==
    /\ Broadcast("idle", "idle")
    /\ pause' = ~pause
    /\ UNCHANGED <<cgraph, n_graph, n_barrier, n_barrier_passed, current_chunk,
                   stop, abort, last_graph, nth, node_n, chunk, n_passed,
                   after, asked, ended, computed>>

Free ==
    /\ Broadcast("idle", "joining")
    /\ stop' = TRUE
    /\ pause' = FALSE
    /\ UNCHANGED <<cgraph, n_graph, n_barrier, n_barrier_passed, current_chunk,
                   abort, last_graph, nth, node_n, chunk, n_passed, after,
                   asked, ended, computed>>

Join ==
    /\ Goto(0, "joining", "freed")
    /\ \A t \in Workers : pc[t] = "exited"
    /\ UNCHANGED <<poolVars, last_graph, nth, node_n, chunk, n_passed, after,
                   asked, ended, computed>>

-----------------------------------------------------------------------------
Init ==
    /\ cgraph = <<>>
    /\ n_graph = [count |-> 0, threads |-> 0]
    /\ n_barrier = 0
    /\ n_barrier_passed = 0
    /\ current_chunk = 0
    /\ stop = FALSE
    /\ pause \in BOOLEAN
    /\ abort = -1
    /\ pc = [t \in Threads |-> IF t = 0 THEN "idle" ELSE "top"]
    /\ last_graph = [t \in Threads |-> [count |-> 0, threads |-> 0]]
    /\ nth = [t \in Threads |-> 0]
    /\ node_n = [t \in Threads |-> 0]
    /\ chunk = [t \in Threads |-> 0]
    /\ n_passed = [t \in Threads |-> 0]
    /\ after = [t \in Threads |-> "loop"]
    /\ asked = 1
    /\ ended = [t \in Threads |-> 0]
    /\ computed = <<>>

Next ==
    \/ \E t \in Threads : Compute(t)
    \/ \E t \in Workers : Wait(t)
    \/ GraphCompute \/ Kickoff \/ SetPause \/ Free \/ Join

Spec == Init /\ [][Next]_vars

\* Every thread runs.  The caller need not compute, pause or free.
Fairness ==
    /\ \A t \in Threads : WF_vars(Compute(t))
    /\ \A t \in Workers : WF_vars(Wait(t))
    /\ WF_vars(Kickoff) /\ WF_vars(Join)

FairSpec == Spec /\ Fairness

-----------------------------------------------------------------------------
(* Properties *)

GraphIds == [count : 0 .. MaxGraphs, threads : 0 .. N]

TypeOK ==
    /\ cgraph \in Graphs \cup {<<>>}
    /\ n_graph \in GraphIds
    /\ n_barrier \in 0 .. N
    /\ n_barrier_passed \in Nat
    /\ current_chunk \in Nat
    /\ stop \in BOOLEAN
    /\ pause \in BOOLEAN
    /\ abort \in Nat \cup {-1}
    /\ pc \in [Threads -> MainPoints \cup WorkerPoints]
    /\ pc[0] \in MainPoints
    /\ \A t \in Workers : pc[t] \in WorkerPoints
    /\ last_graph \in [Threads -> GraphIds]
    /\ nth \in [Threads -> 0 .. N]
    /\ node_n \in [Threads -> Nat]
    /\ chunk \in [Threads -> Nat]
    /\ n_passed \in [Threads -> Nat]
    /\ after \in [Threads -> {"loop", "chunk", "idle", "top"}]
    /\ asked \in 1 .. N
    /\ ended \in [Threads -> Nat]
    /\ \A c \in DOMAIN computed : computed[c] \in Nat

\* "No worker threads should be accessing the parameters below at this stage":
\* between two graphs every worker has left the last one, but for the wait in
\* its final barrier, which it leaves for the next check for work.
ParametersAlone ==
    pc[0] \in {"idle", "kickoff", "joining", "freed"} =>
        \A t \in Workers : pc[t] \in Computing => pc[t] = "spin" /\ after[t] = "top"

\* A matrix multiplication computes each of its chunks exactly once, although
\* its threads share nothing but a counter that only one of them resets.
ChunksOnce ==
    /\ \A c \in DOMAIN computed : computed[c] <= 1
    /\ (pc[0] = "idle" \/ (pc[0] = "loop" /\ node_n[0] < Len(cgraph)))
           => \A c \in DOMAIN computed : computed[c] = 1

\* The barriers separate the phases of all threads, in a graph that is aborted
\* as well as in one that is not, and the caller returns after all of them.
Phases == INSTANCE GraphPhases WITH
              active <- IF pc[0] \in Computing THEN 0 .. NThreads - 1 ELSE {},
              busy <- {t \in Threads : pc[t] \in Busy}
ImplementsPhases == Phases!Spec

\* A graph that is started is computed, and a pool that is freed ends all its
\* threads: no thread misses the kickoff or the end between its polls and its
\* sleep, in a pause, or in the barrier of the last graph.
CallsReturn ==
    /\ pc[0] = "kickoff" ~> pc[0] = "idle"
    /\ pc[0] = "joining" ~> pc[0] = "freed"
=============================================================================
