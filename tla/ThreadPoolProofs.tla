-------------------------- MODULE ThreadPoolProofs --------------------------
(***************************************************************************)
(* Theorems about ThreadPool, for every number of threads, set of graphs,  *)
(* number of chunks and bound on the computed graphs.  They follow from    *)
(* one inductive invariant, IInv.                                          *)
(*                                                                         *)
(* Its idea: a barrier divides the work of the threads into levels, and    *)
(* all participants of a graph are always on the same level, if a thread   *)
(* that was released from a barrier and has not noticed counts as being    *)
(* behind it already, and a worker that has not seen the graph yet counts  *)
(* as being at its start.  The node m at which the threads of a level stop *)
(* is the same for all of them, although each decides for itself which     *)
(* nodes to skip and whether the graph was aborted.                        *)
(***************************************************************************)
EXTENDS ThreadPool, FiniteSetTheorems, WellFoundedInduction, TLAPS

Participants == 0 .. NThreads - 1

\* The barrier was passed by the last thread, and t has not noticed.
Released(t) == pc[t] = "spin" /\ n_passed[t] < n_barrier_passed
Waiting(t)  == pc[t] = "spin" /\ n_passed[t] = n_barrier_passed
Held(t)     == pc[t] \in Barrier /\ ~Released(t)

\* Where t is, when a barrier that it was released from is behind it.
At(t, place) == pc[t] = place \/ (Released(t) /\ after[t] = place)
Out(t)       == pc[t] \notin Computing \/ (Released(t) /\ after[t] = Home(t))

\* A worker that has seen the current graph.
Joined(t) == t = 0 \/ last_graph[t] = n_graph

GraphInv ==
    /\ pc[0] = "kickoff" => n_graph.count < MaxGraphs
    /\ pc[0] \in Computing => NThreads > 0
    /\ \A t \in Workers : last_graph[t] = n_graph \/ last_graph[t].count < n_graph.count
    /\ \A t \in Threads \ Participants : t # 0 => Out(t)
    /\ \A t \in Threads : after[t] \in {"loop", "chunk", Home(t)}

\* The threads in the barrier, and what n_barrier says of them.
BarrierInv ==
    /\ \A t \in Threads : n_passed[t] <= n_barrier_passed
    /\ \A t \in Threads : pc[t] \in {"add", "reset", "pass"} =>
          n_passed[t] = n_barrier_passed /\ NThreads > 1
    /\ \A t \in Threads : Waiting(t) => NThreads > 1
    /\ \A t \in Threads : pc[t] \in {"reset", "pass"} =>
          /\ \A u \in Participants \ {t} : Waiting(u)
          /\ n_barrier = IF pc[t] = "reset" THEN NThreads ELSE 0
    /\ (\A t \in Threads : pc[t] \notin {"reset", "pass"}) =>
          n_barrier = Cardinality({t \in Participants : Waiting(t)})

-----------------------------------------------------------------------------
(* Levels.  The level with e phases behind it, whose threads stop at node m *)

Going(m) == m < Len(cgraph) /\ abort # m
OpAt(m)  == cgraph[m + 1]

\* From node j a thread skips to node m.
Leads(j, m) ==
    /\ j \in 0 .. m
    /\ \A i \in j .. m - 1 : Going(i) /\ OpAt(i) = "empty"

Fresh(t, e, m) ==
    /\ IF Joined(t) THEN pc[t] = "start" ELSE Out(t)
    /\ e = 0 /\ ended[t] = e
    /\ Leads(0, m)

InLoop(t, e, m) ==
    /\ Joined(t) /\ nth[t] = NThreads
    /\ At(t, "loop") /\ ended[t] = e /\ Leads(node_n[t], m)

InNode(t, e, m) ==
    /\ Joined(t) /\ nth[t] = NThreads
    /\ Going(m)
    /\ pc[t] = IF OpAt(m) = "plain" THEN "work" ELSE "convert"
    /\ ended[t] = e /\ node_n[t] = m

\* The phase of node m was the last of this node.
Done(t, e, m) ==
    /\ Joined(t) /\ nth[t] = NThreads
    /\ Going(m)
    /\ ended[t] = e + 1 /\ node_n[t] = m + 1
    /\ \/ m + 1 < Len(cgraph) /\ Held(t) /\ after[t] = "loop"
       \/ m + 1 = Len(cgraph) /\ pc[t] = "loop"
       \/ m + 1 = Len(cgraph) /\ Held(t) /\ after[t] = Home(t)

Converted(t, e, m) ==
    /\ Joined(t) /\ nth[t] = NThreads
    /\ Going(m) /\ OpAt(m) = "mul_mat"
    /\ ended[t] = e + 1 /\ node_n[t] = m
    /\ Held(t) /\ after[t] = "chunk" /\ chunk[t] = t

\* There was no node to compute.
NoPhase(t, e, m) ==
    /\ Joined(t) /\ nth[t] = NThreads
    /\ ~Going(m)
    /\ ended[t] = e /\ node_n[t] = m
    /\ Held(t) /\ after[t] = Home(t)

OnLoopLevel(t, e, m) ==
    \/ Fresh(t, e, m) \/ InLoop(t, e, m) \/ InNode(t, e, m)
    \/ Done(t, e, m) /\ OpAt(m) = "plain"
    \/ Converted(t, e, m) \/ NoPhase(t, e, m)

Claiming(t, e, m) ==
    /\ Joined(t) /\ nth[t] = NThreads
    /\ At(t, "chunk") \/ pc[t] = "claim"
    /\ ended[t] = e /\ node_n[t] = m

OnChunkLevel(t, e, m) == Claiming(t, e, m) \/ Done(t, e, m)

-----------------------------------------------------------------------------
(* The chunks on a level *)

Chunks  == 0 .. Total(NThreads) - 1
AllOnce == \A c \in DOMAIN computed : computed[c] = 1

\* The caller's thread has reset the counter for the chunks, or has not.
Prepared(e, m) ==
    IF Converted(0, e, m)
    THEN computed = [c \in Chunks |-> 0] /\ current_chunk = NThreads
    ELSE AllOnce

\* t will compute chunk[t] next, if there is such a chunk.
Holds(t) == At(t, "chunk")

Holding(t) ==
    /\ chunk[t] < current_chunk
    /\ chunk[t] \in Chunks => computed[chunk[t]] = 0
    /\ \A u \in Participants : Holds(u) /\ chunk[u] = chunk[t] => u = t

\* Every chunk is computed, held by one thread, or still to be taken.
Shared(e) ==
    /\ computed \in [Chunks -> {0, 1}]
    /\ NThreads <= current_chunk
    /\ \A t \in Participants : Holds(t) => Holding(t)
    /\ \A c \in Chunks : computed[c] = 0 =>
          c >= current_chunk \/ \E t \in Participants : Holds(t) /\ chunk[t] = c
    /\ \A c \in Chunks : c >= current_chunk => computed[c] = 0
    /\ \A t \in Participants : ended[t] = e + 1 => Total(NThreads) <= current_chunk

LoopLevel(e, m) ==
    /\ NThreads > 0
    /\ m <= Len(cgraph)
    /\ Going(m) => OpAt(m) # "empty"
    /\ \A t \in Participants : OnLoopLevel(t, e, m)
    /\ Prepared(e, m)

ChunkLevel(e, m) ==
    /\ NThreads > 0
    /\ Going(m) /\ OpAt(m) = "mul_mat"
    /\ \A t \in Participants : OnChunkLevel(t, e, m)
    /\ Shared(e)

\* After the last barrier of a graph, and between two graphs.
HomeLevel(e) ==
    /\ \A t \in Participants : Joined(t) /\ Out(t) /\ ended[t] = e
    /\ Out(0)
    /\ AllOnce

LevelInv ==
    \/ \E e \in Nat : HomeLevel(e)
    \/ \E e \in Nat, m \in Nat : LoopLevel(e, m) \/ ChunkLevel(e, m)

IInv == TypeOK /\ GraphInv /\ BarrierInv /\ LevelInv

-----------------------------------------------------------------------------
(* Facts *)

\* A set of natural numbers that is not empty has a least element.
LEMMA LeastNumber ==
    ASSUME NEW S \in SUBSET Nat, S # {}
    PROVE  \E n \in S : \A m \in S : n <= m
<1>1. PICK n \in S : \A m \in S : ~(<<m, n>> \in OpToRel(<, Nat))
  BY NatLessThanWellFounded, WFMin
<1>2. \A m \in S : <<m, n>> \in OpToRel(<, Nat) <=> m < n
  BY Zenon DEF OpToRel
<1>3. \A m \in S : ~(m < n)
  BY <1>1, <1>2, Zenon
<1> QED
  BY <1>3

\* What the types say of the values a step reads.
LEMMA TypeFacts ==
    ASSUME TypeOK
    PROVE  /\ cgraph \in Seq(Operators) /\ Len(cgraph) \in Nat
           /\ NThreads \in 0 .. N /\ N \in Nat \ {0} /\ 0 \in Threads
           /\ Participants \subseteq Threads /\ IsFiniteSet(Participants)
           /\ Workers \subseteq Threads
           /\ \A n \in 0 .. N : Total(n) \in Nat
<1>1. cgraph \in Seq(Operators)
  <2>1. cgraph \in Graphs \/ cgraph = <<>>
    BY DEF TypeOK
  <2>2. <<>> \in Seq(Operators)
    OBVIOUS
  <2> QED
    BY <2>1, <2>2, GraphsAssumption, Zenon
<1>2. NThreads \in 0 .. N /\ N \in Nat \ {0}
  BY ThreadsAssumption DEF TypeOK, GraphIds, NThreads
<1>3. Participants \subseteq Threads /\ IsFiniteSet(Participants) /\ 0 \in Threads
  BY <1>2, FS_Interval DEF Participants, Threads
<1>4. \A n \in 0 .. N : Total(n) \in Nat
  BY <1>2, ChunksAssumption DEF Total
<1> QED
  BY <1>1, <1>2, <1>3, <1>4 DEF Workers

-----------------------------------------------------------------------------
(* Types *)

\* The types of the program points.
PointsOK ==
    /\ pc \in [Threads -> MainPoints \cup WorkerPoints]
    /\ pc[0] \in MainPoints
    /\ \A t \in Workers : pc[t] \in WorkerPoints

\* A thread that computes stays at its program points, or goes home.
LEMMA Moves ==
    ASSUME TypeOK, NEW t \in Threads, NEW to \in Computing \cup {Home(t)},
           pc' = [pc EXCEPT ![t] = to]
    PROVE  PointsOK'
<1>1. to \in MainPoints \cup WorkerPoints
  BY DEF Home, MainPoints, WorkerPoints
<1>2. t = 0 => to \in MainPoints
  BY DEF Home, MainPoints
<1>3. t \in Workers => to \in WorkerPoints
  BY DEF Home, WorkerPoints, Workers
<1>4. 0 \in Threads /\ Workers = Threads \ {0}
  BY TypeFacts DEF Workers
<1>5. PointsOK
  BY Zenon DEF TypeOK, PointsOK
<1> QED
  BY <1>1, <1>2, <1>3, <1>4, <1>5 DEF PointsOK

\* A thread that is held in the barrier, or in the middle of a graph, is one of
\* the participants.
LEMMA Inside ==
    ASSUME TypeOK, GraphInv, NEW t \in Threads, pc[t] \in Computing, ~Out(t)
    PROVE  t \in Participants
BY TypeFacts DEF GraphInv, Participants

Waiters == {u \in Participants : Waiting(u)}

\* A thread that arrives in the barrier finds all who came before counted, and
\* is the last exactly if all others wait.
LEMMA Arrival ==
    ASSUME TypeOK, GraphInv, BarrierInv, NEW t \in Threads, pc[t] = "add"
    PROVE  /\ t \in Participants
           /\ \A u \in Threads : pc[u] \notin {"reset", "pass"}
           /\ IsFiniteSet(Waiters) /\ n_barrier = Cardinality(Waiters)
           /\ n_barrier \in 0 .. NThreads - 1
           /\ LastArrives => \A u \in Participants \ {t} : Waiting(u)
<1> USE TypeFacts
<1>1. t \in Participants
  BY Inside DEF Out, Released, Computing, Barrier
<1>2. \A u \in Threads : pc[u] \notin {"reset", "pass"}
  BY <1>1 DEF BarrierInv, Waiting
<1>3. n_barrier = Cardinality(Waiters)
  BY <1>2 DEF BarrierInv, Waiters
<1>4. Waiters \in SUBSET (Participants \ {t})
  BY DEF Waiters, Waiting
<1>5. IsFiniteSet(Participants \ {t}) /\ Cardinality(Participants \ {t}) = NThreads - 1
  <2>1. Cardinality(Participants) = NThreads
    BY <1>1, FS_Interval DEF Participants
  <2> QED
    BY <1>1, <2>1, FS_RemoveElement
<1>6. /\ IsFiniteSet(Waiters) /\ Cardinality(Waiters) <= NThreads - 1
      /\ Cardinality(Waiters) = NThreads - 1 => Waiters = Participants \ {t}
  BY <1>4, <1>5, FS_Subset
<1>7. Cardinality(Waiters) \in Nat
  BY <1>6, FS_CardinalityType
<1> QED
  BY <1>1, <1>2, <1>3, <1>6, <1>7 DEF LastArrives, Waiters

\* The steps of a thread in the barrier keep the types.
LEMMA BarrierTypes ==
    ASSUME TypeOK, GraphInv, BarrierInv, NEW t \in Threads,
           \/ BarrierEnter(t) \/ BarrierAdd(t) \/ BarrierReset(t)
           \/ BarrierPass(t) \/ BarrierSpin(t)
    PROVE  TypeOK'
<1> USE TypeFacts
<1>1. after[t] \in Computing \cup {Home(t)}
  BY DEF GraphInv, Computing, Busy
<1>2. PICK to \in Computing \cup {Home(t)} : pc' = [pc EXCEPT ![t] = to]
  BY <1>1 DEF BarrierEnter, BarrierAdd, BarrierReset, BarrierPass, BarrierSpin,
              Goto, Leave, Computing, Barrier
<1>3. PointsOK'
  BY <1>2, Moves
<1>4. CASE BarrierEnter(t)
  BY <1>3, <1>4 DEF PointsOK, BarrierEnter, TypeOK, poolVars
<1>5. CASE BarrierAdd(t)
  <2>1. n_barrier' \in 0 .. N
    BY <1>5, Arrival DEF BarrierAdd, Goto
  <2> QED
    BY <1>3, <1>5, <2>1 DEF PointsOK, BarrierAdd, TypeOK
<1>6. CASE BarrierReset(t)
  BY <1>3, <1>6, SMTT(60) DEF PointsOK, BarrierReset, TypeOK
<1>7. CASE BarrierPass(t)
  <2>1. n_barrier_passed' \in Nat
    BY <1>7 DEF BarrierPass, TypeOK
  <2> QED
    BY <1>3, <1>7, <2>1 DEF PointsOK, BarrierPass, TypeOK
<1>8. CASE BarrierSpin(t)
  BY <1>3, <1>8 DEF PointsOK, BarrierSpin, TypeOK, poolVars
<1> QED
  BY <1>4, <1>5, <1>6, <1>7, <1>8

\* The steps of a thread between two barriers keep the types.
LEMMA WalkTypes ==
    ASSUME TypeOK, NEW t \in Threads,
           \/ Start(t) \/ LoopEnd(t) \/ LoopSkip(t) \/ LoopCompute(t)
           \/ Work(t) \/ Convert(t) \/ Chunk(t) \/ Claim(t) \/ NoChunk(t)
    PROVE  TypeOK'
<1> USE TypeFacts
<1>1. CASE LoopSkip(t)
  <2>1. node_n' \in [Threads -> Nat]
    BY <1>1 DEF LoopSkip, TypeOK
  <2> QED
    BY <1>1, <2>1 DEF LoopSkip, TypeOK, poolVars
<1>2. ASSUME ~LoopSkip(t)
      PROVE  \E to \in Computing : pc' = [pc EXCEPT ![t] = to]
  BY <1>2 DEF Start, LoopEnd, LoopCompute, Work, Convert, Chunk, Claim, NoChunk,
              EndNode, Goto, Computing, Busy, Barrier
<1>3. ASSUME ~LoopSkip(t)
      PROVE  PointsOK'
  BY <1>2, <1>3, Moves
<1>4. CASE Start(t)
  BY <1>3, <1>4 DEF PointsOK, Start, Goto, LoopSkip, TypeOK, poolVars
<1>5. CASE LoopEnd(t)
  <2>1. after' \in [Threads -> {"loop", "chunk", "idle", "top"}]
    BY <1>5 DEF LoopEnd, TypeOK, Home
  <2> QED
    BY <1>3, <1>5, <2>1 DEF PointsOK, LoopEnd, LoopSkip, TypeOK, poolVars
<1>6. CASE LoopCompute(t)
  BY <1>3, <1>6 DEF PointsOK, LoopCompute, LoopSkip, TypeOK, poolVars
<1>7. ASSUME NEW from, EndNode(t, from)
      PROVE  /\ after' \in [Threads -> {"loop", "chunk", "idle", "top"}]
             /\ node_n' \in [Threads -> Nat]
             /\ abort' \in Nat \cup {-1}
  BY <1>7 DEF EndNode, AskAbort, TypeOK
<1>8. ASSUME EndPhase(t)
      PROVE  ended' \in [Threads -> Nat]
  BY <1>8 DEF EndPhase, TypeOK
<1>9. CASE Work(t)
  <2>1. PointsOK'
    BY <1>3, <1>9 DEF Work, EndNode, Goto, LoopSkip
  <2> QED
    BY <1>7, <1>8, <1>9, <2>1 DEF PointsOK, Work, TypeOK
<1>10. CASE Convert(t)
  <2>1. PointsOK'
    BY <1>3, <1>10 DEF Convert, Goto, LoopSkip
  <2>2. /\ after' \in [Threads -> {"loop", "chunk", "idle", "top"}]
        /\ chunk' \in [Threads -> Nat]
    BY <1>10 DEF Convert, TypeOK, Threads
  <2>3. /\ current_chunk' \in Nat
        /\ \A c \in DOMAIN computed' : computed'[c] \in Nat
    <3>1. CASE t = 0
      <4>1. current_chunk' \in Nat
        BY <1>10, <3>1 DEF Convert, TypeOK
      <4>2. computed' = [c \in 0 .. Total(nth[t]) - 1 |-> 0]
        BY <1>10, <3>1 DEF Convert
      <4> QED
        BY <4>1, <4>2
    <3>2. CASE t # 0
      BY <1>10, <3>2 DEF Convert, TypeOK
    <3> QED
      BY <3>1, <3>2
  <2> QED
    BY <1>8, <1>10, <2>1, <2>2, <2>3 DEF PointsOK, Convert, TypeOK
<1>11. CASE Chunk(t)
  <2>1. PointsOK'
    BY <1>3, <1>11 DEF Chunk, Goto, LoopSkip
  <2>2. \A c \in DOMAIN computed' : computed'[c] \in Nat
    BY <1>11 DEF Chunk, TypeOK
  <2>3. /\ after' \in [Threads -> {"loop", "chunk", "idle", "top"}]
        /\ node_n' \in [Threads -> Nat]
        /\ abort' \in Nat \cup {-1}
        /\ ended' \in [Threads -> Nat]
    BY <1>7, <1>8, <1>11 DEF Chunk, TypeOK
  <2> QED
    BY <1>11, <2>1, <2>2, <2>3 DEF PointsOK, Chunk, TypeOK
<1>12. CASE Claim(t)
  <2>1. PointsOK'
    BY <1>3, <1>12 DEF Claim, Goto, LoopSkip
  <2>2. chunk' \in [Threads -> Nat] /\ current_chunk' \in Nat
    BY <1>12 DEF Claim, TypeOK
  <2> QED
    BY <1>12, <2>1, <2>2 DEF PointsOK, Claim, TypeOK
<1>13. CASE NoChunk(t)
  <2>1. PointsOK'
    BY <1>3, <1>13 DEF NoChunk, EndNode, Goto, LoopSkip
  <2> QED
    BY <1>7, <1>8, <1>13, <2>1 DEF PointsOK, NoChunk, TypeOK
<1> QED
  BY <1>1, <1>4, <1>5, <1>6, <1>9, <1>10, <1>11, <1>12, <1>13

\* The steps of a worker that waits for work keep the types.
LEMMA WaitTypes ==
    ASSUME TypeOK, NEW t \in Workers, Wait(t)
    PROVE  TypeOK'
<1> USE TypeFacts
<1>1. t \in Threads /\ t # 0
  BY DEF Workers
<1>2. PointsOK'
  BY <1>1 DEF Wait, Top, Check, Poll, Lock, Goto, TypeOK, PointsOK, WorkerPoints,
              Computing
<1>3. last_graph' \in [Threads -> GraphIds]
  BY <1>1 DEF Wait, Top, Check, Poll, Lock, TakeGraph, TypeOK
<1>4. UNCHANGED waitVars
  BY DEF Wait, Top, Check, Poll, Lock
<1> QED
  BY <1>2, <1>3, <1>4 DEF waitVars, poolVars, PointsOK, TypeOK

\* The steps of the caller keep the types.
LEMMA CallerTypes ==
    ASSUME TypeOK, GraphInv, GraphCompute \/ Kickoff \/ SetPause \/ Free \/ Join
    PROVE  TypeOK'
<1> USE TypeFacts
<1>1. ASSUME NEW from, NEW to \in MainPoints, Broadcast(from, to)
      PROVE  PointsOK'
  BY <1>1 DEF Broadcast, TypeOK, PointsOK, WorkerPoints, Workers
<1>2. CASE GraphCompute
  <2>1. PointsOK'
    BY <1>2 DEF GraphCompute, Goto, TypeOK, PointsOK, MainPoints, Workers
  <2>2. asked' \in 1 .. N
    BY <1>2 DEF GraphCompute, Threads
  <2>3. cgraph' \in Graphs \cup {<<>>} /\ current_chunk' \in Nat
    BY <1>2 DEF GraphCompute
  <2>5. abort' \in Nat \cup {-1}
    BY <1>2 DEF GraphCompute
  <2>4. \A c \in DOMAIN computed' : computed'[c] \in Nat
    BY <1>2 DEF GraphCompute
  <2> QED
    BY <1>2, <2>1, <2>2, <2>3, <2>4, <2>5 DEF GraphCompute, PointsOK, TypeOK
<1>3. CASE Kickoff
  <2>1. PointsOK'
    BY <1>1, <1>3 DEF Kickoff, MainPoints, Computing
  <2>2. n_graph' \in GraphIds
    BY <1>3, BoundAssumption DEF Kickoff, Broadcast, TypeOK, GraphIds, GraphInv
  <2>3. ended' \in [Threads -> Nat] /\ pause' \in BOOLEAN
    BY <1>3 DEF Kickoff
  <2> QED
    BY <1>3, <2>1, <2>2, <2>3 DEF Kickoff, PointsOK, TypeOK
<1>4. CASE SetPause
  <2>1. PointsOK'
    BY <1>1, <1>4 DEF SetPause, MainPoints
  <2> QED
    BY <1>4, <2>1 DEF SetPause, PointsOK, TypeOK
<1>5. CASE Free
  <2>1. PointsOK'
    BY <1>1, <1>5 DEF Free, MainPoints
  <2> QED
    BY <1>5, <2>1 DEF Free, PointsOK, TypeOK
<1>6. CASE Join
  <2>1. PointsOK'
    BY <1>6 DEF Join, Goto, TypeOK, PointsOK, MainPoints, Workers
  <2> QED
    BY <1>6, <2>1 DEF Join, PointsOK, TypeOK, poolVars
<1> QED
  BY <1>2, <1>3, <1>4, <1>5, <1>6

-----------------------------------------------------------------------------
(* What a step leaves alone *)

\* The state of thread u itself.
Untouched(u) ==
    /\ pc'[u] = pc[u] /\ after'[u] = after[u] /\ n_passed'[u] = n_passed[u]
    /\ nth'[u] = nth[u] /\ node_n'[u] = node_n[u]
    /\ chunk'[u] = chunk[u] /\ ended'[u] = ended[u]

\* A step of thread t within a graph is not noticed by the other threads, but
\* for the barrier, the counter of the chunks and the abort.
LEMMA ComputeFrame ==
    ASSUME TypeOK, NEW t \in Threads, Compute(t)
    PROVE  /\ UNCHANGED <<cgraph, n_graph, stop, pause, last_graph, asked>>
           /\ pc[t] \in Computing
           /\ \A u \in Threads \ {t} : Untouched(u)
<1>1. UNCHANGED <<cgraph, n_graph, stop, pause, last_graph, asked>>
  BY DEF Compute, BarrierEnter, BarrierAdd, BarrierReset, BarrierPass,
         BarrierSpin, Start, LoopEnd, LoopSkip, LoopCompute, Work, Convert,
         Chunk, Claim, NoChunk, poolVars
<1>2. pc[t] \in Computing
  BY DEF Compute, BarrierEnter, BarrierAdd, BarrierReset, BarrierPass,
         BarrierSpin, Start, LoopEnd, LoopSkip, LoopCompute, Work, Convert,
         Chunk, Claim, NoChunk, EndNode, Leave, Goto, Computing, Barrier, Busy
<1>3. ASSUME NEW u \in Threads \ {t}
      PROVE  Untouched(u)
  <2> USE DEF TypeOK, Untouched
  <2>1. CASE BarrierEnter(t) \/ BarrierAdd(t) \/ BarrierReset(t)
                \/ BarrierPass(t) \/ BarrierSpin(t)
    BY <2>1 DEF BarrierEnter, BarrierAdd, BarrierReset, BarrierPass, BarrierSpin,
                Leave, Goto
  <2>2. CASE Start(t) \/ LoopEnd(t) \/ LoopSkip(t) \/ LoopCompute(t)
    BY <2>2 DEF Start, LoopEnd, LoopSkip, LoopCompute, Goto
  <2>3. CASE Work(t) \/ Convert(t)
    BY <2>3 DEF Work, Convert, EndNode, EndPhase, Goto
  <2>4. CASE Chunk(t) \/ Claim(t) \/ NoChunk(t)
    BY <2>4 DEF Chunk, Claim, NoChunk, EndNode, EndPhase, Goto
  <2> QED
    BY <2>1, <2>2, <2>3, <2>4 DEF Compute
<1> QED
  BY <1>1, <1>2, <1>3

\* Only the last thread in the barrier moves the count of barriers, forwards.
LEMMA BarrierCount ==
    ASSUME TypeOK, NEW t \in Threads, Compute(t)
    PROVE  \/ BarrierPass(t) /\ n_barrier_passed' = n_barrier_passed + 1
           \/ ~BarrierPass(t) /\ n_barrier_passed' = n_barrier_passed
BY DEF Compute, BarrierEnter, BarrierAdd, BarrierReset, BarrierPass,
       BarrierSpin, Start, LoopEnd, LoopSkip, LoopCompute, Work, Convert,
       Chunk, Claim, NoChunk, EndNode, Leave, Goto, poolVars

\* Between two graphs the threads are at home.
LEMMA CallerHome ==
    ASSUME TypeOK, LevelInv, pc[0] \notin Computing
    PROVE  \E e \in Nat : HomeLevel(e)
<1>1. ASSUME NEW e \in Nat, NEW m \in Nat, LoopLevel(e, m) \/ ChunkLevel(e, m)
      PROVE  FALSE
  <2>1. 0 \in Participants
    BY <1>1, TypeFacts DEF LoopLevel, ChunkLevel, Participants
  <2>2. OnLoopLevel(0, e, m) \/ OnChunkLevel(0, e, m)
    BY <1>1, <2>1 DEF LoopLevel, ChunkLevel
  <2> QED
    BY <2>2 DEF OnLoopLevel, OnChunkLevel, Fresh, InLoop, InNode, Done, Converted,
                NoPhase, Claiming, Joined, At, Held, Released, Computing, Busy,
                Barrier
<1> QED
  BY <1>1 DEF LevelInv

-----------------------------------------------------------------------------
(* The graph a thread works for *)

\* A thread that was outside stays outside in a step of another thread.
LEMMA StaysOut ==
    ASSUME NEW u \in Threads, Out(u), pc'[u] = pc[u], after'[u] = after[u],
           n_passed'[u] = n_passed[u], n_barrier_passed \in Nat, n_passed[u] \in Nat,
           n_barrier_passed' \in {n_barrier_passed, n_barrier_passed + 1}
    PROVE  Out(u)'
BY DEF Out, Released, Home

\* A thread that computes goes on computing, or goes home.
LEMMA ComputeGoes ==
    ASSUME TypeOK, GraphInv, NEW t \in Threads, Compute(t)
    PROVE  /\ pc'[t] \in Computing \cup {Home(t)}
           /\ after'[t] \in {"loop", "chunk", Home(t)}
           /\ n_passed'[t] \in {n_passed[t], n_barrier_passed}
<1>1. after[t] \in {"loop", "chunk", Home(t)}
  BY DEF GraphInv
<1> USE <1>1 DEF TypeOK, Computing, Barrier, Busy
<1>2. CASE BarrierEnter(t) \/ BarrierAdd(t) \/ BarrierReset(t)
              \/ BarrierPass(t) \/ BarrierSpin(t)
  BY <1>2 DEF BarrierEnter, BarrierAdd, BarrierReset, BarrierPass, BarrierSpin,
              Leave, Goto
<1>3. CASE Start(t) \/ LoopEnd(t) \/ LoopSkip(t) \/ LoopCompute(t)
  BY <1>3 DEF Start, LoopEnd, LoopSkip, LoopCompute, Goto
<1>4. CASE Work(t) \/ Convert(t)
  BY <1>4 DEF Work, Convert, EndNode, Goto
<1>5. CASE Chunk(t) \/ Claim(t) \/ NoChunk(t)
  BY <1>5 DEF Chunk, Claim, NoChunk, EndNode, Goto
<1> QED
  BY <1>2, <1>3, <1>4, <1>5 DEF Compute

\* A step within a graph of a thread that is outside is its way home.
LEMMA OutGoesHome ==
    ASSUME TypeOK, NEW t \in Threads, Compute(t), Out(t)
    PROVE  BarrierSpin(t) /\ pc'[t] = Home(t) /\ Released(t)
<1>1. pc[t] = "spin" /\ after[t] = Home(t) /\ Released(t)
  BY ComputeFrame DEF Out, Released
<1>2. BarrierSpin(t)
  BY <1>1 DEF Compute, BarrierEnter, BarrierAdd, BarrierReset, BarrierPass,
       Start, LoopEnd, LoopSkip, LoopCompute, Work, Convert, Chunk, Claim,
       NoChunk, EndNode, Leave, Goto
<1> QED
  BY <1>1, <1>2 DEF BarrierSpin, Leave, Goto, TypeOK

\* The steps of a thread within a graph keep GraphInv.
LEMMA ComputeGraph ==
    ASSUME IInv, NEW t \in Threads, Compute(t)
    PROVE  GraphInv'
<1> USE TypeFacts DEF IInv
<1>1. UNCHANGED <<n_graph, last_graph>> /\ pc[t] \in Computing
  BY ComputeFrame
<1>2. pc'[0] = "kickoff" => n_graph'.count < MaxGraphs
  BY <1>1, ComputeFrame, ComputeGoes
     DEF GraphInv, Untouched, Home, Computing, Busy, Barrier
<1>3. pc'[0] \in Computing => (NThreads > 0)'
  BY <1>1, ComputeFrame, ComputeGoes DEF GraphInv, Untouched, NThreads
<1>4. \A u \in Workers : (last_graph[u] = n_graph \/ last_graph[u].count < n_graph.count)'
  BY <1>1 DEF GraphInv
<1>5. ASSUME NEW u \in Threads \ Participants', u # 0
      PROVE  Out(u)'
  <2>1. Out(u)
    BY <1>1, <1>5 DEF GraphInv, Participants, NThreads
  <2>2. CASE u = t
    BY <2>1, <2>2, OutGoesHome DEF Out, Home, Computing, Busy, Barrier
  <2>3. CASE u # t
    BY <2>1, <2>3, ComputeFrame, BarrierCount, StaysOut DEF Untouched, TypeOK
  <2> QED
    BY <2>2, <2>3
<1>6. ASSUME NEW u \in Threads
      PROVE  (after[u] \in {"loop", "chunk", Home(u)})'
  BY ComputeFrame, ComputeGoes DEF GraphInv, Untouched, Home
<1> QED
  BY <1>2, <1>3, <1>4, <1>5, <1>6 DEF GraphInv

\* What a step of a worker that waits for work does.
LEMMA WaitFrame ==
    ASSUME TypeOK, NEW t \in Workers, Wait(t)
    PROVE  /\ UNCHANGED waitVars
           /\ pc[t] \notin Computing /\ t \in Threads /\ t # 0
           /\ \A u \in Threads \ {t} :
                 pc'[u] = pc[u] /\ last_graph'[u] = last_graph[u]
           /\ \/ pc'[t] \notin Computing
              \/ pc'[t] = "start" /\ t \in Participants /\ ~Joined(t) /\ Joined(t)'
           /\ last_graph'[t] \in {last_graph[t], n_graph}
           /\ t \in Participants /\ ~Joined(t) /\ Joined(t)' => pc'[t] = "start"
<1>1. t \in Threads /\ t # 0
  BY DEF Workers
<1>2. UNCHANGED waitVars /\ pc[t] \notin Computing
  BY DEF Wait, Top, Check, Poll, Lock, Goto, Computing, Busy, Barrier
<1>3. \A u \in Threads \ {t} : pc'[u] = pc[u] /\ last_graph'[u] = last_graph[u]
  BY <1>1 DEF Wait, Top, Check, Poll, Lock, Goto, TakeGraph, TypeOK
<1>4. CASE Top(t) \/ Check(t)
  BY <1>1, <1>2, <1>3, <1>4
     DEF Top, Check, Goto, TypeOK, Computing, Busy, Barrier, Joined, waitVars, poolVars
<1>5. CASE Poll(t) \/ Lock(t)
  <2>1. UNCHANGED n_graph /\ NThreads \in Nat /\ t \in Nat
    BY <1>1, <1>2, TypeFacts DEF waitVars, poolVars, Threads
  <2>2. Pending(t) => t \in Participants /\ ~Joined(t) /\ Joined(t)'
    BY <1>1, <1>5, <2>1
       DEF Poll, Lock, Pending, IsNew, TakeGraph, Participants, Joined, TypeOK
  <2>3. last_graph'[t] = IF IsNew(t) THEN n_graph ELSE last_graph[t]
    BY <1>1, <1>5 DEF Poll, Lock, TakeGraph, TypeOK
  <2>4. IF Pending(t) THEN pc'[t] = "start" ELSE pc'[t] \in {"lock", "top", "asleep"}
    BY <1>1, <1>5 DEF Poll, Lock, Goto, TypeOK
  <2>5. t \in Participants /\ ~Joined(t) /\ Joined(t)' => Pending(t)
    BY <1>1, <2>1, <2>3 DEF Joined, Pending, Participants, IsNew
  <2> QED
    BY <1>1, <1>2, <1>3, <2>2, <2>3, <2>4, <2>5 DEF Computing, Busy, Barrier
<1> QED
  BY <1>4, <1>5 DEF Wait

\* A worker takes the current graph or keeps the one it had.
LEMMA WaitGraph ==
    ASSUME IInv, NEW t \in Workers, Wait(t)
    PROVE  GraphInv'
<1> USE TypeFacts DEF IInv
<1>1. UNCHANGED <<n_graph, after, n_passed, n_barrier_passed>>
  BY WaitFrame DEF waitVars, poolVars
<1>2. pc'[0] = pc[0]
  BY WaitFrame
<1>3. (/\ pc[0] = "kickoff" => n_graph.count < MaxGraphs
       /\ pc[0] \in Computing => NThreads > 0)'
  BY <1>1, <1>2 DEF GraphInv, NThreads
<1>4. \A u \in Workers : (last_graph[u] = n_graph \/ last_graph[u].count < n_graph.count)'
  BY <1>1, WaitFrame DEF GraphInv, Workers
<1>5. ASSUME NEW u \in Threads \ Participants', u # 0
      PROVE  Out(u)'
  <2>1. Out(u) /\ u \notin Participants
    BY <1>1, <1>5 DEF GraphInv, Participants, NThreads
  <2> QED
    BY <1>1, <2>1, WaitFrame DEF Out, Released, Home
<1>6. ASSUME NEW u \in Threads
      PROVE  (after[u] \in {"loop", "chunk", Home(u)})'
  BY <1>1 DEF GraphInv, Home
<1> QED
  BY <1>3, <1>4, <1>5, <1>6 DEF GraphInv

\* What a step of the caller outside a graph does.
LEMMA CallerFrame ==
    ASSUME TypeOK, GraphCompute \/ Kickoff \/ SetPause \/ Free \/ Join
    PROVE  /\ pc[0] \notin Computing
           /\ UNCHANGED <<n_barrier, n_barrier_passed, last_graph, nth, node_n,
                          chunk, n_passed, after>>
           /\ \A u \in Workers : \/ pc'[u] = pc[u]
                                 \/ pc[u] = "asleep" /\ pc'[u] = "lock"
                                 \/ pc[u] = "paused" /\ pc'[u] = "top"
           /\ IF Kickoff
              THEN pc'[0] = "start"
              ELSE pc'[0] \notin Computing /\ UNCHANGED <<n_graph, ended>>
<1>1. Workers = Threads \ {0} /\ 0 \in Threads
  BY TypeFacts DEF Workers
<1>2. ASSUME NEW from, NEW to, Broadcast(from, to)
      PROVE  /\ \A u \in Workers : \/ pc'[u] = pc[u]
                                   \/ pc[u] = "asleep" /\ pc'[u] = "lock"
                                   \/ pc[u] = "paused" /\ pc'[u] = "top"
             /\ pc[0] = from /\ pc'[0] = to
  BY <1>1, <1>2 DEF Broadcast
<1>3. CASE Kickoff
  BY <1>2, <1>3 DEF Kickoff, Computing, Busy, Barrier
<1>4. CASE ~Kickoff /\ (GraphCompute \/ Join)
  BY <1>1, <1>4 DEF GraphCompute, Join, Goto, TypeOK, Computing, Busy, Barrier, poolVars
<1>5. CASE ~Kickoff /\ (SetPause \/ Free)
  BY <1>2, <1>5 DEF SetPause, Free, Computing, Busy, Barrier
<1> QED
  BY <1>3, <1>4, <1>5

\* A kickoff makes a graph that no worker has seen.
LEMMA CallerGraph ==
    ASSUME IInv, GraphCompute \/ Kickoff \/ SetPause \/ Free \/ Join
    PROVE  GraphInv'
<1> USE TypeFacts DEF IInv
<1>1. \A u \in Workers : Out(u)
  BY CallerFrame, CallerHome DEF HomeLevel, GraphInv, Workers
<1>2. \A u \in Workers : Out(u)'
  BY <1>1, CallerFrame DEF Out, Released, Home, Computing, Busy, Barrier, Workers
<1>3. \A u \in Threads : (after[u] \in {"loop", "chunk", Home(u)})'
  BY CallerFrame DEF GraphInv, Home
<1>4. CASE Kickoff
  <2>1. n_graph' = [count |-> n_graph.count + 1, threads |-> asked] /\ pc'[0] = "start"
    BY <1>4, CallerFrame DEF Kickoff
  <2>2. (NThreads > 0)'
    BY <2>1 DEF TypeOK, NThreads
  <2>3. \A u \in Workers : last_graph'[u].count < n_graph'.count
    <3>1. ASSUME NEW u \in Workers
          PROVE  last_graph[u].count \in Nat /\ last_graph[u].count <= n_graph.count
      <4>1. last_graph[u] \in GraphIds /\ n_graph \in GraphIds
        BY DEF TypeOK, Workers
      <4>2. last_graph[u] = n_graph \/ last_graph[u].count < n_graph.count
        BY DEF GraphInv
      <4>3. \A g \in GraphIds : g.count \in Nat
        BY BoundAssumption DEF GraphIds
      <4> HIDE DEF IInv
      <4> QED
        BY <4>1, <4>2, <4>3
    <3>2. n_graph.count \in Nat
      BY BoundAssumption DEF TypeOK, GraphIds
    <3> QED
      BY <2>1, <3>1, <3>2, CallerFrame
  <2> QED
    BY <1>2, <1>3, <2>1, <2>2, <2>3 DEF GraphInv, Workers
<1>5. CASE ~Kickoff
  <2>1. UNCHANGED <<n_graph, last_graph>> /\ pc'[0] \notin Computing
    BY <1>5, CallerFrame
  <2>2. pc'[0] = "kickoff" => n_graph'.count < MaxGraphs
    BY <1>5, <2>1 DEF GraphCompute, SetPause, Free, Join, Broadcast, Goto, TypeOK
  <2> QED
    BY <1>2, <1>3, <2>1, <2>2 DEF GraphInv, Workers
<1> QED
  BY <1>4, <1>5

-----------------------------------------------------------------------------
(* The barrier *)

\* The numbers a barrier compares.
LEMMA PassedTypes ==
    ASSUME TypeOK
    PROVE  n_barrier_passed \in Nat /\ \A u \in Threads : n_passed[u] \in Nat
BY DEF TypeOK

\* What a participant is after a step.
LEMMA ParticipantsNext ==
    ASSUME TypeOK'
    PROVE  Participants' \subseteq Threads /\ NThreads' \in 0 .. N
<1>1. NThreads' \in 0 .. N
  BY DEF TypeOK, GraphIds, NThreads
<1>2. Participants' = 0 .. NThreads' - 1
  BY DEF Participants
<1>3. ASSUME NEW n \in 0 .. N
      PROVE  0 .. n - 1 \subseteq Threads
  BY ThreadsAssumption DEF Threads
<1> QED
  BY <1>1, <1>2, <1>3

\* A step that nobody in the barrier takes, except into it.
LEMMA QuietBarrier ==
    ASSUME TypeOK, BarrierInv, UNCHANGED <<n_barrier, n_barrier_passed, n_graph>>,
           \A u \in Threads :
              \/ pc'[u] = pc[u] /\ n_passed'[u] = n_passed[u]
              \/ /\ pc[u] \notin {"reset", "pass"} /\ ~Waiting(u)
                 /\ pc'[u] \notin {"reset", "pass", "spin"}
                 /\ n_passed'[u] \in {n_passed[u], n_barrier_passed}
                 /\ pc'[u] = "add" => n_passed'[u] = n_barrier_passed /\ NThreads > 1
    PROVE  BarrierInv'
<1> USE TypeFacts
<1>1. UNCHANGED <<n_barrier, n_barrier_passed, NThreads, Participants>>
  BY DEF NThreads, Participants
<1>2. \A u \in Threads : Waiting(u)' <=> Waiting(u)
  BY <1>1 DEF Waiting
<1>3. {u \in Participants : Waiting(u)}' = {u \in Participants : Waiting(u)}
  BY <1>1, <1>2
<1>4. \A u \in Threads : (n_passed[u] <= n_barrier_passed)'
  <2>1. ASSUME NEW u \in Threads
        PROVE  n_passed[u] <= n_barrier_passed /\ n_passed'[u] \in {n_passed[u], n_barrier_passed}
    BY DEF BarrierInv
  <2> QED
    BY <1>1, <2>1, PassedTypes
<1>5. \A u \in Threads : pc'[u] \in {"reset", "pass"} => pc'[u] = pc[u] /\ n_passed'[u] = n_passed[u]
  OBVIOUS
<1>6. \A u \in Threads : (pc[u] \in {"add", "reset", "pass"} =>
                             n_passed[u] = n_barrier_passed /\ NThreads > 1)'
  BY <1>1 DEF BarrierInv
<1>7. \A u \in Threads : (pc[u] \in {"reset", "pass"} =>
          /\ \A v \in Participants \ {u} : Waiting(v)
          /\ n_barrier = IF pc[u] = "reset" THEN NThreads ELSE 0)'
  BY <1>1, <1>2, <1>5 DEF BarrierInv
<1>8. (\A u \in Threads : pc'[u] \notin {"reset", "pass"}) =>
          \A u \in Threads : pc[u] \notin {"reset", "pass"}
  OBVIOUS
<1>9. ((\A u \in Threads : pc[u] \notin {"reset", "pass"}) =>
          n_barrier = Cardinality({u \in Participants : Waiting(u)}))'
  BY <1>1, <1>3, <1>8 DEF BarrierInv
<1> QED
  BY <1>1, <1>2, <1>4, <1>6, <1>7, <1>9 DEF BarrierInv

\* The thread that resets or passes the barrier is the only one to do so.
LEMMA OneLast ==
    ASSUME TypeOK, GraphInv, BarrierInv, NEW t \in Threads,
           pc[t] \in {"reset", "pass"}
    PROVE  /\ t \in Participants
           /\ \A u \in Participants \ {t} : Waiting(u)
           /\ \A u \in Threads \ {t} : pc[u] \notin {"add", "reset", "pass"}
           /\ NThreads > 1 /\ n_passed[t] = n_barrier_passed
<1>1. \A u \in Participants \ {t} : Waiting(u)
  BY DEF BarrierInv
<1>2. \A u \in Threads : pc[u] \in {"add", "reset", "pass"} => u \in Participants
  BY Inside DEF Out, Released, Computing, Barrier
<1> QED
  BY <1>1, <1>2 DEF Waiting, BarrierInv

\* A thread that arrives is counted.
LEMMA AddBarrier ==
    ASSUME TypeOK, GraphInv, BarrierInv, NEW t \in Threads, BarrierAdd(t)
    PROVE  BarrierInv'
<1> USE TypeFacts
<1>1. pc[t] = "add" /\ pc' = [pc EXCEPT ![t] = IF LastArrives THEN "reset" ELSE "spin"]
  BY DEF BarrierAdd, Goto
<1>2. UNCHANGED <<n_barrier_passed, n_passed, n_graph, NThreads, Participants>>
  BY DEF BarrierAdd, NThreads, Participants
<1>3. n_passed[t] = n_barrier_passed /\ NThreads > 1
  BY <1>1 DEF BarrierInv
<1>4. \A u \in Threads \ {t} : pc'[u] = pc[u] /\ (Waiting(u)' <=> Waiting(u))
  BY <1>1, <1>2 DEF TypeOK, Waiting
<1>5. pc'[t] = IF LastArrives THEN "reset" ELSE "spin"
  BY <1>1 DEF TypeOK
<1>6. /\ t \in Participants
      /\ \A u \in Threads : pc[u] \notin {"reset", "pass"}
      /\ IsFiniteSet(Waiters) /\ n_barrier = Cardinality(Waiters)
      /\ LastArrives => \A u \in Participants \ {t} : Waiting(u)
  BY <1>1, Arrival
<1>7. \A u \in Threads : (n_passed[u] <= n_barrier_passed)'
  BY <1>2 DEF BarrierInv
<1>8. \A u \in Threads : /\ (pc[u] \in {"add", "reset", "pass"} =>
                                n_passed[u] = n_barrier_passed /\ NThreads > 1)'
                         /\ (Waiting(u) => NThreads > 1)'
  BY <1>2, <1>3, <1>4 DEF BarrierInv
<1>9. \A u \in Threads : (pc[u] \in {"reset", "pass"} =>
          /\ \A v \in Participants \ {u} : Waiting(v)
          /\ n_barrier = IF pc[u] = "reset" THEN NThreads ELSE 0)'
  <2>1. LastArrives => n_barrier' = NThreads
    BY DEF BarrierAdd, LastArrives
  <2>2. \A u \in Threads : pc'[u] \in {"reset", "pass"} => u = t /\ LastArrives /\ pc'[u] = "reset"
    BY <1>4, <1>5, <1>6
  <2> QED
    BY <1>2, <1>4, <1>6, <2>1, <2>2
<1>10. ASSUME ~LastArrives
       PROVE  n_barrier' = Cardinality(Waiters')
  <2>1. Waiters' = Waiters \cup {t}
    BY <1>2, <1>3, <1>4, <1>5, <1>6, <1>10 DEF Waiters, Waiting
  <2>2. t \notin Waiters
    BY <1>1 DEF Waiters, Waiting
  <2> QED
    BY <1>6, <2>1, <2>2, FS_AddElement DEF BarrierAdd
<1> QED
  BY <1>5, <1>7, <1>8, <1>9, <1>10 DEF BarrierInv, Waiters

\* The last thread resets the count while all others wait.
LEMMA ResetBarrier ==
    ASSUME TypeOK, GraphInv, BarrierInv, NEW t \in Threads, BarrierReset(t)
    PROVE  BarrierInv'
<1> USE TypeFacts
<1>1. pc[t] = "reset" /\ pc' = [pc EXCEPT ![t] = "pass"] /\ n_barrier' = 0
  BY DEF BarrierReset, Goto
<1>2. UNCHANGED <<n_barrier_passed, n_passed, n_graph, NThreads, Participants>>
  BY DEF BarrierReset, NThreads, Participants
<1>3. \A u \in Threads \ {t} : pc'[u] = pc[u] /\ (Waiting(u)' <=> Waiting(u))
  BY <1>1, <1>2 DEF TypeOK, Waiting
<1>4. pc'[t] = "pass"
  BY <1>1 DEF TypeOK
<1>5. \A u \in Threads : pc'[u] \in {"add", "reset", "pass"} => u = t
  BY <1>1, <1>3, OneLast
<1>6. \A u \in Participants \ {t} : Waiting(u)'
  BY <1>1, <1>3, OneLast
<1> QED
  BY <1>1, <1>2, <1>3, <1>4, <1>5, <1>6, OneLast DEF BarrierInv, Waiting

\* When the barrier is passed nobody is left that waits in it.
LEMMA PassBarrier ==
    ASSUME TypeOK, GraphInv, BarrierInv, NEW t \in Threads, BarrierPass(t)
    PROVE  BarrierInv'
<1> USE TypeFacts
<1>1. pc[t] = "pass" /\ pc' = [pc EXCEPT ![t] = after[t]]
  BY DEF BarrierPass, Leave, Goto
<1>2. /\ UNCHANGED <<n_barrier, n_passed, n_graph>>
      /\ n_barrier_passed' = n_barrier_passed + 1
  BY DEF BarrierPass
<1>3. \A u \in Threads : (n_passed[u] <= n_barrier_passed)' /\ ~Waiting(u)'
  <2>1. \A u \in Threads : n_passed[u] <= n_barrier_passed
    BY DEF BarrierInv
  <2> QED
    BY <1>2, <2>1, PassedTypes DEF Waiting
<1>4. pc'[t] \notin {"add", "reset", "pass"}
  BY <1>1 DEF TypeOK
<1>5. \A u \in Threads \ {t} : pc'[u] = pc[u]
  BY <1>1 DEF TypeOK
<1>6. \A u \in Threads : pc'[u] \notin {"add", "reset", "pass"}
  BY <1>1, <1>4, <1>5, OneLast
<1>7. n_barrier' = 0
  BY <1>1, <1>2 DEF BarrierInv
<1>8. {u \in Participants : Waiting(u)}' = {}
  BY <1>2, <1>3 DEF Participants, NThreads
<1> QED
  BY <1>3, <1>6, <1>7, <1>8, FS_EmptySet DEF BarrierInv

\* The steps of a thread within a graph keep BarrierInv.
LEMMA ComputeBarrier ==
    ASSUME TypeOK, GraphInv, BarrierInv, NEW t \in Threads, Compute(t)
    PROVE  BarrierInv'
<1> USE TypeFacts
<1>1. CASE BarrierAdd(t) \/ BarrierReset(t) \/ BarrierPass(t)
  BY <1>1, AddBarrier, ResetBarrier, PassBarrier
<1>2. CASE ~(BarrierAdd(t) \/ BarrierReset(t) \/ BarrierPass(t))
  <2>1. UNCHANGED <<n_barrier, n_barrier_passed, n_graph>>
    BY <1>2 DEF Compute, BarrierEnter, BarrierSpin, Start, LoopEnd, LoopSkip,
                LoopCompute, Work, Convert, Chunk, Claim, NoChunk, poolVars
  <2>2. \A u \in Threads \ {t} : pc'[u] = pc[u] /\ n_passed'[u] = n_passed[u]
    BY ComputeFrame DEF Untouched
  <2>3. n_passed'[t] \in {n_passed[t], n_barrier_passed}
    BY ComputeGoes
  <2>4. CASE BarrierEnter(t)
    <3>1. after[t] \in {"loop", "chunk", Home(t)}
      BY DEF GraphInv
    <3>2. pc[t] = "enter" /\ pc'[t] = (IF NThreads = 1 THEN after[t] ELSE "add")
      BY <2>4 DEF BarrierEnter, Leave, Goto, TypeOK
    <3>3. NThreads # 1 => NThreads > 1
      <4>1. t \in Participants
        BY <3>2, Inside DEF Out, Released, Computing, Barrier
      <4> QED
        BY <4>1 DEF Participants
    <3>4. n_passed'[t] = n_barrier_passed
      BY <2>4 DEF BarrierEnter, TypeOK
    <3>5. pc[t] \notin {"reset", "pass"} /\ ~Waiting(t) /\ pc'[t] \notin {"reset", "pass", "spin"}
      BY <3>1, <3>2 DEF Waiting, Home
    <3>6. pc'[t] = "add" => NThreads > 1
      BY <3>1, <3>2, <3>3 DEF Home
    <3> QED
      BY <2>1, <2>2, <3>4, <3>5, <3>6, QuietBarrier
  <2>5. CASE BarrierSpin(t)
    <3>1. after[t] \in {"loop", "chunk", Home(t)}
      BY DEF GraphInv
    <3>2. pc[t] = "spin" /\ ~Waiting(t) /\ pc'[t] = after[t]
      BY <2>5 DEF BarrierSpin, Leave, Goto, TypeOK, Waiting
    <3> QED
      BY <2>1, <2>2, <2>3, <3>1, <3>2, QuietBarrier DEF Home
  <2>6. CASE ~BarrierEnter(t) /\ ~BarrierSpin(t)
    <3>1. /\ pc[t] \notin {"add", "reset", "pass", "spin"}
          /\ pc'[t] \notin {"add", "reset", "pass", "spin"}
      BY <1>2, <2>6
         DEF Compute, Start, LoopEnd, LoopSkip, LoopCompute, Work, Convert,
             Chunk, Claim, NoChunk, EndNode, Goto, TypeOK
    <3> QED
      BY <2>1, <2>2, <2>3, <3>1, QuietBarrier DEF Waiting
  <2> QED
    BY <2>4, <2>5, <2>6
<1> QED
  BY <1>1, <1>2

\* A worker that waits for work is not in the barrier.
LEMMA WaitBarrier ==
    ASSUME TypeOK, BarrierInv, NEW t \in Workers, Wait(t)
    PROVE  BarrierInv'
<1>1. UNCHANGED <<n_barrier, n_barrier_passed, n_graph, n_passed>>
  BY WaitFrame DEF waitVars, poolVars
<1>2. \A u \in Threads \ {t} : pc'[u] = pc[u]
  BY WaitFrame
<1>3. /\ pc[t] \notin {"reset", "pass"} /\ ~Waiting(t)
      /\ pc'[t] \notin {"add", "reset", "pass", "spin"}
  BY WaitFrame DEF Waiting, Computing, Barrier, Busy
<1> QED
  BY <1>1, <1>2, <1>3, QuietBarrier

\* Nobody is in the barrier between two graphs.
LEMMA CallerBarrier ==
    ASSUME IInv, GraphCompute \/ Kickoff \/ SetPause \/ Free \/ Join
    PROVE  BarrierInv'
<1> USE TypeFacts DEF IInv
<1>1. \A u \in Threads : Out(u)
  BY CallerFrame, CallerHome DEF HomeLevel, GraphInv, Workers
<1>2. \A u \in Threads : pc[u] \notin {"add", "reset", "pass"} /\ ~Waiting(u)
  BY <1>1, PassedTypes DEF Out, Released, Waiting, Computing, Barrier, Busy
<1>3. \A u \in Threads : /\ pc'[u] \notin {"add", "reset", "pass"}
                         /\ pc'[u] = "spin" => pc[u] = "spin"
  BY <1>2, CallerFrame DEF Workers, Computing, Barrier, Busy
<1>4. UNCHANGED <<n_barrier, n_barrier_passed, n_passed>>
  BY CallerFrame
<1>5. \A u \in Threads : ~Waiting(u)'
  BY <1>2, <1>3, <1>4 DEF Waiting
<1>6. n_barrier = 0
  <2>1. {u \in Participants : Waiting(u)} = {}
    BY <1>2
  <2> QED
    BY <1>2, <2>1, FS_EmptySet DEF BarrierInv
<1>7. {u \in Participants : Waiting(u)}' = {}
  <2>1. Participants' \subseteq Threads
    BY CallerTypes, ParticipantsNext
  <2> QED
    BY <1>5, <2>1
<1> QED
  BY <1>3, <1>4, <1>5, <1>6, <1>7, FS_EmptySet DEF BarrierInv

-----------------------------------------------------------------------------
(* Levels *)

\* From every node the threads skip to a node at which they stop.
LEMMA StopsSomewhere ==
    ASSUME TypeOK, NEW j \in 0 .. Len(cgraph)
    PROVE  \E m \in Nat : /\ m <= Len(cgraph) /\ Leads(j, m)
                          /\ Going(m) => OpAt(m) # "empty"
<1> USE TypeFacts
<1> DEFINE S == {i \in j .. Len(cgraph) : ~(Going(i) /\ OpAt(i) = "empty")}
<1>1. ~Going(Len(cgraph))
  BY DEF Going
<1>2. Len(cgraph) \in S /\ S \in SUBSET Nat
  BY <1>1
<1>3. PICK m \in S : \A i \in S : m <= i
  BY <1>2, LeastNumber
<1>4. m \in j .. Len(cgraph) /\ ~(Going(m) /\ OpAt(m) = "empty")
  OBVIOUS
<1>5. \A i \in j .. m - 1 : i \in j .. Len(cgraph) /\ ~(m <= i)
  BY <1>4
<1>6. \A i \in j .. m - 1 : Going(i) /\ OpAt(i) = "empty"
  BY <1>3, <1>5
<1> QED
  BY <1>4, <1>6 DEF Leads

\* The steps of another thread leave a thread where it is on its level, the
\* abort of a graph included.
LEMMA LevelKept ==
    ASSUME TypeOK, NEW e \in Nat, NEW m \in Nat, NEW u \in Threads, Untouched(u),
           UNCHANGED <<cgraph, n_graph, n_barrier_passed>>,
           last_graph'[u] = last_graph[u],
           abort' = abort \/ (Going(m) /\ abort' = m + 1)
    PROVE  /\ Going(m)' <=> Going(m)
           /\ OnLoopLevel(u, e, m) => OnLoopLevel(u, e, m)'
           /\ Converted(u, e, m)' <=> Converted(u, e, m)
           /\ OnChunkLevel(u, e, m) => OnChunkLevel(u, e, m)'
           /\ Holds(u)' <=> Holds(u)
<1> USE TypeFacts
<1>1. Going(m)' <=> Going(m)
  BY DEF Going
<1>2. \A j \in Nat : Leads(j, m) => Leads(j, m)'
  <2>1. ASSUME NEW j \in Nat, NEW i \in j .. m - 1, Going(i)
        PROVE  Going(i)'
    BY <2>1 DEF Going
  <2> QED
    BY <2>1 DEF Leads, OpAt
<1>3. /\ Joined(u)' <=> Joined(u)
      /\ Out(u)' <=> Out(u)
      /\ Held(u)' <=> Held(u)
      /\ \A place : At(u, place)' <=> At(u, place)
      /\ NThreads' = NThreads /\ OpAt(m)' = OpAt(m)
  BY DEF Untouched, Joined, Out, Held, At, Released, NThreads, OpAt, Home
<1>4. Fresh(u, e, m) => Fresh(u, e, m)'
  BY <1>2, <1>3 DEF Fresh, Untouched
<1>5. InLoop(u, e, m) => InLoop(u, e, m)'
  BY <1>2, <1>3 DEF InLoop, Untouched, TypeOK
<1>6. InNode(u, e, m) => InNode(u, e, m)'
  BY <1>1, <1>3 DEF InNode, Untouched
<1>7. Done(u, e, m) => Done(u, e, m)'
  BY <1>1, <1>3 DEF Done, Untouched, Home
<1>8. Converted(u, e, m)' <=> Converted(u, e, m)
  BY <1>1, <1>3 DEF Converted, Untouched
<1>9. NoPhase(u, e, m) => NoPhase(u, e, m)'
  BY <1>1, <1>3 DEF NoPhase, Untouched, Home
<1>10. Claiming(u, e, m) => Claiming(u, e, m)'
  BY <1>3 DEF Claiming, Untouched
<1> QED
  BY <1>1, <1>3, <1>4, <1>5, <1>6, <1>7, <1>8, <1>9, <1>10
     DEF OnLoopLevel, OnChunkLevel, Holds

\* A step on a loop level keeps the level, if it keeps the thread that takes it
\* on the level and does not touch the chunks.
LEMMA LoopKept ==
    ASSUME TypeOK, NEW e \in Nat, NEW m \in Nat, NEW t \in Threads,
           LoopLevel(e, m), UNCHANGED <<cgraph, n_graph, n_barrier_passed>>,
           \A u \in Threads \ {t} : Untouched(u) /\ last_graph'[u] = last_graph[u],
           abort' = abort \/ (Going(m) /\ abort' = m + 1),
           t \in Participants => OnLoopLevel(t, e, m)',
           UNCHANGED <<computed, current_chunk>>,
           t = 0 => (Converted(0, e, m)' <=> Converted(0, e, m))
    PROVE  LoopLevel(e, m)'
<1> USE TypeFacts
<1>1. UNCHANGED <<NThreads, Participants, Chunks>> /\ 0 \in Participants
  BY DEF NThreads, Participants, Chunks, LoopLevel
<1>2. \A u \in Participants \ {t} : OnLoopLevel(u, e, m)'
  BY LevelKept DEF LoopLevel
<1>3. Converted(0, e, m)' <=> Converted(0, e, m)
  BY LevelKept
<1>4. (m <= Len(cgraph) /\ (Going(m) => OpAt(m) # "empty"))'
  BY DEF LoopLevel, Going, OpAt
<1>5. Prepared(e, m)'
  BY <1>1, <1>3 DEF LoopLevel, Prepared, AllOnce
<1> QED
  BY <1>1, <1>2, <1>4, <1>5 DEF LoopLevel

\* A thread that is held in the barrier stays on its level while it is.
LEMMA HeldKept ==
    ASSUME TypeOK, NEW e \in Nat, NEW m \in Nat, NEW t \in Threads,
           Held(t), Held(t)', pc'[t] \in Barrier,
           UNCHANGED <<cgraph, n_graph, abort, last_graph, nth, node_n, chunk,
                       after, ended>>
    PROVE  /\ OnLoopLevel(t, e, m) => OnLoopLevel(t, e, m)'
           /\ OnChunkLevel(t, e, m) => OnChunkLevel(t, e, m)' /\ ~Holds(t) /\ ~Holds(t)'
           /\ Converted(t, e, m)' <=> Converted(t, e, m)
<1>1. pc[t] \in Barrier /\ ~Released(t) /\ ~Released(t)'
  BY DEF Held
<1>2. ~Fresh(t, e, m) /\ ~InLoop(t, e, m) /\ ~InNode(t, e, m) /\ ~Claiming(t, e, m)
  BY <1>1 DEF Fresh, InLoop, InNode, Claiming, Out, At, Barrier, Computing
<1>3. /\ Joined(t)' <=> Joined(t)
      /\ Going(m)' <=> Going(m)
      /\ NThreads' = NThreads /\ OpAt(m)' = OpAt(m)
  BY DEF Joined, Going, NThreads, OpAt
<1>4. ~Holds(t) /\ ~Holds(t)' /\ pc[t] # "loop"
  BY <1>1 DEF Holds, At, Barrier
<1>5. Converted(t, e, m)' <=> Converted(t, e, m)
  BY <1>3 DEF Converted
<1>6. Done(t, e, m) => Done(t, e, m)'
  BY <1>3, <1>4 DEF Done, Home
<1>7. NoPhase(t, e, m) => NoPhase(t, e, m)'
  BY <1>3 DEF NoPhase, Home
<1> QED
  BY <1>2, <1>3, <1>4, <1>5, <1>6, <1>7 DEF OnLoopLevel, OnChunkLevel

\* The steps within the barrier that do not end it.
InBarrier(t) ==
    \/ BarrierEnter(t) /\ NThreads > 1
    \/ BarrierAdd(t)
    \/ BarrierReset(t)

\* These steps keep the thread in the barrier.
LEMMA InBarrierHeld ==
    ASSUME TypeOK, GraphInv, BarrierInv, NEW t \in Threads, InBarrier(t)
    PROVE  /\ Held(t) /\ Held(t)' /\ pc'[t] \in Barrier
           /\ UNCHANGED <<cgraph, n_graph, abort, last_graph, nth, node_n, chunk,
                          after, ended, n_barrier_passed, current_chunk, computed>>
<1>1. UNCHANGED <<cgraph, n_graph, abort, last_graph, nth, node_n, chunk,
                  after, ended, n_barrier_passed, current_chunk, computed>>
  BY DEF InBarrier, BarrierEnter, BarrierAdd, BarrierReset, poolVars
<1>2. CASE BarrierEnter(t) /\ NThreads > 1
  <2>1. NThreads # 1
    BY <1>2, TypeFacts
  <2> QED
    BY <1>1, <1>2, <2>1 DEF BarrierEnter, Goto, TypeOK, Held, Released, Barrier
<1>3. CASE BarrierAdd(t)
  <2>1. n_passed[t] = n_barrier_passed
    BY <1>3 DEF BarrierAdd, Goto, BarrierInv
  <2>2. pc[t] = "add" /\ pc'[t] \in {"reset", "spin"} /\ UNCHANGED <<n_passed, n_barrier_passed>>
    BY <1>3 DEF BarrierAdd, Goto, TypeOK
  <2> QED
    BY <1>1, <2>1, <2>2, PassedTypes DEF Held, Released, Barrier
<1>4. CASE BarrierReset(t)
  BY <1>1, <1>4 DEF BarrierReset, Goto, TypeOK, Held, Released, Barrier
<1> QED
  BY <1>2, <1>3, <1>4 DEF InBarrier

\* The steps of a thread between two barriers, on a loop level.
LEMMA WalkOnLoop ==
    ASSUME IInv, NEW e \in Nat, NEW m \in Nat, LoopLevel(e, m),
           NEW t \in Participants, OnLoopLevel(t, e, m),
           Start(t) \/ LoopEnd(t) \/ LoopSkip(t) \/ LoopCompute(t)
    PROVE  /\ OnLoopLevel(t, e, m)'
           /\ UNCHANGED <<cgraph, n_graph, n_barrier_passed, abort, computed,
                          current_chunk>>
           /\ ~Converted(t, e, m) /\ ~Converted(t, e, m)'
<1> USE TypeFacts DEF IInv
<1>1. t \in Threads /\ node_n[t] \in Nat
  <2>1. t \in Threads
    OBVIOUS
  <2> QED
    BY <2>1 DEF TypeOK
<1>2. UNCHANGED <<cgraph, n_graph, n_barrier_passed, abort, computed,
                  current_chunk, last_graph, n_passed, ended, chunk>>
  BY DEF Start, LoopEnd, LoopSkip, LoopCompute, poolVars
<1>3. /\ Joined(t)' <=> Joined(t)
      /\ Going(m)' <=> Going(m)
      /\ NThreads' = NThreads /\ OpAt(m)' = OpAt(m)
      /\ \A j \in Nat : Leads(j, m)' <=> Leads(j, m)
  BY <1>2 DEF Joined, Going, NThreads, OpAt, Leads
<1>4. CASE Start(t)
  <2>1. /\ pc[t] = "start" /\ pc'[t] = "loop" /\ node_n'[t] = 0
        /\ nth'[t] = NThreads
    BY <1>1, <1>4 DEF Start, Goto, TypeOK
  <2>2. Fresh(t, e, m) /\ Joined(t)
    BY <2>1 DEF OnLoopLevel, Fresh, InLoop, InNode, Done, Converted, NoPhase,
                At, Released, Held, Barrier, Out, Computing
  <2>3. InLoop(t, e, m)'
    BY <1>2, <1>3, <2>1, <2>2 DEF InLoop, Fresh, At
  <2> QED
    BY <1>2, <2>1, <2>3 DEF OnLoopLevel, Converted, Held, Barrier
<1>5. ASSUME pc[t] = "loop"
      PROVE  InLoop(t, e, m) \/ (Done(t, e, m) /\ OpAt(m) = "plain" /\ ~Going(node_n[t]))
  <2>1. ~Fresh(t, e, m) /\ ~InNode(t, e, m) /\ ~Held(t)
    BY <1>5 DEF Fresh, InNode, Out, Released, Held, Barrier, Computing
  <2>2. ~Converted(t, e, m) /\ ~NoPhase(t, e, m)
    BY <2>1 DEF Converted, NoPhase
  <2>3. Done(t, e, m) => ~Going(node_n[t])
    BY <2>1 DEF Done, Going
  <2> QED
    BY <2>1, <2>2, <2>3 DEF OnLoopLevel
<1>6. More(t) <=> Going(node_n[t])
  BY DEF More, Going
<1>7. CASE LoopEnd(t)
  <2>1. pc[t] = "loop" /\ pc'[t] = "enter" /\ after'[t] = Home(t) /\ ~Going(node_n[t])
        /\ UNCHANGED <<node_n, nth>>
    BY <1>1, <1>6, <1>7 DEF LoopEnd, Goto, TypeOK
  <2>2. Held(t)' /\ ~Held(t) /\ Home(t)' = Home(t) /\ Home(t) # "chunk"
    BY <2>1 DEF Held, Barrier, Released, Home
  <2>3. CASE InLoop(t, e, m)
    <3>1. node_n[t] = m
      BY <1>1, <2>1, <2>3 DEF InLoop, Leads
    <3>2. NoPhase(t, e, m)'
      BY <1>2, <1>3, <2>1, <2>2, <2>3, <3>1 DEF NoPhase, InLoop
    <3> QED
      BY <1>2, <2>1, <2>2, <3>2 DEF OnLoopLevel, Converted
  <2>4. CASE Done(t, e, m) /\ OpAt(m) = "plain"
    <3>1. Done(t, e, m)'
      BY <1>2, <1>3, <2>1, <2>2, <2>4 DEF Done
    <3> QED
      BY <1>2, <1>3, <2>1, <2>2, <2>4, <3>1 DEF OnLoopLevel, Converted
  <2> QED
    BY <1>5, <2>1, <2>3, <2>4
<1>8. CASE LoopSkip(t)
  <2>1. /\ pc[t] = "loop" /\ pc'[t] = "loop" /\ node_n'[t] = node_n[t] + 1
        /\ UNCHANGED nth /\ Going(node_n[t]) /\ OpAt(node_n[t]) = "empty"
    BY <1>1, <1>6, <1>8 DEF LoopSkip, TypeOK, Op, OpAt
  <2>2. InLoop(t, e, m)
    BY <1>5, <2>1
  <2>3. node_n[t] # m
    BY <2>1 DEF LoopLevel
  <2>4. Leads(node_n[t] + 1, m)
    BY <1>1, <2>2, <2>3 DEF Leads, InLoop
  <2>5. InLoop(t, e, m)'
    BY <1>1, <1>2, <1>3, <2>1, <2>2, <2>4 DEF InLoop, At
  <2> QED
    BY <1>2, <2>1, <2>5 DEF OnLoopLevel, Converted, Held, Barrier
<1>9. CASE LoopCompute(t)
  <2>1. /\ pc[t] = "loop" /\ Going(node_n[t]) /\ OpAt(node_n[t]) # "empty"
        /\ UNCHANGED <<node_n, nth>>
        /\ pc'[t] = IF OpAt(node_n[t]) = "plain" THEN "work" ELSE "convert"
    BY <1>1, <1>6, <1>9 DEF LoopCompute, Goto, TypeOK, Op, OpAt
  <2>2. InLoop(t, e, m)
    BY <1>5, <2>1
  <2>3. node_n[t] = m
    BY <1>1, <2>1, <2>2 DEF Leads, InLoop
  <2>4. InNode(t, e, m)'
    BY <1>2, <1>3, <2>1, <2>2, <2>3 DEF InNode, InLoop
  <2> QED
    BY <1>2, <2>1, <2>4 DEF OnLoopLevel, Converted, Held, Barrier
<1> QED
  BY <1>4, <1>7, <1>8, <1>9

\* Where a thread at a given program point of a phase is on a loop level.
LEMMA PhaseOnLoop ==
    ASSUME TypeOK, NEW e \in Nat, NEW m \in Nat, NEW t \in Threads,
           OnLoopLevel(t, e, m), pc[t] \in Busy
    PROVE  InNode(t, e, m) /\ pc[t] \in {"work", "convert"}
<1>1. ~Released(t) /\ ~Held(t) /\ ~Out(t) /\ pc[t] \notin {"start", "loop"}
  BY DEF Released, Held, Out, Busy, Barrier, Computing
<1>2. ~Fresh(t, e, m) /\ ~InLoop(t, e, m) /\ ~Done(t, e, m) /\ ~Converted(t, e, m)
         /\ ~NoPhase(t, e, m)
  BY <1>1 DEF Fresh, InLoop, At, Done, Converted, NoPhase
<1> QED
  BY <1>2 DEF OnLoopLevel, InNode

\* The end of a node, in a step of a thread that is at node m.
LEMMA NodeEnds ==
    ASSUME TypeOK, NEW e \in Nat, NEW m \in Nat, NEW t \in Threads, NEW from,
           EndNode(t, from), EndPhase(t), UNCHANGED <<cgraph, n_graph, last_graph, nth>>,
           Joined(t), nth[t] = NThreads, Going(m), ended[t] = e, node_n[t] = m
    PROVE  /\ Done(t, e, m)'
           /\ abort' = abort \/ abort' = m + 1
           /\ pc[t] = from /\ pc'[t] \in {"enter", "loop"}
<1>1. /\ pc[t] = from /\ pc'[t] = (IF m + 1 < Len(cgraph) THEN "enter" ELSE "loop")
      /\ after'[t] = "loop" /\ node_n'[t] = m + 1 /\ ended'[t] = e + 1
  BY DEF EndNode, EndPhase, Goto, TypeOK
<1>2. abort' = abort \/ abort' = m + 1
  BY DEF EndNode, AskAbort
<1>3. Going(m)' /\ Joined(t)' /\ (nth[t] = NThreads)'
  BY <1>2 DEF Going, Joined, NThreads
<1>4. m + 1 < Len(cgraph) \/ m + 1 = Len(cgraph)
  BY TypeFacts DEF Going
<1>5. m + 1 < Len(cgraph) => Held(t)'
  BY <1>1 DEF Held, Barrier, Released
<1> QED
  BY <1>1, <1>2, <1>3, <1>4, <1>5, TypeFacts DEF Done

\* The end of a phase on a loop level keeps the level.
LEMMA PhaseStepOnLoop ==
    ASSUME IInv, NEW e \in Nat, NEW m \in Nat, LoopLevel(e, m),
           NEW t \in Participants, Work(t) \/ Convert(t)
    PROVE  LoopLevel(e, m)'
<1> USE TypeFacts DEF IInv
<1>1. t \in Threads /\ OnLoopLevel(t, e, m)
  BY DEF LoopLevel
<1>2. \A u \in Threads \ {t} : Untouched(u) /\ last_graph'[u] = last_graph[u]
  BY <1>1, ComputeFrame DEF Compute
<1>3. pc[t] \in Busy
  BY DEF Work, Convert, EndNode, Goto, Busy
<1>4. InNode(t, e, m)
  BY <1>1, <1>3, PhaseOnLoop
<1>5. Going(m) /\ OpAt(m) # "empty"
  BY <1>4 DEF InNode, LoopLevel
<1>6. CASE Work(t)
  <2>1. UNCHANGED <<cgraph, n_graph, n_barrier_passed, last_graph, nth, computed, current_chunk>>
    BY <1>6 DEF Work
  <2>2. /\ Done(t, e, m)' /\ (abort' = abort \/ abort' = m + 1)
        /\ pc[t] = "work"
    BY <1>1, <1>4, <1>6, <2>1, NodeEnds DEF Work, InNode
  <2>3. OpAt(m) = "plain" /\ OpAt(m)' = "plain"
    BY <1>4, <2>1, <2>2 DEF InNode, OpAt
  <2>4. ~Converted(t, e, m) /\ ~Converted(t, e, m)' /\ OnLoopLevel(t, e, m)'
    BY <2>2, <2>3 DEF Converted, OnLoopLevel
  <2> QED
    BY <1>1, <1>2, <1>5, <2>1, <2>2, <2>4, LoopKept
<1>7. CASE Convert(t)
  <2>1. /\ UNCHANGED <<cgraph, n_graph, n_barrier_passed, last_graph, nth, abort, node_n>>
        /\ pc[t] = "convert" /\ pc'[t] = "enter" /\ after'[t] = "chunk"
        /\ ended'[t] = ended[t] + 1 /\ chunk'[t] = t
    BY <1>1, <1>7 DEF Convert, EndPhase, Goto, TypeOK
  <2>2. OpAt(m) = "mul_mat"
    <3>1. OpAt(m) \in Operators
      BY <1>5 DEF Going, OpAt
    <3> QED
      BY <1>4, <1>5, <2>1, <3>1 DEF InNode, Operators
  <2>3. Converted(t, e, m)'
    <3>1. Joined(t)' /\ Going(m)' /\ OpAt(m)' = OpAt(m) /\ Held(t)' /\ NThreads' = NThreads
      BY <1>4, <2>1 DEF InNode, Joined, Going, OpAt, Held, Released, Barrier, NThreads
    <3> QED
      BY <1>4, <2>1, <2>2, <3>1 DEF InNode, Converted
  <2>4. ~Converted(t, e, m)
    BY <2>1 DEF Converted, Held, Barrier
  <2>5. CASE t = 0
    <3>1. UNCHANGED <<NThreads, Participants, Chunks>> /\ 0 \in Participants
      BY <2>1 DEF NThreads, Participants, Chunks, LoopLevel
    <3>2. \A u \in Participants \ {t} : OnLoopLevel(u, e, m)'
      BY <1>2, <2>1, LevelKept DEF LoopLevel
    <3>3. (m <= Len(cgraph) /\ (Going(m) => OpAt(m) # "empty"))'
      BY <2>1 DEF LoopLevel, Going, OpAt
    <3>4. current_chunk' = NThreads /\ computed' = [c \in Chunks |-> 0]
      BY <1>4, <1>7, <2>5 DEF Convert, Chunks, InNode
    <3>5. Prepared(e, m)'
      BY <2>3, <2>5, <3>1, <3>4 DEF Prepared
    <3>6. OnLoopLevel(t, e, m)'
      BY <2>3 DEF OnLoopLevel
    <3> QED
      BY <3>1, <3>2, <3>3, <3>5, <3>6 DEF LoopLevel
  <2>6. CASE t # 0
    <3>1. UNCHANGED <<computed, current_chunk>>
      BY <1>7, <2>6 DEF Convert
    <3>2. OnLoopLevel(t, e, m)'
      BY <2>3 DEF OnLoopLevel
    <3> QED
      BY <1>1, <1>2, <2>1, <2>6, <3>1, <3>2, LoopKept
  <2> QED
    BY <2>5, <2>6
<1> QED
  BY <1>6, <1>7

\* A thread leaves a barrier that it was released from before.
LEMMA SpinEnds ==
    ASSUME TypeOK, GraphInv, BarrierInv, NEW e \in Nat, NEW m \in Nat,
           NEW t \in Threads, BarrierSpin(t)
    PROVE  /\ Released(t) /\ ~Released(t)' /\ pc'[t] = after[t]
           /\ UNCHANGED <<poolVars, last_graph, nth, node_n, chunk, n_passed,
                          after, asked, ended, computed>>
           /\ OnLoopLevel(t, e, m) => OnLoopLevel(t, e, m)'
           /\ ~Converted(t, e, m) /\ ~Converted(t, e, m)'
           /\ OnChunkLevel(t, e, m) => OnChunkLevel(t, e, m)'
           /\ Holds(t)' <=> Holds(t)
           /\ Out(t) => Out(t)'
<1>1. /\ pc[t] = "spin" /\ pc'[t] = after[t] /\ n_barrier_passed # n_passed[t]
      /\ UNCHANGED <<poolVars, last_graph, nth, node_n, chunk, n_passed,
                     after, asked, ended, computed>>
  BY DEF BarrierSpin, Leave, Goto, TypeOK
<1>2. after[t] \in {"loop", "chunk", Home(t)}
  BY DEF GraphInv
<1>3. Released(t) /\ ~Released(t)'
  <2>1. n_passed[t] <= n_barrier_passed
    BY DEF BarrierInv
  <2> QED
    BY <1>1, <1>2, <2>1, PassedTypes DEF Released, Home
<1>4. Out(t) => Out(t)'
  BY <1>1, <1>2, <1>3 DEF Out, Home, Computing, Busy, Barrier
<1>5. ~Held(t) /\ ~Held(t)'
  BY <1>1, <1>2, <1>3 DEF Held, Home, Barrier
<1>6. \A place \in {"loop", "chunk"} : At(t, place)' <=> At(t, place)
  BY <1>1, <1>2, <1>3 DEF At, Home
<1>7. /\ Joined(t)' <=> Joined(t)
      /\ NThreads' = NThreads
      /\ \A j \in Nat : Leads(j, m)' <=> Leads(j, m)
  BY <1>1 DEF Joined, NThreads, Leads, Going, OpAt, poolVars
<1>8. Fresh(t, e, m) => Fresh(t, e, m)'
  BY <1>1, <1>4, <1>7 DEF Fresh
<1>9. InLoop(t, e, m) => InLoop(t, e, m)'
  BY <1>1, <1>6, <1>7 DEF InLoop, TypeOK
<1>10. Claiming(t, e, m) => Claiming(t, e, m)'
  BY <1>1, <1>6, <1>7 DEF Claiming
<1>11. /\ ~InNode(t, e, m) /\ ~Done(t, e, m) /\ ~Converted(t, e, m)
       /\ ~NoPhase(t, e, m) /\ ~Converted(t, e, m)'
  BY <1>1, <1>5 DEF InNode, Done, Converted, NoPhase
<1> QED
  BY <1>1, <1>3, <1>4, <1>6, <1>8, <1>9, <1>10, <1>11
     DEF OnLoopLevel, OnChunkLevel, Holds

-----------------------------------------------------------------------------
(* From one level to the next *)

\* The steps that end a barrier; a single thread does not wait in it.
Passes(t) ==
    \/ BarrierPass(t)
    \/ BarrierEnter(t) /\ NThreads = 1

\* When the barrier ends all participants were in it, and all are behind it.
LEMMA AllPass ==
    ASSUME TypeOK, GraphInv, BarrierInv, NEW t \in Threads, Passes(t)
    PROVE  /\ UNCHANGED <<cgraph, n_graph, abort, last_graph, nth, node_n, chunk,
                          after, ended, computed, current_chunk>>
           /\ t \in Participants /\ 0 \in Participants
           /\ \A u \in Participants :
                 /\ Held(u)
                 /\ \/ pc'[u] = after[u] /\ ~Released(u)'
                    \/ pc'[u] = "spin" /\ Released(u)'
           /\ \A u \in Threads \ {t} : pc'[u] = pc[u]
           /\ pc'[t] = after[t]
<1> USE TypeFacts
<1>1. UNCHANGED <<cgraph, n_graph, abort, last_graph, nth, node_n, chunk,
                  after, ended, computed, current_chunk>>
  BY DEF Passes, BarrierPass, BarrierEnter, poolVars
<1>2. /\ \A u \in Threads \ {t} : pc'[u] = pc[u]
      /\ pc'[t] = after[t] /\ pc[t] \in {"pass", "enter"}
  BY DEF Passes, BarrierPass, BarrierEnter, Leave, Goto, TypeOK
<1>3. t \in Participants
  BY <1>2, Inside DEF Out, Released, Computing, Barrier
<1>4. after[t] # "spin"
  BY DEF GraphInv, Home
<1>5. Held(t) /\ pc'[t] = after[t] /\ ~Released(t)'
  BY <1>2, <1>4 DEF Held, Barrier, Released
<1>6. CASE BarrierPass(t)
  <2>1. pc[t] = "pass" /\ n_barrier_passed' = n_barrier_passed + 1 /\ UNCHANGED n_passed
    BY <1>6 DEF BarrierPass, Leave, Goto
  <2>2. \A u \in Participants \ {t} : Waiting(u)
    BY <2>1, OneLast
  <2>3. \A u \in Participants \ {t} : Held(u) /\ pc'[u] = "spin" /\ Released(u)'
    BY <1>2, <2>1, <2>2, PassedTypes DEF Waiting, Held, Released, Barrier
  <2> QED
    BY <1>1, <1>2, <1>3, <1>5, <2>3 DEF Participants
<1>7. CASE BarrierEnter(t) /\ NThreads = 1
  <2>1. Participants = {t} /\ t = 0
    BY <1>3, <1>7 DEF Participants
  <2> QED
    BY <1>1, <1>2, <1>3, <1>5, <2>1
<1> QED
  BY <1>6, <1>7 DEF Passes

\* The last barrier of a graph.
LEMMA ToHome ==
    ASSUME TypeOK, GraphInv, BarrierInv, NEW t \in Threads, Passes(t), NEW e \in Nat,
           \A u \in Participants : Joined(u) /\ after[u] = Home(u) /\ ended[u] = e,
           AllOnce
    PROVE  LevelInv'
<1>1. \A u \in Participants : Out(u)'
  BY AllPass DEF Out, Home, Computing, Busy, Barrier
<1>2. \A u \in Participants : Joined(u)' /\ (ended[u] = e)'
  BY AllPass DEF Joined
<1>3. AllOnce' /\ Participants' = Participants
  BY AllPass DEF AllOnce, Participants, NThreads
<1>4. HomeLevel(e)'
  BY <1>1, <1>2, <1>3, AllPass DEF HomeLevel
<1> QED
  BY <1>4 DEF LevelInv

\* The barrier after a node that is not the last.
LEMMA ToLoop ==
    ASSUME TypeOK, GraphInv, BarrierInv, NEW t \in Threads, Passes(t),
           NEW e \in Nat, NEW m \in Nat, m + 1 < Len(cgraph),
           \A u \in Participants : Done(u, e, m), AllOnce
    PROVE  LevelInv'
<1> USE TypeFacts
<1>1. PICK k \in Nat : /\ k <= Len(cgraph) /\ Leads(m + 1, k)
                       /\ Going(k) => OpAt(k) # "empty"
  BY StopsSomewhere
<1>2. UNCHANGED <<NThreads, Participants, Chunks>> /\ AllOnce'
  BY AllPass DEF NThreads, Participants, Chunks, AllOnce
<1>3. /\ (Going(k) => OpAt(k) # "empty")' /\ Leads(m + 1, k)'
      /\ (k <= Len(cgraph))'
  BY <1>1, AllPass DEF Going, OpAt, Leads
<1>4. ASSUME NEW u \in Participants
      PROVE  InLoop(u, e + 1, k)' /\ ended'[u] = e + 1
  <2>1. /\ Joined(u) /\ nth[u] = NThreads /\ after[u] = "loop"
        /\ ended[u] = e + 1 /\ node_n[u] = m + 1
    BY AllPass DEF Done, Held, Barrier
  <2>2. At(u, "loop")'
    BY <2>1, AllPass DEF At
  <2>3. Joined(u)' /\ (nth[u] = NThreads)' /\ ended'[u] = e + 1 /\ node_n'[u] = m + 1
    BY <1>2, <2>1, AllPass DEF Joined
  <2> QED
    BY <1>3, <2>2, <2>3 DEF InLoop
<1>5. NThreads > 0 /\ 0 \in Participants
  BY AllPass DEF Participants
<1>6. ~Converted(0, e + 1, k)'
  BY <1>4, <1>5 DEF Converted
<1>7. LoopLevel(e + 1, k)'
  BY <1>2, <1>3, <1>4, <1>5, <1>6 DEF LoopLevel, OnLoopLevel, Prepared
<1> QED
  BY <1>7 DEF LevelInv

\* The barrier between the conversion and the chunks of a matrix multiplication.
LEMMA ToChunks ==
    ASSUME TypeOK, GraphInv, BarrierInv, NEW t \in Threads, Passes(t),
           NEW e \in Nat, NEW m \in Nat, Prepared(e, m),
           \A u \in Participants : Converted(u, e, m)
    PROVE  LevelInv'
<1> USE TypeFacts
<1>1. UNCHANGED <<NThreads, Participants, Chunks, computed, current_chunk>>
  BY AllPass DEF NThreads, Participants, Chunks
<1>2. 0 \in Participants /\ NThreads > 0
  BY AllPass DEF Participants
<1>3. Going(m)' /\ (OpAt(m) = "mul_mat")'
  BY <1>2, AllPass DEF Converted, Going, OpAt
<1>4. ASSUME NEW u \in Participants
      PROVE  Claiming(u, e + 1, m)' /\ Holds(u)' /\ chunk'[u] = u
  <2>1. /\ Joined(u) /\ nth[u] = NThreads /\ after[u] = "chunk" /\ chunk[u] = u
        /\ ended[u] = e + 1 /\ node_n[u] = m
    BY DEF Converted
  <2>2. At(u, "chunk")'
    BY <2>1, AllPass DEF At
  <2> QED
    BY <1>1, <2>1, <2>2, AllPass DEF Claiming, Joined, Holds
<1>5. computed = [c \in Chunks |-> 0] /\ current_chunk = NThreads
  BY <1>2 DEF Prepared
<1>6. Shared(e + 1)'
  <2>1. computed' \in [Chunks' -> {0, 1}] /\ NThreads' <= current_chunk'
    BY <1>1, <1>5
  <2>2. \A u \in Participants' : Holding(u)'
    BY <1>1, <1>4, <1>5 DEF Holding, Participants
  <2>3. \A c \in Chunks' : c >= current_chunk' \/ \E u \in Participants' : Holds(u)' /\ chunk'[u] = c
    <3>1. ASSUME NEW c \in Chunks', ~(c >= current_chunk')
          PROVE  c \in Participants'
      BY <1>1, <1>2, <1>5, <3>1 DEF Participants, Chunks
    <3> QED
      BY <1>1, <1>4, <3>1
  <2>4. \A c \in Chunks' : computed'[c] = 0
    BY <1>1, <1>5
  <2>5. \A u \in Participants' : ended'[u] # (e + 1) + 1
    BY <1>1, <1>4 DEF Claiming
  <2> QED
    BY <2>1, <2>2, <2>3, <2>4, <2>5 DEF Shared
<1>7. ChunkLevel(e + 1, m)'
  BY <1>1, <1>2, <1>3, <1>4, <1>6 DEF ChunkLevel, OnChunkLevel
<1> QED
  BY <1>7 DEF LevelInv

\* The barrier at the end of a loop level.
LEMMA PassOnLoop ==
    ASSUME TypeOK, GraphInv, BarrierInv, NEW t \in Threads, Passes(t),
           NEW e \in Nat, NEW m \in Nat, LoopLevel(e, m)
    PROVE  LevelInv'
<1> USE TypeFacts
<1>1. ASSUME NEW u \in Participants
      PROVE  \/ Done(u, e, m) /\ OpAt(m) = "plain"
             \/ Converted(u, e, m) \/ NoPhase(u, e, m)
  <2>1. Held(u) /\ OnLoopLevel(u, e, m)
    BY AllPass DEF LoopLevel
  <2>2. ~Fresh(u, e, m) /\ ~InLoop(u, e, m) /\ ~InNode(u, e, m)
    BY <2>1 DEF Held, Fresh, InLoop, InNode, Out, At, Barrier, Computing
  <2> QED
    BY <2>1, <2>2 DEF OnLoopLevel
<1>2. 0 \in Participants
  BY AllPass
<1>3. CASE ~Going(m)
  <2>1. \A u \in Participants : NoPhase(u, e, m)
    BY <1>1, <1>3 DEF Done, Converted
  <2>2. ~Converted(0, e, m)
    BY <1>3 DEF Converted
  <2> QED
    BY <2>1, <2>2, ToHome DEF NoPhase, LoopLevel, Prepared
<1>4. CASE Going(m) /\ OpAt(m) = "mul_mat"
  <2>1. \A u \in Participants : Converted(u, e, m)
    BY <1>1, <1>4 DEF NoPhase
  <2> QED
    BY <2>1, ToChunks DEF LoopLevel
<1>5. CASE Going(m) /\ OpAt(m) # "mul_mat"
  <2>1. ~Converted(0, e, m)
    BY <1>5 DEF Converted
  <2>2. \A u \in Participants : Done(u, e, m)
    BY <1>1, <1>5 DEF NoPhase, Converted
  <2>3. AllOnce
    BY <2>1 DEF LoopLevel, Prepared
  <2>4. CASE m + 1 < Len(cgraph)
    BY <2>2, <2>3, <2>4, ToLoop
  <2>5. CASE ~(m + 1 < Len(cgraph))
    <3>1. \A u \in Participants : Joined(u) /\ after[u] = Home(u) /\ ended[u] = e + 1
      BY <2>2, <2>5, AllPass DEF Done, Held, Barrier
    <3> QED
      BY <2>3, <3>1, ToHome
  <2> QED
    BY <2>4, <2>5
<1> QED
  BY <1>3, <1>4, <1>5

\* The barrier at the end of a chunk level finds every chunk computed.
LEMMA PassOnChunks ==
    ASSUME TypeOK, GraphInv, BarrierInv, NEW t \in Threads, Passes(t),
           NEW e \in Nat, NEW m \in Nat, ChunkLevel(e, m)
    PROVE  LevelInv'
<1> USE TypeFacts
<1>1. ASSUME NEW u \in Participants
      PROVE  Done(u, e, m) /\ ~Holds(u)
  <2>1. Held(u) /\ OnChunkLevel(u, e, m)
    BY AllPass DEF ChunkLevel
  <2> QED
    BY <2>1 DEF Held, Claiming, At, Holds, Barrier, OnChunkLevel
<1>2. 0 \in Participants
  BY AllPass
<1>3. AllOnce
  <2>1. Total(NThreads) <= current_chunk
    BY <1>1, <1>2 DEF ChunkLevel, Shared, Done
  <2>2. current_chunk \in Nat /\ Total(NThreads) \in Nat
    BY DEF TypeOK
  <2>3. \A c \in Chunks : computed[c] # 0
    BY <1>1, <2>1, <2>2 DEF ChunkLevel, Shared, Chunks
  <2> QED
    BY <2>3 DEF AllOnce, ChunkLevel, Shared
<1>4. CASE m + 1 < Len(cgraph)
  BY <1>1, <1>3, <1>4, ToLoop
<1>5. CASE ~(m + 1 < Len(cgraph))
  <2>1. \A u \in Participants : Joined(u) /\ after[u] = Home(u) /\ ended[u] = e + 1
    BY <1>1, <1>5, AllPass DEF Done, Held, Barrier
  <2> QED
    BY <1>3, <2>1, ToHome
<1> QED
  BY <1>4, <1>5

-----------------------------------------------------------------------------
(* The chunks of a matrix multiplication *)

\* A step on a chunk level keeps the level, if it keeps the thread that takes
\* it on the level and the chunks shared.
LEMMA ChunkLevelKept ==
    ASSUME TypeOK, NEW e \in Nat, NEW m \in Nat, NEW t \in Threads,
           ChunkLevel(e, m), UNCHANGED <<cgraph, n_graph, n_barrier_passed>>,
           \A u \in Threads \ {t} : Untouched(u) /\ last_graph'[u] = last_graph[u],
           abort' = abort \/ abort' = m + 1,
           t \in Participants => OnChunkLevel(t, e, m)',
           Shared(e)'
    PROVE  ChunkLevel(e, m)'
<1> USE TypeFacts
<1>1. UNCHANGED <<NThreads, Participants>> /\ Going(m)
  BY DEF NThreads, Participants, ChunkLevel
<1>2. \A u \in Participants \ {t} : OnChunkLevel(u, e, m)'
  BY <1>1, LevelKept DEF ChunkLevel
<1>3. (Going(m) /\ OpAt(m) = "mul_mat")'
  BY <1>1 DEF ChunkLevel, Going, OpAt
<1> QED
  BY <1>1, <1>2, <1>3 DEF ChunkLevel

\* A step that claims and computes no chunk leaves the chunks shared.
LEMMA SharedKept ==
    ASSUME NEW e \in Nat, Shared(e),
           UNCHANGED <<n_graph, chunk, ended, computed, current_chunk>>,
           \A u \in Participants : Holds(u)' <=> Holds(u)
    PROVE  Shared(e)'
<1>1. UNCHANGED <<NThreads, Participants, Chunks>>
  BY DEF NThreads, Participants, Chunks
<1>2. \A u \in Participants : Holding(u)' <=> Holding(u)
  BY <1>1 DEF Holding
<1> QED
  BY <1>1, <1>2 DEF Shared

\* A thread that claims or computes chunks is on a chunk level.
LEMMA AtChunks ==
    ASSUME TypeOK, NEW e \in Nat, NEW m \in Nat, NEW t \in Threads,
           OnChunkLevel(t, e, m), pc[t] \in Busy \cup {"start"}
    PROVE  Claiming(t, e, m) /\ pc[t] \in {"chunk", "claim"}
<1>1. ~Released(t) /\ ~Held(t) /\ pc[t] # "loop"
  BY DEF Released, Held, Busy, Barrier
<1> QED
  BY <1>1 DEF OnChunkLevel, Done, Claiming, At

\* After a step of thread t others hold what they held.
LEMMA OthersHold ==
    ASSUME TypeOK, NEW t \in Threads, Compute(t), UNCHANGED n_barrier_passed
    PROVE  \A u \in Participants \ {t} :
              (Holds(u)' <=> Holds(u)) /\ chunk'[u] = chunk[u] /\ ended'[u] = ended[u]
BY ComputeFrame, TypeFacts DEF Untouched, Holds, At, Released

\* A thread computes the chunk it holds, which nobody else does.
LEMMA ChunkShared ==
    ASSUME TypeOK, NEW e \in Nat, NEW m \in Nat, NEW t \in Participants,
           Claiming(t, e, m), Shared(e), Chunk(t)
    PROVE  Shared(e)'
<1> USE TypeFacts
<1>1. t \in Threads
  OBVIOUS
<1>2. /\ pc[t] = "chunk" /\ chunk[t] < Total(nth[t]) /\ nth[t] = NThreads
      /\ ended[t] = e /\ computed' = [computed EXCEPT ![chunk[t]] = @ + 1]
      /\ UNCHANGED <<n_graph, chunk, current_chunk, n_barrier_passed>>
  BY DEF Chunk, Claiming
<1>3. chunk[t] \in Nat /\ chunk[t] \in Chunks /\ Holds(t)
  <2>1. chunk[t] \in Nat /\ NThreads \in 0 .. N
    BY <1>1 DEF TypeOK
  <2>2. Total(NThreads) \in Nat
    BY <2>1
  <2> QED
    BY <1>2, <2>1, <2>2 DEF Chunks, Holds, At
<1>4. Holding(t) /\ computed \in [Chunks -> {0, 1}]
  BY <1>3 DEF Shared
<1>5. \A c \in Chunks : computed'[c] = IF c = chunk[t] THEN 1 ELSE computed[c]
  BY <1>2, <1>3, <1>4 DEF Holding
<1>6. computed' \in [Chunks -> {0, 1}]
  BY <1>2, <1>3, <1>4 DEF Holding
<1>7. UNCHANGED <<NThreads, Participants, Chunks>>
  BY <1>2 DEF NThreads, Participants, Chunks
<1>8. ~Holds(t)' /\ (ended'[t] = e + 1 => Total(NThreads) <= NThreads)
  <2>1. CASE nth[t] >= Total(nth[t])
    <3>1. pc'[t] # "chunk" /\ pc'[t] # "spin"
      BY <1>1, <2>1 DEF Chunk, EndNode, Goto, TypeOK
    <3> QED
      BY <1>2, <2>1, <3>1 DEF Holds, At, Released
  <2>2. CASE ~(nth[t] >= Total(nth[t]))
    <3>1. pc'[t] = "claim" /\ ended'[t] = e
      BY <1>1, <1>2, <2>2 DEF Chunk, Goto, TypeOK
    <3> QED
      BY <3>1 DEF Holds, At, Released
  <2> QED
    BY <2>1, <2>2
<1>9. \A u \in Participants \ {t} :
         (Holds(u)' <=> Holds(u)) /\ chunk'[u] = chunk[u] /\ ended'[u] = ended[u]
  BY <1>1, <1>2, OthersHold DEF Compute
<1>10. ASSUME NEW u \in Participants, Holds(u)'
       PROVE  Holding(u)'
  <2>1. u # t /\ Holds(u) /\ Holding(u)
    BY <1>8, <1>9, <1>10 DEF Shared
  <2>2. chunk[u] # chunk[t]
    BY <1>3, <2>1 DEF Holding
  <2> QED
    BY <1>2, <1>5, <1>7, <1>8, <1>9, <2>1, <2>2 DEF Holding
<1>11. ASSUME NEW c \in Chunks, computed'[c] = 0
       PROVE  c >= current_chunk' \/ \E u \in Participants : Holds(u)' /\ chunk'[u] = c
  <2>1. c # chunk[t] /\ computed[c] = 0
    BY <1>5, <1>11
  <2>2. c >= current_chunk \/ \E u \in Participants : Holds(u) /\ chunk[u] = c
    BY <2>1 DEF Shared
  <2> QED
    BY <1>2, <1>9, <2>1, <2>2
<1>12. \A c \in Chunks : c >= current_chunk' => computed'[c] = 0
  <2>1. current_chunk \in Nat /\ chunk[t] < current_chunk
    BY <1>4 DEF TypeOK, Holding
  <2>2. ASSUME NEW c \in Chunks, c >= current_chunk
        PROVE  c # chunk[t] /\ computed[c] = 0
    BY <1>3, <2>1, <2>2 DEF Shared, Chunks
  <2> QED
    BY <1>2, <1>5, <2>2
<1>13. \A u \in Participants : ended'[u] = e + 1 => Total(NThreads) <= current_chunk
  <2>1. NThreads <= current_chunk /\ current_chunk \in Nat
    BY DEF TypeOK, Shared
  <2>2. Total(NThreads) \in Nat /\ NThreads \in Nat
    OBVIOUS
  <2>3. \A u \in Participants : ended[u] = e + 1 => Total(NThreads) <= current_chunk
    BY DEF Shared
  <2> QED
    BY <1>8, <1>9, <2>1, <2>2, <2>3
<1> QED
  BY <1>2, <1>6, <1>7, <1>10, <1>11, <1>12, <1>13 DEF Shared

\* A thread claims the next chunk, which nobody holds.
LEMMA ClaimShared ==
    ASSUME TypeOK, NEW e \in Nat, NEW m \in Nat, NEW t \in Participants,
           Claiming(t, e, m), Shared(e), Claim(t)
    PROVE  Shared(e)'
<1> USE TypeFacts
<1>1. t \in Threads /\ current_chunk \in Nat
  BY DEF TypeOK
<1>2. /\ pc[t] = "claim" /\ pc'[t] = "chunk" /\ chunk'[t] = current_chunk
      /\ current_chunk' = current_chunk + 1 /\ ended[t] = e
      /\ UNCHANGED <<n_graph, ended, computed, n_barrier_passed>>
  BY <1>1 DEF Claim, Claiming, Goto, TypeOK
<1>3. UNCHANGED <<NThreads, Participants, Chunks>>
  BY <1>2 DEF NThreads, Participants, Chunks
<1>4. Holds(t)' /\ ~Holds(t)
  BY <1>2 DEF Holds, At, Released
<1>5. \A u \in Participants \ {t} : (Holds(u)' <=> Holds(u)) /\ chunk'[u] = chunk[u]
  BY <1>1, <1>2, OthersHold DEF Compute
<1>6. \A u \in Participants \ {t} : Holds(u) => chunk[u] < current_chunk /\ chunk[u] \in Nat
  BY DEF Shared, Holding, TypeOK
<1>7. Holding(t)'
  <2>1. current_chunk \in Chunks => computed[current_chunk] = 0
    BY <1>1 DEF Shared
  <2>2. \A u \in Participants \ {t} : Holds(u)' => chunk'[u] # current_chunk
    BY <1>1, <1>5, <1>6
  <2> QED
    BY <1>1, <1>2, <1>3, <2>1, <2>2 DEF Holding
<1>8. ASSUME NEW u \in Participants \ {t}, Holds(u)'
      PROVE  Holding(u)'
  <2>1. Holds(u) /\ Holding(u) /\ chunk[u] < current_chunk /\ chunk[u] \in Nat
    BY <1>5, <1>6, <1>8 DEF Shared
  <2> QED
    BY <1>1, <1>2, <1>3, <1>5, <2>1 DEF Holding
<1>9. ASSUME NEW c \in Chunks, computed[c] = 0
      PROVE  c >= current_chunk' \/ \E u \in Participants : Holds(u)' /\ chunk'[u] = c
  <2>1. c >= current_chunk \/ \E u \in Participants : Holds(u) /\ chunk[u] = c
    BY <1>9 DEF Shared
  <2>2. CASE c >= current_chunk
    BY <1>1, <1>2, <1>4, <2>2 DEF Chunks
  <2>3. CASE \E u \in Participants : Holds(u) /\ chunk[u] = c
    BY <1>4, <1>5, <2>3
  <2> QED
    BY <2>1, <2>2, <2>3
<1>10. \A c \in Chunks : c >= current_chunk' => computed[c] = 0
  BY <1>1, <1>2 DEF Shared, Chunks
<1>11. /\ NThreads <= current_chunk'
       /\ \A u \in Participants : ended[u] = e + 1 => Total(NThreads) <= current_chunk'
  <2>1. NThreads \in Nat /\ Total(NThreads) \in Nat
    OBVIOUS
  <2> QED
    BY <1>1, <1>2, <2>1 DEF Shared
<1> QED
  BY <1>2, <1>3, <1>7, <1>8, <1>9, <1>10, <1>11 DEF Shared

\* A thread stops when there is no chunk left to claim.
LEMMA NoChunkShared ==
    ASSUME TypeOK, NEW e \in Nat, NEW m \in Nat, NEW t \in Participants,
           Claiming(t, e, m), Shared(e), NoChunk(t)
    PROVE  Shared(e)'
<1> USE TypeFacts
<1>1. t \in Threads /\ current_chunk \in Nat /\ Total(NThreads) \in Nat
  <2>1. t \in Threads
    OBVIOUS
  <2>2. Total(NThreads) \in Nat
    OBVIOUS
  <2> QED
    BY <2>1, <2>2 DEF TypeOK
<1>2. /\ pc[t] = "chunk" /\ pc'[t] \in {"enter", "loop"} /\ chunk[t] >= Total(nth[t])
      /\ nth[t] = NThreads /\ UNCHANGED <<n_graph, chunk, computed, current_chunk, n_barrier_passed>>
  BY <1>1 DEF NoChunk, EndNode, Claiming, Goto, TypeOK
<1>3. UNCHANGED <<NThreads, Participants, Chunks>>
  BY <1>2 DEF NThreads, Participants, Chunks
<1>4. ~Holds(t)' /\ Holds(t)
  BY <1>2 DEF Holds, At, Released
<1>5. \A u \in Participants \ {t} :
         (Holds(u)' <=> Holds(u)) /\ chunk'[u] = chunk[u] /\ ended'[u] = ended[u]
  BY <1>1, <1>2, OthersHold DEF Compute
<1>6. chunk[t] \in Nat /\ chunk[t] < current_chunk /\ chunk[t] \notin Chunks
  <2>1. chunk[t] \in Nat /\ chunk[t] < current_chunk
    BY <1>1, <1>4 DEF Shared, Holding, TypeOK
  <2> QED
    BY <1>1, <1>2, <2>1 DEF Chunks
<1>7. \A u \in Participants : Holds(u)' => Holding(u)'
  BY <1>2, <1>3, <1>4, <1>5 DEF Shared, Holding
<1>8. \A c \in Chunks : computed[c] = 0 =>
          c >= current_chunk \/ \E u \in Participants : Holds(u)' /\ chunk'[u] = c
  BY <1>2, <1>4, <1>5, <1>6 DEF Shared
<1>9. Total(NThreads) <= current_chunk
  BY <1>1, <1>2, <1>6
<1> QED
  BY <1>2, <1>3, <1>7, <1>8, <1>9 DEF Shared

\* The steps of a thread between two barriers, on a chunk level.
LEMMA WalkOnChunks ==
    ASSUME IInv, NEW e \in Nat, NEW m \in Nat, ChunkLevel(e, m),
           NEW t \in Participants,
           \/ Start(t) \/ LoopEnd(t) \/ LoopSkip(t) \/ LoopCompute(t)
           \/ Work(t) \/ Convert(t) \/ Chunk(t) \/ Claim(t) \/ NoChunk(t)
    PROVE  ChunkLevel(e, m)'
<1> USE TypeFacts DEF IInv
<1>1. t \in Threads /\ OnChunkLevel(t, e, m) /\ Shared(e) /\ Going(m)
  BY DEF ChunkLevel
<1>2. \A u \in Threads \ {t} : Untouched(u) /\ last_graph'[u] = last_graph[u]
  BY <1>1, ComputeFrame DEF Compute
<1>3. UNCHANGED <<cgraph, n_graph, last_graph, n_barrier_passed>>
  BY DEF Start, LoopEnd, LoopSkip, LoopCompute, Work, Convert, Chunk, Claim,
         NoChunk, poolVars
<1>4. pc[t] \in Busy \cup {"start", "loop"}
  BY DEF Start, LoopEnd, LoopSkip, LoopCompute, Work, Convert, Chunk, Claim,
         NoChunk, EndNode, Goto, Busy
<1>5. CASE pc[t] = "loop"
  <2>1. ~Claiming(t, e, m) /\ ~Holds(t)
    BY <1>5 DEF Claiming, Holds, At, Released
  <2>2. Done(t, e, m) /\ m + 1 = Len(cgraph)
    BY <1>1, <1>5, <2>1 DEF OnChunkLevel, Done, Held, Barrier
  <2>3. ~More(t)
    BY <2>2 DEF Done, More
  <2>4. LoopEnd(t)
    BY <1>5, <2>3 DEF Start, LoopSkip, LoopCompute, Work, Convert, Chunk, Claim,
                      NoChunk, EndNode, Goto
  <2>5. /\ pc'[t] = "enter" /\ after'[t] = Home(t)
        /\ UNCHANGED <<node_n, nth, ended, chunk, abort, computed, current_chunk>>
    BY <1>1, <2>4 DEF LoopEnd, Goto, TypeOK, poolVars
  <2>6. Done(t, e, m)'
    BY <1>3, <2>2, <2>5
       DEF Done, Joined, Going, Held, Barrier, Released, Home, NThreads
  <2>7. \A u \in Participants : Holds(u)' <=> Holds(u)
    <3>1. ~Holds(t)'
      BY <2>5 DEF Holds, At, Released
    <3> QED
      BY <1>1, <1>3, <2>1, <2>4, <3>1, OthersHold DEF Compute
  <2>8. Shared(e)'
    BY <1>1, <1>3, <2>5, <2>7, SharedKept
  <2> QED
    BY <1>1, <1>2, <1>3, <2>5, <2>6, <2>8, ChunkLevelKept DEF OnChunkLevel
<1>6. CASE pc[t] # "loop"
  <2>1. Claiming(t, e, m) /\ pc[t] \in {"chunk", "claim"}
    BY <1>1, <1>4, <1>6, AtChunks
  <2>2. Joined(t) /\ nth[t] = NThreads /\ ended[t] = e /\ node_n[t] = m
    BY <2>1 DEF Claiming
  <2>3. Chunk(t) \/ Claim(t) \/ NoChunk(t)
    BY <2>1 DEF Start, LoopEnd, LoopSkip, LoopCompute, Work, Convert, EndNode, Goto
  <2>4. CASE Chunk(t)
    <3>1. Shared(e)'
      BY <1>1, <2>1, <2>4, ChunkShared
    <3>2. CASE nth[t] >= Total(nth[t])
      <4>1. EndNode(t, "chunk") /\ EndPhase(t) /\ UNCHANGED nth
        BY <2>4, <3>2 DEF Chunk
      <4>2. Done(t, e, m)' /\ (abort' = abort \/ abort' = m + 1)
        BY <1>1, <1>3, <2>2, <4>1, NodeEnds
      <4> QED
        BY <1>1, <1>2, <1>3, <3>1, <4>2, ChunkLevelKept DEF OnChunkLevel
    <3>3. CASE ~(nth[t] >= Total(nth[t]))
      <4>1. pc'[t] = "claim" /\ UNCHANGED <<nth, node_n, abort, ended>>
        BY <1>1, <2>4, <3>3 DEF Chunk, Goto, TypeOK
      <4>2. Claiming(t, e, m)'
        BY <1>3, <2>2, <4>1 DEF Claiming, Joined, NThreads
      <4> QED
        BY <1>1, <1>2, <1>3, <3>1, <4>1, <4>2, ChunkLevelKept DEF OnChunkLevel
    <3> QED
      BY <3>2, <3>3
  <2>5. CASE Claim(t)
    <3>1. Shared(e)'
      BY <1>1, <2>1, <2>5, ClaimShared
    <3>2. pc'[t] = "chunk" /\ UNCHANGED <<nth, node_n, abort, ended>>
      BY <1>1, <2>5 DEF Claim, Goto, TypeOK
    <3>3. Claiming(t, e, m)'
      BY <1>3, <2>2, <3>2 DEF Claiming, Joined, NThreads, At
    <3> QED
      BY <1>1, <1>2, <1>3, <3>1, <3>2, <3>3, ChunkLevelKept DEF OnChunkLevel
  <2>6. CASE NoChunk(t)
    <3>1. Shared(e)'
      BY <1>1, <2>1, <2>6, NoChunkShared
    <3>2. EndNode(t, "chunk") /\ EndPhase(t) /\ UNCHANGED nth
      BY <2>6 DEF NoChunk
    <3>3. Done(t, e, m)' /\ (abort' = abort \/ abort' = m + 1)
      BY <1>1, <1>3, <2>2, <3>2, NodeEnds
    <3> QED
      BY <1>1, <1>2, <1>3, <3>1, <3>3, ChunkLevelKept DEF OnChunkLevel
  <2> QED
    BY <2>3, <2>4, <2>5, <2>6
<1> QED
  BY <1>5, <1>6

-----------------------------------------------------------------------------
(* Every step *)

\* The steps on a loop level keep it or end it.
LEMMA OnLoop ==
    ASSUME IInv, NEW e \in Nat, NEW m \in Nat, LoopLevel(e, m),
           NEW t \in Threads, Compute(t)
    PROVE  LevelInv'
<1> USE TypeFacts DEF IInv
<1>1. \A u \in Threads \ {t} : Untouched(u) /\ last_graph'[u] = last_graph[u]
  BY ComputeFrame
<1>2. t \in Participants => OnLoopLevel(t, e, m)
  BY DEF LoopLevel
<1>3. CASE Passes(t)
  BY <1>3, PassOnLoop
<1>4. CASE InBarrier(t)
  <2>1. LoopLevel(e, m)'
    BY <1>1, <1>2, <1>4, InBarrierHeld, HeldKept, LoopKept
  <2> QED
    BY <2>1 DEF LevelInv
<1>5. CASE BarrierSpin(t)
  <2>1. UNCHANGED <<cgraph, n_graph, n_barrier_passed, abort, computed, current_chunk>>
    BY <1>5 DEF BarrierSpin, poolVars
  <2>2. LoopLevel(e, m)'
    BY <1>1, <1>2, <1>5, <2>1, SpinEnds, LoopKept
  <2> QED
    BY <2>2 DEF LevelInv
<1>6. CASE Start(t) \/ LoopEnd(t) \/ LoopSkip(t) \/ LoopCompute(t)
              \/ Work(t) \/ Convert(t) \/ Chunk(t) \/ Claim(t) \/ NoChunk(t)
  <2>1. pc[t] \in Busy \cup {"start", "loop"}
    BY <1>6 DEF Start, LoopEnd, LoopSkip, LoopCompute, Work, Convert, Chunk, Claim,
                NoChunk, EndNode, Goto, Busy
  <2>2. t \in Participants
    BY <2>1, Inside DEF Out, Released, Computing, Busy
  <2>3. ~(Chunk(t) \/ Claim(t) \/ NoChunk(t))
    <3>1. pc[t] \notin {"chunk", "claim"}
      BY <1>2, <2>2, PhaseOnLoop DEF Busy
    <3> QED
      BY <3>1 DEF Chunk, Claim, NoChunk, EndNode, Goto
  <2>4. CASE Work(t) \/ Convert(t)
    <3>1. LoopLevel(e, m)'
      BY <2>2, <2>4, PhaseStepOnLoop
    <3> QED
      BY <3>1 DEF LevelInv
  <2>5. CASE Start(t) \/ LoopEnd(t) \/ LoopSkip(t) \/ LoopCompute(t)
    <3>1. LoopLevel(e, m)'
      BY <1>1, <1>2, <2>2, <2>5, WalkOnLoop, LoopKept
    <3> QED
      BY <3>1 DEF LevelInv
  <2> QED
    BY <1>6, <2>3, <2>4, <2>5
<1>7. NThreads = 1 \/ NThreads > 1
  BY DEF LoopLevel
<1> QED
  BY <1>3, <1>4, <1>5, <1>6, <1>7 DEF Compute, Passes, InBarrier

\* The steps on a chunk level keep it or end it.
LEMMA OnChunks ==
    ASSUME IInv, NEW e \in Nat, NEW m \in Nat, ChunkLevel(e, m),
           NEW t \in Threads, Compute(t)
    PROVE  LevelInv'
<1> USE TypeFacts DEF IInv
<1>1. \A u \in Threads \ {t} : Untouched(u) /\ last_graph'[u] = last_graph[u]
  BY ComputeFrame
<1>2. t \in Participants => OnChunkLevel(t, e, m)
  BY DEF ChunkLevel
<1>3. CASE Passes(t)
  BY <1>3, PassOnChunks
<1>4. CASE InBarrier(t)
  <2>1. UNCHANGED <<cgraph, n_graph, n_barrier_passed, abort, chunk, ended,
                    computed, current_chunk>>
    BY <1>4, InBarrierHeld
  <2>2. t \in Participants => OnChunkLevel(t, e, m)' /\ (Holds(t)' <=> Holds(t))
    BY <1>2, <1>4, InBarrierHeld, HeldKept
  <2>3. Shared(e)'
    BY <2>1, <2>2, OthersHold, SharedKept DEF ChunkLevel
  <2>4. ChunkLevel(e, m)'
    BY <1>1, <2>1, <2>2, <2>3, ChunkLevelKept
  <2> QED
    BY <2>4 DEF LevelInv
<1>5. CASE BarrierSpin(t)
  <2>1. UNCHANGED <<cgraph, n_graph, n_barrier_passed, abort, chunk, ended,
                    computed, current_chunk>>
    BY <1>5 DEF BarrierSpin, poolVars
  <2>2. (Holds(t)' <=> Holds(t)) /\ (t \in Participants => OnChunkLevel(t, e, m)')
    BY <1>2, <1>5, SpinEnds
  <2>3. Shared(e)'
    BY <2>1, <2>2, OthersHold, SharedKept DEF ChunkLevel
  <2>4. ChunkLevel(e, m)'
    BY <1>1, <2>1, <2>2, <2>3, ChunkLevelKept
  <2> QED
    BY <2>4 DEF LevelInv
<1>6. CASE Start(t) \/ LoopEnd(t) \/ LoopSkip(t) \/ LoopCompute(t)
              \/ Work(t) \/ Convert(t) \/ Chunk(t) \/ Claim(t) \/ NoChunk(t)
  <2>1. pc[t] \in Busy \cup {"start", "loop"}
    BY <1>6 DEF Start, LoopEnd, LoopSkip, LoopCompute, Work, Convert, Chunk, Claim,
                NoChunk, EndNode, Goto, Busy
  <2>2. t \in Participants
    BY <2>1, Inside DEF Out, Released, Computing, Busy
  <2>3. ChunkLevel(e, m)'
    BY <1>6, <2>2, WalkOnChunks
  <2> QED
    BY <2>3 DEF LevelInv
<1>7. NThreads = 1 \/ NThreads > 1
  BY DEF ChunkLevel
<1> QED
  BY <1>3, <1>4, <1>5, <1>6, <1>7 DEF Compute, Passes, InBarrier

\* After the last barrier of a graph threads only go home.
LEMMA OnHome ==
    ASSUME IInv, NEW e \in Nat, HomeLevel(e), NEW t \in Threads, Compute(t)
    PROVE  HomeLevel(e)'
<1> USE TypeFacts DEF IInv
<1>1. Out(t)
  BY DEF HomeLevel, GraphInv
<1>2. BarrierSpin(t)
  BY <1>1, OutGoesHome
<1>3. /\ UNCHANGED <<n_graph, last_graph, n_passed, n_barrier_passed, after, ended, computed>>
      /\ Out(t)'
  BY <1>1, <1>2, SpinEnds DEF poolVars
<1>4. \A u \in Threads \ {t} : Out(u) => Out(u)'
  BY <1>3, ComputeFrame DEF Untouched, Out, Released, Home
<1>5. Participants' = Participants
  BY <1>3 DEF Participants, NThreads
<1> QED
  BY <1>3, <1>4, <1>5 DEF HomeLevel, Joined, AllOnce

\* A worker that sees the graph is at its start, where it counted before.
LEMMA WaitLevel ==
    ASSUME IInv, NEW t \in Workers, Wait(t)
    PROVE  LevelInv'
<1> USE TypeFacts DEF IInv
<1>1. /\ UNCHANGED <<cgraph, n_graph, abort, n_barrier_passed, computed, current_chunk,
                     nth, node_n, chunk, n_passed, after, ended>>
      /\ t \in Threads /\ t # 0 /\ pc[t] \notin Computing
      /\ \A u \in Threads \ {t} : pc'[u] = pc[u] /\ last_graph'[u] = last_graph[u]
  BY WaitFrame DEF waitVars, poolVars
<1>2. UNCHANGED <<NThreads, Participants>>
  BY <1>1 DEF NThreads, Participants
<1>3. \A u \in Threads \ {t} : Untouched(u) /\ last_graph'[u] = last_graph[u]
  BY <1>1 DEF Untouched
<1>4. ASSUME NEW e \in Nat, HomeLevel(e)
      PROVE  HomeLevel(e)'
  <2>1. t \in Participants => Joined(t) /\ Joined(t)' /\ Out(t)'
    BY <1>1, <1>4, WaitFrame DEF HomeLevel, Joined, Out
  <2>2. \A u \in Threads \ {t} : (Out(u) => Out(u)') /\ (Joined(u) => Joined(u)')
    BY <1>1 DEF Out, Released, Joined, Home
  <2> QED
    BY <1>1, <1>2, <1>4, <2>1, <2>2 DEF HomeLevel, AllOnce
<1>5. ASSUME NEW e \in Nat, NEW m \in Nat, LoopLevel(e, m)
      PROVE  LoopLevel(e, m)'
  <2>1. ASSUME t \in Participants
        PROVE  OnLoopLevel(t, e, m)'
    <3>1. OnLoopLevel(t, e, m)
      BY <1>5, <2>1 DEF LoopLevel
    <3>2. Fresh(t, e, m) /\ ~Joined(t)
      BY <1>1, <3>1 DEF OnLoopLevel, Fresh, InLoop, InNode, Done, Converted,
                        NoPhase, At, Released, Held, Barrier, Busy, Computing
    <3>3. Leads(0, m)' <=> Leads(0, m)
      BY <1>1 DEF Leads, Going, OpAt
    <3>4. IF Joined(t)' THEN pc'[t] = "start" ELSE Out(t)'
      BY <1>1, <2>1, <3>2, WaitFrame DEF Out
    <3> QED
      BY <1>1, <3>2, <3>3, <3>4 DEF OnLoopLevel, Fresh
  <2> QED
    BY <1>1, <1>3, <1>5, <2>1, LoopKept
<1>6. ASSUME NEW e \in Nat, NEW m \in Nat, ChunkLevel(e, m)
      PROVE  ChunkLevel(e, m)'
  <2>1. t \notin Participants
    <3>1. ASSUME t \in Participants
          PROVE  FALSE
      <4>1. OnChunkLevel(t, e, m)
        BY <1>6, <3>1 DEF ChunkLevel
      <4> QED
        BY <1>1, <4>1 DEF OnChunkLevel, Claiming, Done, At, Released, Held, Barrier,
                          Busy, Computing
    <3> QED
      BY <3>1
  <2>2. \A u \in Participants : Holds(u)' <=> Holds(u)
    BY <1>1, <2>1 DEF Holds, At, Released
  <2>3. Shared(e)'
    BY <1>1, <1>6, <2>2, SharedKept DEF ChunkLevel
  <2> QED
    BY <1>1, <1>3, <1>6, <2>1, <2>3, ChunkLevelKept
<1> QED
  BY <1>4, <1>5, <1>6 DEF LevelInv

\* A kickoff puts all its threads at the start of the graph.
LEMMA CallerLevel ==
    ASSUME IInv, GraphCompute \/ Kickoff \/ SetPause \/ Free \/ Join
    PROVE  LevelInv'
<1> USE TypeFacts DEF IInv
<1>1. PICK e \in Nat : HomeLevel(e)
  BY CallerFrame, CallerHome
<1>2. /\ pc[0] \notin Computing
      /\ UNCHANGED <<n_barrier_passed, last_graph, nth, node_n, n_passed, after>>
  BY CallerFrame
<1>3. \A u \in Workers : Out(u) /\ Out(u)'
  <2>1. \A u \in Workers : Out(u)
    BY <1>1 DEF HomeLevel, GraphInv, Workers
  <2> QED
    BY <1>2, <2>1, CallerFrame DEF Out, Released, Home, Computing, Busy, Barrier, Workers
<1>4. CASE ~Kickoff
  <2>1. UNCHANGED <<n_graph, ended>> /\ Out(0)'
    BY <1>4, CallerFrame DEF Out
  <2>2. AllOnce'
    <3>1. CASE GraphCompute
      BY <3>1 DEF GraphCompute, AllOnce
    <3>2. CASE SetPause \/ Free \/ Join
      BY <1>1, <3>2 DEF SetPause, Free, Join, HomeLevel, AllOnce
    <3> QED
      BY <1>4, <3>1, <3>2
  <2>3. Participants' = Participants
    BY <2>1 DEF Participants, NThreads
  <2>4. \A u \in Participants : Out(u)'
    BY <1>3, <2>1 DEF Workers
  <2>5. HomeLevel(e)'
    BY <1>1, <1>2, <2>1, <2>2, <2>3, <2>4 DEF HomeLevel, Joined
  <2> QED
    BY <2>5 DEF LevelInv
<1>5. CASE Kickoff
  <2>1. PICK m \in Nat : /\ m <= Len(cgraph) /\ Leads(0, m)
                         /\ Going(m) => OpAt(m) # "empty"
    BY StopsSomewhere
  <2>2. /\ UNCHANGED <<cgraph, abort, computed>> /\ pc'[0] = "start"
        /\ n_graph' = [count |-> n_graph.count + 1, threads |-> asked]
        /\ ended' = [u \in Threads |-> 0]
    BY <1>5, CallerFrame DEF Kickoff
  <2>3. (/\ m <= Len(cgraph) /\ Leads(0, m)
         /\ Going(m) => OpAt(m) # "empty")'
    BY <2>1, <2>2 DEF Leads, Going, OpAt
  <2>4. (NThreads > 0)' /\ Participants' \subseteq Threads
    <3>1. (NThreads > 0)'
      BY <2>2 DEF TypeOK, NThreads
    <3> QED
      BY <3>1, CallerTypes, ParticipantsNext
  <2>5. \A u \in Workers : ~Joined(u)'
    <3>1. \A g \in GraphIds : g.count \in Nat
      BY BoundAssumption DEF GraphIds
    <3>2. \A u \in Workers : last_graph[u] \in GraphIds /\ n_graph \in GraphIds
      BY DEF TypeOK, Workers
    <3>3. \A u \in Workers : last_graph[u] = n_graph \/ last_graph[u].count < n_graph.count
      BY DEF GraphInv
    <3>4. ASSUME NEW u \in Workers
          PROVE  last_graph[u].count < n_graph.count + 1
      BY <3>1, <3>2, <3>3
    <3>5. \A u \in Workers : last_graph'[u] # n_graph'
      <4>1. ASSUME NEW u \in Workers, last_graph'[u] = n_graph'
            PROVE  FALSE
        <5>1. last_graph[u].count = n_graph.count + 1
          BY <1>2, <2>2, <4>1
        <5>2. n_graph.count \in Nat
          BY <3>1, <3>2
        <5> QED
          BY <3>4, <5>1, <5>2
      <4> QED
        BY <4>1
    <3> QED
      BY <3>5 DEF Joined, Workers
  <2>6. \A u \in Participants' : Fresh(u, 0, m)'
    <3>1. ASSUME NEW u \in Participants'
          PROVE  (IF Joined(u) THEN pc[u] = "start" ELSE Out(u))'
      BY <1>3, <2>2, <2>4, <2>5 DEF Workers, Joined
    <3> QED
      BY <2>2, <2>3, <2>4, <3>1 DEF Fresh
  <2>7. ~Converted(0, 0, m)' /\ AllOnce'
    BY <1>1, <2>2 DEF Converted, Held, Barrier, HomeLevel, AllOnce
  <2>8. LoopLevel(0, m)'
    BY <2>3, <2>4, <2>6, <2>7 DEF LoopLevel, OnLoopLevel, Prepared
  <2> QED
    BY <2>8 DEF LevelInv
<1> QED
  BY <1>4, <1>5

-----------------------------------------------------------------------------
(* The invariant *)

\* The invariant holds initially.
LEMMA StartsAtHome ==
    ASSUME Init
    PROVE  IInv
<1>1. TypeOK
  <2>1. PointsOK
    BY ThreadsAssumption DEF Init, PointsOK, MainPoints, WorkerPoints, Workers, Threads
  <2>2. [count |-> 0, threads |-> 0] \in GraphIds
    BY ThreadsAssumption, BoundAssumption DEF GraphIds
  <2>3. /\ cgraph \in Graphs \cup {<<>>} /\ n_graph \in GraphIds
        /\ n_barrier \in 0 .. N /\ asked \in 1 .. N
        /\ n_barrier_passed \in Nat /\ current_chunk \in Nat
    BY <2>2, ThreadsAssumption DEF Init
  <2>4. abort \in Nat \cup {-1} /\ stop \in BOOLEAN /\ pause \in BOOLEAN
    BY DEF Init
  <2>5. /\ last_graph \in [Threads -> GraphIds] /\ nth \in [Threads -> 0 .. N]
        /\ node_n \in [Threads -> Nat] /\ chunk \in [Threads -> Nat]
        /\ n_passed \in [Threads -> Nat] /\ ended \in [Threads -> Nat]
        /\ after \in [Threads -> {"loop", "chunk", "idle", "top"}]
    BY <2>2, ThreadsAssumption DEF Init
  <2>6. \A c \in DOMAIN computed : computed[c] \in Nat
    BY DEF Init
  <2> QED
    BY <2>1, <2>3, <2>4, <2>5, <2>6 DEF PointsOK, TypeOK
<1>2. Participants = {} /\ \A t \in Threads : pc[t] \notin Computing
  BY DEF Init, Participants, NThreads, Computing, Busy, Barrier
<1>3. 0 \in Threads
  BY <1>1, TypeFacts
<1>4. GraphInv
  BY <1>1, <1>2, <1>3 DEF Init, GraphInv, Out, Home, Workers
<1>5. BarrierInv
  <2>1. {t \in Participants : Waiting(t)} = {}
    BY <1>2
  <2> QED
    BY <1>2, <2>1, FS_EmptySet DEF Init, BarrierInv, Waiting, Computing, Busy, Barrier
<1>6. HomeLevel(0)
  BY <1>2, <1>3 DEF HomeLevel, Out, AllOnce, Init
<1> QED
  BY <1>1, <1>4, <1>5, <1>6 DEF IInv, LevelInv

\* Every step keeps the invariant.
LEMMA StepKeeps ==
    ASSUME IInv, [Next]_vars
    PROVE  IInv'
<1> USE DEF IInv
<1>1. ASSUME NEW t \in Threads, Compute(t)
      PROVE  IInv'
  <2>1. TypeOK'
    BY <1>1, BarrierTypes, WalkTypes DEF Compute
  <2>2. LevelInv'
    <3>1. ASSUME NEW e \in Nat, HomeLevel(e)
          PROVE  LevelInv'
      BY <1>1, <3>1, OnHome DEF LevelInv
    <3> QED
      BY <1>1, <3>1, OnLoop, OnChunks DEF LevelInv
  <2> QED
    BY <1>1, <2>1, <2>2, ComputeGraph, ComputeBarrier
<1>2. ASSUME NEW t \in Workers, Wait(t)
      PROVE  IInv'
  BY <1>2, WaitTypes, WaitGraph, WaitBarrier, WaitLevel
<1>3. CASE GraphCompute \/ Kickoff \/ SetPause \/ Free \/ Join
  BY <1>3, CallerTypes, CallerGraph, CallerBarrier, CallerLevel
<1>4. CASE UNCHANGED vars
  <2>1. UNCHANGED <<cgraph, n_graph, n_barrier, n_barrier_passed, current_chunk,
                    stop, pause, abort, pc, last_graph, nth, node_n, chunk,
                    n_passed, after, asked, ended, computed>>
    BY <1>4 DEF vars, poolVars, threadVars
  <2>2. TypeOK'
    BY <2>1 DEF TypeOK
  <2>3. GraphInv'
    BY <2>1 DEF GraphInv, Participants, NThreads, Out, Released, Home
  <2>4. BarrierInv'
    BY <2>1 DEF BarrierInv, Participants, NThreads, Waiting
  <2>5. \A e \in Nat : HomeLevel(e)' <=> HomeLevel(e)
    BY <2>1 DEF HomeLevel, Participants, NThreads, Out, Released, Home, Joined, AllOnce
  <2>6. \A u \in Threads : Untouched(u)
    BY <2>1 DEF Untouched
  <2>7. 0 \in Threads
    BY TypeFacts
  <2>8. ASSUME NEW e \in Nat, NEW m \in Nat, LoopLevel(e, m)
        PROVE  LoopLevel(e, m)'
    <3>1. 0 \in Participants => OnLoopLevel(0, e, m)'
      BY <2>1, <2>6, <2>7, <2>8, LevelKept DEF LoopLevel
    <3>2. Converted(0, e, m)' <=> Converted(0, e, m)
      BY <2>1, <2>6, <2>7, LevelKept
    <3> QED
      BY <2>1, <2>6, <2>7, <2>8, <3>1, <3>2, LoopKept
  <2>9. ASSUME NEW e \in Nat, NEW m \in Nat, ChunkLevel(e, m)
        PROVE  ChunkLevel(e, m)'
    <3>1. 0 \in Participants => OnChunkLevel(0, e, m)'
      BY <2>1, <2>6, <2>7, <2>9, LevelKept DEF ChunkLevel
    <3>2. \A u \in Participants : Holds(u)' <=> Holds(u)
      BY <2>1 DEF Holds, At, Released
    <3>3. Shared(e)'
      BY <2>1, <2>9, <3>2, SharedKept DEF ChunkLevel
    <3> QED
      BY <2>1, <2>6, <2>7, <2>9, <3>1, <3>3, ChunkLevelKept
  <2> QED
    BY <2>2, <2>3, <2>4, <2>5, <2>8, <2>9 DEF LevelInv
<1> QED
  BY <1>1, <1>2, <1>3, <1>4 DEF Next

\* The invariant holds in every state.
THEOREM Invariance == Spec => []IInv
<1>1. Init => IInv
  BY StartsAtHome
<1>2. IInv /\ [Next]_vars => IInv'
  BY StepKeeps
<1> QED
  BY <1>1, <1>2, PTL DEF Spec

-----------------------------------------------------------------------------
(* The properties *)

\* Type correctness of the pool and its threads, and that n_barrier never
\* counts more threads than there are.
THEOREM TypeCorrect == Spec => []TypeOK
<1>1. IInv => TypeOK
  BY DEF IInv
<1> QED
  BY <1>1, Invariance, PTL

\* Between two graphs no worker accesses what ggml_graph_compute writes to
\* start the next one, as its comment says.
THEOREM WorkersAreOut == Spec => []ParametersAlone
<1>1. ASSUME IInv, pc[0] \in {"idle", "kickoff", "joining", "freed"}
      PROVE  \A t \in Workers : pc[t] \in Computing => pc[t] = "spin" /\ after[t] = "top"
  <2>1. PICK e \in Nat : HomeLevel(e)
    BY <1>1, CallerHome DEF IInv, Computing, Busy, Barrier
  <2> QED
    BY <1>1, <2>1, TypeFacts DEF IInv, HomeLevel, GraphInv, Out, Released, Home, Workers
<1>2. IInv => ParametersAlone
  BY <1>1 DEF ParametersAlone
<1> QED
  BY <1>2, Invariance, PTL

\* No chunk of a matrix multiplication is computed twice or left out, for every
\* number of threads and chunks, whether chunks are merged or not.
THEOREM ChunksComputedOnce == Spec => []ChunksOnce
<1>1. ASSUME IInv
      PROVE  ChunksOnce
  <2> USE <1>1, TypeFacts DEF IInv
  <2>1. CASE AllOnce
    BY <2>1 DEF AllOnce, ChunksOnce
  <2>2. ASSUME NEW e \in Nat, NEW m \in Nat, LoopLevel(e, m), ~AllOnce
        PROVE  ChunksOnce
    <3>1. Converted(0, e, m) /\ computed = [c \in Chunks |-> 0]
      BY <2>2 DEF LoopLevel, Prepared
    <3>2. pc[0] \notin {"idle", "loop"}
      BY <3>1 DEF Converted, Held, Barrier
    <3> QED
      BY <3>1, <3>2 DEF ChunksOnce
  <2>3. ASSUME NEW e \in Nat, NEW m \in Nat, ChunkLevel(e, m)
        PROVE  ChunksOnce
    <3>1. OnChunkLevel(0, e, m)
      BY <2>3 DEF ChunkLevel, Participants
    <3>2. computed \in [Chunks -> {0, 1}]
      BY <2>3 DEF ChunkLevel, Shared
    <3>3. pc[0] # "idle"
      BY <3>1 DEF OnChunkLevel, Claiming, Done, At, Held, Barrier, Released
    <3>4. pc[0] = "loop" => ~(node_n[0] < Len(cgraph))
      BY <3>1 DEF OnChunkLevel, Claiming, Done, At, Held, Barrier, Released
    <3> QED
      BY <3>2, <3>3, <3>4 DEF ChunksOnce
  <2> QED
    BY <2>1, <2>2, <2>3 DEF LevelInv, HomeLevel
<1>2. IInv => ChunksOnce
  BY <1>1
<1> QED
  BY <1>2, Invariance, PTL

-----------------------------------------------------------------------------
(* ThreadPool implements GraphPhases *)

\* A thread in a phase has ended the fewest phases of all.
LEMMA BusyIsBehind ==
    IInv => \A t \in Threads : pc[t] \in Busy =>
               /\ t \in Participants /\ pc[0] \in Computing
               /\ \A u \in Participants : ended[t] <= ended[u]
<1> SUFFICES ASSUME IInv, NEW t \in Threads, pc[t] \in Busy
             PROVE  /\ t \in Participants /\ pc[0] \in Computing
                    /\ \A u \in Participants : ended[t] <= ended[u]
  OBVIOUS
<1> USE TypeFacts DEF IInv
<1>1. ~Out(t) /\ ~Released(t) /\ ~Held(t) /\ pc[t] # "loop" /\ t \in Participants
  BY Inside DEF Out, Released, Held, Busy, Barrier, Computing
<1>2. pc[0] \in Computing
  BY <1>1, CallerHome DEF HomeLevel
<1>3. ASSUME NEW e \in Nat, NEW m \in Nat, LoopLevel(e, m)
      PROVE  \A u \in Participants : ended[t] <= ended[u]
  <2>1. ended[t] = e
    BY <1>1, <1>3, PhaseOnLoop DEF LoopLevel, InNode
  <2>2. \A u \in Participants : ended[u] = e \/ ended[u] = e + 1
    BY <1>3 DEF LoopLevel, OnLoopLevel, Fresh, InLoop, InNode, Done, Converted, NoPhase
  <2> QED
    BY <2>1, <2>2
<1>4. ASSUME NEW e \in Nat, NEW m \in Nat, ChunkLevel(e, m)
      PROVE  \A u \in Participants : ended[t] <= ended[u]
  <2>1. ended[t] = e
    BY <1>1, <1>4, AtChunks DEF ChunkLevel, Claiming
  <2>2. \A u \in Participants : ended[u] = e \/ ended[u] = e + 1
    BY <1>4 DEF ChunkLevel, OnChunkLevel, Claiming, Done
  <2> QED
    BY <2>1, <2>2
<1>5. ~\E e \in Nat : HomeLevel(e)
  BY <1>1 DEF HomeLevel
<1> QED
  BY <1>1, <1>2, <1>3, <1>4, <1>5 DEF LevelInv

\* Between two graphs all participants have ended the same phases.
LEMMA HomeTogether ==
    IInv => (pc[0] \notin Computing =>
                /\ \A t \in Threads : pc[t] \notin Busy
                /\ \A t, u \in Participants : ended[t] = ended[u])
<1> SUFFICES ASSUME IInv, pc[0] \notin Computing
             PROVE  /\ \A t \in Threads : pc[t] \notin Busy
                    /\ \A t, u \in Participants : ended[t] = ended[u]
  OBVIOUS
<1> USE TypeFacts DEF IInv
<1>1. PICK e \in Nat : HomeLevel(e)
  BY CallerHome
<1>2. \A t \in Threads : Out(t)
  BY <1>1 DEF HomeLevel, GraphInv
<1> QED
  BY <1>1, <1>2 DEF HomeLevel, Out, Released, Busy, Computing

\* A step of a thread ends its phase, or leaves it in its phase if it is in one.
LEMMA PhaseSteps ==
    ASSUME TypeOK, NEW t \in Threads, Compute(t)
    PROVE  \/ /\ pc[t] \in Busy /\ pc'[t] \in Computing \ Busy
              /\ ended' = [ended EXCEPT ![t] = @ + 1]
           \/ ended' = ended /\ (pc[t] \in Busy => pc'[t] \in Busy)
<1> USE DEF Busy, Computing, Barrier
<1>1. CASE BarrierEnter(t) \/ BarrierAdd(t) \/ BarrierReset(t)
              \/ BarrierPass(t) \/ BarrierSpin(t)
  BY <1>1 DEF BarrierEnter, BarrierAdd, BarrierReset, BarrierPass, BarrierSpin,
              Leave, Goto
<1>2. CASE Start(t) \/ LoopEnd(t) \/ LoopSkip(t) \/ LoopCompute(t)
  BY <1>2 DEF Start, LoopEnd, LoopSkip, LoopCompute, Goto
<1>3. CASE Work(t) \/ Convert(t) \/ NoChunk(t)
  BY <1>3 DEF Work, Convert, NoChunk, EndNode, EndPhase, Goto, TypeOK
<1>4. CASE Claim(t)
  BY <1>4 DEF Claim, Goto, TypeOK
<1>5. CASE Chunk(t)
  <2>1. CASE nth[t] >= Total(nth[t])
    BY <1>5, <2>1 DEF Chunk, EndNode, EndPhase, Goto, TypeOK
  <2>2. CASE ~(nth[t] >= Total(nth[t]))
    BY <1>5, <2>2 DEF Chunk, Goto, TypeOK
  <2> QED
    BY <2>1, <2>2
<1> QED
  BY <1>1, <1>2, <1>3, <1>4, <1>5 DEF Compute

\* What GraphPhases sees of the pool.
Active == IF pc[0] \in Computing THEN Participants ELSE {}
InPhase == {t \in Threads : pc[t] \in Busy}

\* The same after a step.
LEMMA AfterStep ==
    IInv' => /\ (\A t \in Threads : pc[t] \in Busy =>
                    /\ t \in Participants /\ pc[0] \in Computing
                    /\ \A u \in Participants : ended[t] <= ended[u])'
             /\ (pc[0] \notin Computing =>
                    /\ \A t \in Threads : pc[t] \notin Busy
                    /\ \A t, u \in Participants : ended[t] = ended[u])'
BY BusyIsBehind, HomeTogether, PTL

\* A step of a thread within a graph begins or ends its phase, returns, or
\* changes nothing that GraphPhases sees.
LEMMA ComputeImplements ==
    ASSUME IInv, IInv', NEW t \in Threads, Compute(t)
    PROVE  Phases!Next \/ UNCHANGED Phases!vars
<1> USE TypeFacts DEF IInv
<1>1. /\ UNCHANGED <<n_graph, NThreads, Participants>>
      /\ pc[t] \in Computing
      /\ \A u \in Threads \ {t} : pc'[u] = pc[u]
  BY ComputeFrame DEF NThreads, Participants, Untouched
<1>2. CASE /\ pc[t] \in Busy /\ pc'[t] \in Computing \ Busy
           /\ ended' = [ended EXCEPT ![t] = @ + 1]
  <2>1. Active' = Active
    BY <1>1, <1>2 DEF Active
  <2>2. t \in InPhase /\ InPhase' = InPhase \ {t}
    BY <1>1, <1>2 DEF InPhase
  <2>3. Phases!EndPhase(t)
    BY <1>2, <2>1, <2>2 DEF Phases!EndPhase, Active, InPhase, Participants
  <2> QED
    BY <2>3 DEF Phases!Next
<1>3. CASE ended' = ended /\ pc[t] \notin Busy /\ pc'[t] \in Busy
  <2>1. /\ t \in Participants' /\ pc'[0] \in Computing
        /\ \A u \in Participants' : ended'[t] <= ended'[u]
    BY <1>3, AfterStep, Zenon
  <2>2. pc[0] \in Computing
    BY <1>1, <2>1
  <2>3. Active' = Active /\ Active = Participants
    BY <1>1, <2>1, <2>2 DEF Active
  <2>4. t \notin InPhase /\ InPhase' = InPhase \cup {t}
    BY <1>1, <1>3 DEF InPhase
  <2>5. \A u \in Participants : ended[u] >= ended[t]
    <3>1. \A u \in Threads : ended[u] \in Nat
      BY DEF TypeOK
    <3> QED
      BY <1>1, <1>3, <2>1, <3>1
  <2>6. Phases!BeginPhase(t)
    BY <1>1, <1>3, <2>1, <2>3, <2>4, <2>5
       DEF Phases!BeginPhase, Active, InPhase, Participants
  <2> QED
    BY <2>6 DEF Phases!Next
<1>4. CASE ended' = ended /\ (pc[t] \in Busy <=> pc'[t] \in Busy)
  <2>1. InPhase' = InPhase
    BY <1>1, <1>4 DEF InPhase
  <2>2. CASE pc[0] \in Computing <=> pc'[0] \in Computing
    <3>1. Active' = Active
      BY <1>1, <2>2 DEF Active
    <3> QED
      BY <1>4, <2>1, <3>1 DEF Phases!vars, Active, InPhase, Participants
  <2>3. CASE ~(pc[0] \in Computing <=> pc'[0] \in Computing)
    <3>1. t = 0 /\ pc[0] \in Computing /\ pc'[0] \notin Computing
      BY <1>1, <2>3
    <3>2. /\ \A u \in Threads : pc'[u] \notin Busy
          /\ \A u, v \in Participants' : ended'[u] = ended'[v]
      BY <3>1, AfterStep, Zenon
    <3>3. InPhase = {} /\ \A u, v \in Participants : ended[u] = ended[v]
      BY <1>1, <1>4, <2>1, <3>1, <3>2 DEF InPhase
    <3>4. Active = Participants /\ Active' = {} /\ Active # {}
      <4>1. 0 \in Participants
        BY <3>1 DEF GraphInv, Participants
      <4> QED
        BY <3>1, <4>1 DEF Active
    <3>5. Phases!Return
      BY <1>4, <2>1, <3>3, <3>4 DEF Phases!Return, Active, InPhase, Participants
    <3> QED
      BY <3>5 DEF Phases!Next
  <2> QED
    BY <2>2, <2>3
<1> QED
  BY <1>2, <1>3, <1>4, PhaseSteps

\* A kickoff is the call of GraphPhases.
LEMMA CallerImplements ==
    ASSUME IInv, GraphCompute \/ Kickoff \/ SetPause \/ Free \/ Join
    PROVE  Phases!Next \/ UNCHANGED Phases!vars
<1> USE TypeFacts DEF IInv
<1>1. pc[0] \notin Computing /\ Active = {} /\ InPhase = {}
  BY CallerFrame, HomeTogether DEF Active, InPhase
<1>2. InPhase' = {}
  BY <1>1, CallerFrame DEF InPhase, Workers, Busy, Computing
<1>3. CASE ~Kickoff
  <2>1. Active' = {} /\ ended' = ended
    BY <1>3, CallerFrame DEF Active
  <2> QED
    BY <1>1, <1>2, <2>1 DEF Phases!vars, Active, InPhase, Participants
<1>4. CASE Kickoff
  <2>1. pc'[0] \in Computing /\ NThreads' = asked /\ ended' = [u \in Threads |-> 0]
    BY <1>4, CallerFrame DEF Kickoff, NThreads, Computing
  <2>2. Participants' \subseteq Threads
    BY CallerTypes, ParticipantsNext
  <2>3. Participants' # {}
    <3>1. Participants' = 0 .. asked - 1 /\ asked \in 1 .. N
      BY <2>1 DEF Participants, TypeOK
    <3>2. 0 \in Participants'
      BY <3>1
    <3> QED
      BY <3>2
  <2>4. Active' \in SUBSET Threads \ {{}}
    BY <2>1, <2>2, <2>3 DEF Active
  <2>5. Phases!Call
    BY <1>1, <1>2, <2>1, <2>4 DEF Phases!Call, Active, InPhase, Participants
  <2> QED
    BY <2>5 DEF Phases!Next
<1> QED
  BY <1>3, <1>4

\* A worker that waits for work changes nothing that GraphPhases sees.
LEMMA WaitImplements ==
    ASSUME IInv, NEW t \in Workers, Wait(t)
    PROVE  UNCHANGED Phases!vars
<1> USE TypeFacts DEF IInv
<1>1. UNCHANGED <<n_graph, ended, NThreads>> /\ pc'[0] = pc[0]
  BY WaitFrame DEF waitVars, poolVars, NThreads
<1>2. InPhase' = InPhase
  BY WaitFrame DEF InPhase, Busy, Computing
<1> QED
  BY <1>1, <1>2 DEF Phases!vars, InPhase

\* The pool keeps what GraphPhases promises to the operators of a graph: no
\* thread begins a phase before all have ended the phase before it, and the
\* call returns when all have ended the same last phase.
THEOREM PhasesSeparated == Spec => ImplementsPhases
<1>1. Init => Phases!Init
  <2> SUFFICES ASSUME Init
               PROVE  Phases!Init
    OBVIOUS
  <2>1. \A t \in Threads : pc[t] \notin Computing
    BY DEF Init, Computing, Busy, Barrier
  <2>2. 0 \in Threads
    BY StartsAtHome, TypeFacts DEF IInv
  <2> QED
    BY <2>1, <2>2 DEF Init, Phases!Init, Computing
<1>2. IInv /\ IInv' /\ [Next]_vars => [Phases!Next]_Phases!vars
  <2> SUFFICES ASSUME IInv, IInv', [Next]_vars
               PROVE  Phases!Next \/ UNCHANGED Phases!vars
    OBVIOUS
  <2>1. CASE UNCHANGED vars
    BY <2>1 DEF vars, poolVars, threadVars, Phases!vars, NThreads
  <2> QED
    BY <2>1, ComputeImplements, WaitImplements, CallerImplements DEF Next
<1> QED
  BY <1>1, <1>2, Invariance, PTL DEF Spec, ImplementsPhases, Phases!Spec
=============================================================================
