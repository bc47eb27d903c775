----------------------------- MODULE GraphAlloc -----------------------------
(***************************************************************************)
(* The graph allocator (ggml/src/ggml-alloc.c): it plans the addresses of  *)
(* the tensors of a graph, so that a tensor takes memory that others no    *)
(* longer need or the place of one of its sources, allocates the buffers   *)
(* for them, and gives the same addresses to later graphs as long as they  *)
(* look the same.                                                          *)
(*                                                                         *)
(* A graph is a sequence of tensors, its leafs before its nodes in the     *)
(* order of the computation.  All input tensors are leafs, so every source *)
(* of a node has been allocated before the node.                           *)
(***************************************************************************)
EXTENDS DynTallocr

CONSTANTS
    Graphs,     \* graphs that are reserved or allocated first
    Later(_),   \* graphs that are allocated after a graph
    MaxBuffers, \* bound on the number of buffers
    MaxCalls    \* bound on the calls

(* A tensor is a record of                                                 *)
(*   op       "none" of a leaf, "view", "inplace" if ggml_op_can_inplace,  *)
(*            or "other"                                                   *)
(*   src      the sequence of its sources                                  *)
(*   view_src the tensor it is a view of, 0 if it is none                  *)
(*   nbytes   the bytes of its elements; tensors with the same number have *)
(*            the same layout                                              *)
(*   extra    what the buffer type allocates beyond them                   *)
(*   external is its data set before ?                                     *)
(*   output   GGML_TENSOR_FLAG_OUTPUT                                      *)
(*   buffer   its buffer, in node_buffer_ids or leaf_buffer_ids            *)

ASSUME CallsAssumption   == MaxCalls \in Nat
ASSUME BuffersAssumption == MaxBuffers \in Nat \ {0}

VARIABLES
    n_buffers,  \* galloc->n_buffers, each of a type of its own
    graph,      \* the graph of the call
    planned,    \* the graph that the plan was made for: n_nodes, size_max
    plan,       \* leaf_allocs and node_allocs: the addresses
    buf_tallocs, \* the allocator of every buffer
    buffers,    \* sizes of the chunks of every buffer
    n_children, \* hash_node::n_children of every tensor
    n_views,    \* hash_node::n_views
    allocated,  \* hash_node::allocated: the tensors that own their memory
    addr,       \* hash_node::buffer_id and addr
    call,       \* the operation: none, reserve or alloc
    pc,         \* its program point
    i,          \* the tensor it is at
    j,          \* the source of the node it is at
    calls       \* number of calls

hashVars == <<n_children, n_views, allocated, addr>>
planVars == <<planned, plan, buffers>>
vars == <<n_buffers, graph, planVars, buf_tallocs, hashVars, call, pc, i, j,
          calls>>

Buffers == 0 .. n_buffers - 1
Invalid == [buffer |-> -1, chunk |-> 0, offset |-> 0]

\* ggml_backend_buft_get_alloc_size
AllocSize(t) == t.nbytes + t.extra

IsView(t) == t.view_src # 0

-----------------------------------------------------------------------------
(* ggml_gallocr_alloc_graph_impl *)

Leafs(g) == {t \in DOMAIN g : g[t].op = "none"}
Nodes(g) == DOMAIN g \ Leafs(g)

\* The sources of all nodes, in their places.
Uses(g) == UNION {{<<n, k>> : k \in DOMAIN g[n].src} : n \in Nodes(g)}

\* The tensors, as described above.
Tensors ==
    [op : {"none", "view", "inplace", "other"}, src : Seq(Nat), view_src : Nat,
     nbytes : Nat \ {0}, extra : Nat, external : BOOLEAN, output : BOOLEAN,
     buffer : Nat]

\* A graph in the order of its computation: ggml_visit_parents_graph visits the
\* sources first, and a tensor without an operator is a leaf.  A view is of a
\* tensor that is none (ggml_new_tensor_impl), tensors are not empty, the
\* last chunk has room for all of them, and one that may take the place of a source
\* needs no more memory (ggml_gallocr_free_extra_space asserts it).  Nodes of
\* ggml-backend that only hold dependencies (GGML_OP_NONE) are left out.
IsGraph(g) ==
    /\ g \in Seq(Tensors) /\ g # <<>>
    /\ \A t \in DOMAIN g :
           /\ \A k \in DOMAIN g[t].src : g[t].src[k] \in 1 .. t - 1
           /\ IsView(g[t]) => /\ g[t].view_src \in 1 .. t - 1
                              /\ ~IsView(g[g[t].view_src])
           /\ g[t].op = "none" => g[t].src = <<>> /\ ~IsView(g[t])
           /\ Len(g) * Aligned(AllocSize(g[t])) <= Endless
           /\ g[t].op = "inplace" =>
                  \A k \in DOMAIN g[t].src :
                      g[g[t].src[k]].nbytes = g[t].nbytes =>
                          AllocSize(g[t]) <= AllocSize(g[g[t].src[k]])

ASSUME GraphsAssumption ==
    \A g \in Graphs : \A h \in {g} \cup Later(g) :
        IsGraph(h) /\ Later(h) \subseteq Later(g)

\* Numbers of the uses of a tensor and of the nodes that are views of it.
Children(g, t) == Cardinality({u \in Uses(g) : g[u[1]].src[u[2]] = t})
Views(g, t) == Cardinality({n \in Nodes(g) : g[n].view_src = t})

Clear(g) ==
    /\ n_children' = [t \in DOMAIN g |-> Children(g, t)]
    /\ n_views' = [t \in DOMAIN g |-> Views(g, t)]
    /\ allocated' = {}
    /\ addr' = [t \in DOMAIN g |-> Invalid]
    /\ buf_tallocs' = [b \in Buffers |-> <<>>]

\* ggml_gallocr_is_allocated
IsAllocated(t) == graph[t].external \/ t \in allocated

\* A mutant of CanReuse: a source that is used again is taken as well.
CanReuseUsed(t, p) ==
    /\ p \in allocated
    /\ ~graph[p].output
    /\ graph[t].nbytes = graph[p].nbytes
    /\ n_views[p] = 0

\* The source p is not needed after t, which takes its place.
CanReuse(t, p) ==
    /\ p \in allocated
    /\ ~graph[p].output
    /\ graph[t].nbytes = graph[p].nbytes
    /\ n_children[p] = 1
    /\ n_views[p] = 0

Reusable(t) ==
    {k \in DOMAIN graph[t].src :
        graph[t].op = "inplace" /\ CanReuse(t, graph[t].src[k])}

\* ggml_gallocr_free_extra_space
ExtraFreed(t, p) ==
    LET kept == Aligned(AllocSize(graph[t]))
        size == Aligned(AllocSize(graph[p]))
    IN  IF size > kept
        THEN [buf_tallocs EXCEPT ![addr[p].buffer] =
                 FreeBytes(@, [chunk |-> addr[p].chunk,
                               offset |-> addr[p].offset + kept],
                           size - kept)]
        ELSE buf_tallocs

TakePlace(t, p) ==
    /\ addr' = [addr EXCEPT ![t] = addr[p]]
    /\ allocated' = (allocated \ {p}) \cup {t}
    /\ buf_tallocs' = ExtraFreed(t, p)

TakeMemory(t) ==
    LET b == graph[t].buffer
        new == Alloc(buf_tallocs[b], AllocSize(graph[t]))
    IN  /\ addr' = [addr EXCEPT ![t] = [buffer |-> b, chunk |-> new.addr.chunk,
                                        offset |-> new.addr.offset]]
        /\ allocated' = allocated \cup {t}
        /\ buf_tallocs' = [buf_tallocs EXCEPT ![b] = new.alloc]

\* ggml_gallocr_allocate_node
AllocateNode(t) ==
    IF IsAllocated(t) \/ IsView(graph[t])
    THEN UNCHANGED <<addr, allocated, buf_tallocs>>
    ELSE IF Reusable(t) # {}
    THEN TakePlace(t, graph[t].src[Min(Reusable(t))])
    ELSE TakeMemory(t)

AllocateTensor ==
    /\ pc = "allocate"
    /\ AllocateNode(i)
    /\ j' = 1
    /\ IF i \in Leafs(graph)
       THEN /\ i' = i + 1
            /\ pc' = IF i = Len(graph) THEN "buffers" ELSE "allocate"
       ELSE pc' = "update" /\ UNCHANGED i
    /\ UNCHANGED <<n_buffers, graph, planVars, n_children, n_views, call, calls>>

\* ggml_gallocr_free_node; graph outputs are never freed.
FreeNode(t) ==
    IF graph[t].output \/ t \notin allocated
    THEN UNCHANGED <<allocated, buf_tallocs>>
    ELSE /\ allocated' = allocated \ {t}
         /\ buf_tallocs' = [buf_tallocs EXCEPT ![addr[t].buffer] =
                               FreeBytes(@, addr[t], AllocSize(graph[t]))]

\* The node has used its source p once more.
UpdateParent(p) ==
    LET v == graph[p].view_src
        unused == n_children[p] = 1 /\ n_views[p] = 0
    IN  /\ n_children' = [n_children EXCEPT ![p] = @ - 1]
        /\ n_views' = IF unused /\ v # 0 THEN [n_views EXCEPT ![v] = @ - 1]
                      ELSE n_views
        /\ IF ~unused
           THEN UNCHANGED <<allocated, buf_tallocs>>
           ELSE IF v = 0
           THEN FreeNode(p)
           ELSE IF n_views[v] = 1 /\ n_children[v] = 0
           THEN FreeNode(v)
           ELSE UNCHANGED <<allocated, buf_tallocs>>

UpdateParents ==
    /\ pc = "update"
    /\ j <= Len(graph[i].src)
    /\ UpdateParent(graph[i].src[j])
    /\ j' = j + 1
    /\ UNCHANGED <<n_buffers, graph, planVars, addr, call, pc, i, calls>>

NextNode ==
    /\ pc = "update"
    /\ j > Len(graph[i].src)
    /\ i' = i + 1
    /\ pc' = IF i = Len(graph) THEN "buffers" ELSE "allocate"
    /\ UNCHANGED <<n_buffers, graph, planVars, buf_tallocs, hashVars, call, j, calls>>

-----------------------------------------------------------------------------
(* ggml_gallocr_reserve_n_impl, ggml_gallocr_alloc_graph *)

Begin(g, operation) ==
    /\ calls < MaxCalls
    /\ calls' = calls + 1
    /\ graph' = g
    /\ call' = operation
    /\ pc' = "allocate"
    /\ i' = 1
    /\ j' = 1
    /\ Clear(g)
    /\ UNCHANGED <<n_buffers, planVars>>

\* The graphs that a caller may come with.
Coming ==
    {g \in IF planned = <<>> THEN Graphs ELSE Later(planned) :
        \A t \in DOMAIN g : g[t].buffer \in Buffers}

Reserve ==
    /\ pc \in {"idle", "ready"}
    /\ \E g \in Coming : Begin(g, "reserve")

ChunkSizes(b) == [c \in DOMAIN buf_tallocs[b] |-> buf_tallocs[b][c].max_size]

\* A mutant of TooSmall: only the first chunk of a buffer is compared.
FirstTooSmall(b) ==
    buf_tallocs[b] # <<>> /\
        (buffers[b] = <<>> \/ buf_tallocs[b][1].max_size > buffers[b][1])

TooSmall(b) ==
    \/ buffers[b] = <<>>
    \/ \E c \in DOMAIN buf_tallocs[b] :
           buf_tallocs[b][c].max_size >
               (IF c \in DOMAIN buffers[b] THEN buffers[b][c] ELSE 0)

\* The plan is kept and the buffers are allocated again if needed.  (A call that only
\* measures, no_alloc of ggml_gallocr_reserve_n_size, is left out.)
ReserveBuffers ==
    /\ pc = "buffers"
    /\ planned' = graph
    /\ plan' = addr
    /\ buffers' = [b \in Buffers |-> IF TooSmall(b) THEN ChunkSizes(b)
                                     ELSE buffers[b]]
    /\ pc' = IF call = "alloc" THEN "ready" ELSE "idle"
    /\ UNCHANGED <<n_buffers, graph, buf_tallocs, hashVars, call, i, j, calls>>

\* ggml_gallocr_node_needs_realloc, which says whether it does not: the
\* tensor g[t] fits in the memory that was planned for h[u].
FitsPlan(g, t, h, u) ==
    \/ g[t].external \/ IsView(g[t])
    \/ /\ ~h[u].external /\ ~IsView(h[u])
       /\ AllocSize(h[u]) >= AllocSize(g[t])

SourceFitsPlan(g, n, k) ==
    LET p == g[n].src[k]
    IN  IF k \in DOMAIN planned[n].src
        THEN FitsPlan(g, p, planned, planned[n].src[k])
        ELSE g[p].external \/ IsView(g[p])

\* ggml_gallocr_needs_realloc
NeedsRealloc(g) ==
    IF planned = <<>> \/ Leafs(planned) # Leafs(g) \/ Nodes(planned) # Nodes(g)
    THEN TRUE
    ELSE \E n \in Nodes(g) :
             \/ ~FitsPlan(g, n, planned, n)
             \/ \E k \in DOMAIN g[n].src : ~SourceFitsPlan(g, n, k)

\* A new plan is made, with one buffer, or the call fails.
AllocGraphAgain ==
    /\ pc \in {"idle", "ready"}
    /\ n_buffers = 1
    /\ \E g \in Coming : NeedsRealloc(g) /\ Begin(g, "alloc")

\* The tensors of the graph get the addresses of the plan.
AllocGraph ==
    /\ pc \in {"idle", "ready"}
    /\ calls < MaxCalls
    /\ calls' = calls + 1
    /\ graph' \in Coming
    /\ ~NeedsRealloc(graph')
    /\ call' = "alloc"
    /\ pc' = "ready"
    /\ UNCHANGED <<n_buffers, planVars, buf_tallocs, hashVars, i, j>>

-----------------------------------------------------------------------------
NewHash ==
    /\ n_children = <<>>
    /\ n_views = <<>>
    /\ allocated = {}
    /\ addr = <<>>

Init ==
    /\ n_buffers \in 1 .. MaxBuffers
    /\ graph = <<>>
    /\ planned = <<>>
    /\ plan = <<>>
    /\ buf_tallocs = [b \in Buffers |-> <<>>]
    /\ buffers = [b \in Buffers |-> <<>>]
    /\ NewHash
    /\ call = "none"
    /\ pc = "idle"
    /\ i = 1
    /\ j = 1
    /\ calls = 0

Next ==
    \/ Reserve \/ AllocGraphAgain \/ AllocGraph
    \/ AllocateTensor \/ UpdateParents \/ NextNode \/ ReserveBuffers

Spec == Init /\ [][Next]_vars

-----------------------------------------------------------------------------
(* Properties *)

Addresses == [buffer : Buffers, chunk : 1 .. MaxChunks, offset : Nat]

TypeOK ==
    /\ DOMAIN plan = DOMAIN planned
    /\ \A t \in DOMAIN plan : plan[t] \in Addresses \cup {Invalid}
    /\ DOMAIN buf_tallocs = Buffers
    /\ DOMAIN buffers = Buffers /\ \A b \in Buffers : buffers[b] \in Seq(Nat)
    /\ DOMAIN n_children = DOMAIN addr /\ DOMAIN n_views = DOMAIN addr
    /\ \A t \in DOMAIN addr : n_children[t] \in Nat /\ n_views[t] \in Nat
    /\ allocated \subseteq DOMAIN addr
    /\ \A t \in DOMAIN addr : addr[t] \in Addresses \cup {Invalid}
    /\ call \in {"none", "reserve", "alloc"}
    /\ pc \in {"idle", "allocate", "update", "buffers", "ready"}
    /\ i \in Nat /\ j \in Nat /\ calls \in 0 .. MaxCalls

Bytes(offset, size) == offset .. offset + size - 1

\* While a graph is planned, each byte of a chunk is in one free block or owned
\* by one tensor, whether that took it, took the place of another or gave the
\* rest of it back; and blocks that touch are one block.
BytesHaveOneOwner ==
    pc \in {"allocate", "update"} =>
    \A b \in Buffers : \A c \in DOMAIN buf_tallocs[b] :
        LET free == buf_tallocs[b][c].free
            owners == {t \in allocated : addr[t].buffer = b /\ addr[t].chunk = c}
            FreeBlock(k) == Bytes(free[k].offset, free[k].size)
            Owned(t) == Bytes(addr[t].offset, Aligned(AllocSize(graph[t])))
        IN  /\ \A k, l \in DOMAIN free : k < l =>
                   free[k].offset + free[k].size < free[l].offset
            /\ \A t, u \in owners : t # u => Owned(t) \cap Owned(u) = {}
            /\ \A t \in owners : \A k \in DOMAIN free :
                   Owned(t) \cap FreeBlock(k) = {}
            /\ \A x \in Bytes(0, buf_tallocs[b][c].max_size) :
                   \/ \E t \in owners : x \in Owned(t)
                   \/ \E k \in DOMAIN free : x \in FreeBlock(k)

\* The tensor that holds the data of t.
Holder(g, t) == IF IsView(g[t]) THEN g[t].view_src ELSE t

Overlap(a, size_a, b, size_b) ==
    /\ a.buffer = b.buffer
    /\ a.chunk = b.chunk
    /\ Bytes(a.offset, size_a) \cap Bytes(b.offset, size_b) # {}

\* Does a node after n, or the caller, still read the data of t ?
NeededAfter(g, t, n) ==
    \/ g[t].output
    \/ \E m \in n + 1 .. Len(g) : \E k \in DOMAIN g[m].src :
           Holder(g, g[m].src[k]) = t

ReadBy(g, t, n) == \E k \in DOMAIN g[n].src : Holder(g, g[n].src[k]) = t

\* The node n writes nothing that is needed after it, and of its own sources
\* only one of the same layout that it takes the place of.
Harmless(g, at, n) ==
    \A t \in 1 .. n - 1 :
        ( /\ ~IsView(g[t]) /\ ~g[t].external
          /\ Overlap(at[t], g[t].nbytes, at[n], AllocSize(g[n])) )
        => /\ ~NeededAfter(g, t, n)
           /\ ReadBy(g, t, n) =>
                  /\ g[n].op = "inplace"
                  /\ at[t] = at[n]
                  /\ g[t].nbytes = g[n].nbytes

Sound(g, at) == \A n \in Nodes(g) : IsView(g[n]) \/ Harmless(g, at, n)

\* The graph has the shape of the graph the plan was made for.
SameShape(g, h) ==
    /\ DOMAIN g = DOMAIN h
    /\ \A t \in DOMAIN g :
           /\ [g[t] EXCEPT !.nbytes = h[t].nbytes, !.extra = h[t].extra] = h[t]
           /\ AllocSize(g[t]) <= AllocSize(h[t])
           /\ \A u \in DOMAIN g :
                  h[t].nbytes = h[u].nbytes => g[t].nbytes = g[u].nbytes

\* In a graph that gets a plan made for its shape no node overwrites what is
\* read later: not a tensor whose views are still used, not an output, not an
\* input set before the computation, not a source of the node itself.
NothingOverwritten ==
    pc = "ready" /\ SameShape(graph, planned) => Sound(graph, plan)

\* Its tensors lie in the buffers, which are kept as long as all their chunks
\* are large enough for the plan.
InsideBuffers ==
    pc = "ready" /\ SameShape(graph, planned) =>
        \A t \in DOMAIN graph :
            ~IsView(graph[t]) /\ ~graph[t].external =>
                /\ plan[t].chunk \in DOMAIN buffers[plan[t].buffer]
                /\ plan[t].offset + AllocSize(graph[t])
                       <= buffers[plan[t].buffer][plan[t].chunk]

\* "since the last chunk always has virtually endless memory, this should never
\* happen": ggml_dyn_tallocr_alloc does not run out of chunks, whatever has been
\* freed and merged in between.
NeverOutOfChunks == \A b \in Buffers : Len(buf_tallocs[b]) <= MaxChunks

\* "automatic reallocation if the topology changes when using a single buffer":
\* the plan suits every graph that gets it.
ReallocatedForTopology == pc = "ready" => Sound(graph, plan)
=============================================================================
