---------------------------- MODULE MCGraphAlloc ----------------------------
(***************************************************************************)
(* GraphAlloc for TLC: all graphs of a leaf and three nodes over two       *)
(* sizes, and the graphs of tests/test-alloc.cpp, which are longer.        *)
(***************************************************************************)
EXTENDS GraphAlloc

Sizes == {1, 4}

Leaf(nbytes, external) ==
    [op |-> "none", src |-> <<>>, view_src |-> 0, nbytes |-> nbytes,
     extra |-> 0, external |-> external, output |-> FALSE, buffer |-> 0]

Node(op, src, nbytes) ==
    [op |-> op, src |-> src, view_src |-> 0, nbytes |-> nbytes, extra |-> 0,
     external |-> FALSE, output |-> FALSE, buffer |-> 0]

View(g, p) ==
    [Node("view", <<p>>, g[p].nbytes) EXCEPT !.view_src = Holder(g, p)]

\* One source, or two.
Sources(g) ==
    {<<p>> : p \in DOMAIN g} \cup {<<p, q>> : p \in DOMAIN g, q \in DOMAIN g}

\* The nodes that may follow in g.
Nexts(g) ==
    {Node("other", src, nbytes) : src \in Sources(g), nbytes \in Sizes}
    \cup {[Node("other", <<p>>, 1) EXCEPT !.extra = 3] : p \in DOMAIN g}
    \cup {Node("inplace", src, g[src[1]].nbytes) : src \in Sources(g)}
    \cup {View(g, p) : p \in DOMAIN g}

Extended(graphs) == UNION {{Append(g, t) : t \in Nexts(g)} : g \in graphs}

\* The first node may be an output, or in the other buffer.
Marked(g) ==
    {g} \cup (IF IsView(g[2]) THEN {}
              ELSE {[g EXCEPT ![2].output = TRUE], [g EXCEPT ![2].buffer = 1]})

\* The last node is an output that uses the node before it.
Closed(g) ==
    {Append(g, [Node("other", <<p, Len(g)>>, 1) EXCEPT !.output = TRUE]) : p \in DOMAIN g}
    \cup {Append(g, [Node("inplace", <<Len(g), p>>, g[Len(g)].nbytes)
                        EXCEPT !.output = TRUE]) : p \in 1 .. Len(g) - 1}

OneLeaf == {<<Leaf(n, FALSE)>> : n \in Sizes} \cup {<<Leaf(4, TRUE)>>}
Marked1 == UNION {Marked(g) : g \in Extended(OneLeaf)}
SmallGraphs == UNION {Closed(g) : g \in Extended(Marked1)}

\* test_view_inplace, in units of the size of an element
ViewInplace ==
    LET x == <<Leaf(4, FALSE), Leaf(2, FALSE)>>
        x1 == Append(x, View(x, 1))
        x2 == Append(x1, View(x1, 3))
        x3 == Append(x2, [View(x2, 4) EXCEPT !.nbytes = 2])
    IN  Append(x3, Node("inplace", <<5, 2>>, 2))

\* test_reuse_and_free
ReuseAndFree ==
    LET x == <<Leaf(6, FALSE), Leaf(2, FALSE), Leaf(2, FALSE),
               Node("inplace", <<2, 3>>, 2), Node("other", <<1>>, 8),
               Node("inplace", <<5>>, 8), Node("inplace", <<5, 6>>, 8)>>
    IN  x \o <<[View(x, 7) EXCEPT !.nbytes = 2], Node("inplace", <<4, 8>>, 2)>>

\* test_merge_free_block
MergeFreeBlock ==
    <<Leaf(4, FALSE), Leaf(4, FALSE), Leaf(4, FALSE),
      Node("other", <<1>>, 1), Node("other", <<2>>, 1), Node("other", <<3>>, 6),
      Node("inplace", <<4, 5>>, 1), Node("other", <<7>>, 6),
      Node("inplace", <<6, 8>>, 6)>>

MCGraphs == SmallGraphs \cup {ViewInplace, ReuseAndFree, MergeFreeBlock}

\* The same graph, larger or smaller.
Resized(g, n) == [t \in DOMAIN g |-> [g[t] EXCEPT !.nbytes = n]]
MCLater(g) == {Resized(g, 1), Resized(g, 4)}

\* Any other graph.
FewGraphs ==
    {g \in MCGraphs : \A t \in DOMAIN g :
        /\ ~g[t].external /\ g[t].nbytes = 4
        /\ \A u \in DOMAIN g : g[t].output => t = Len(g)}
MCAny(g) == FewGraphs
=============================================================================
