----------------------------- MODULE DynTallocr -----------------------------
(***************************************************************************)
(* ggml_dyn_tallocr (ggml/src/ggml-alloc.c): the allocator that plans      *)
(* where the tensors of a graph go.  It is a sequence of chunks, each of   *)
(* them with its free blocks in the order of their offsets and the size    *)
(* that the chunk needs so far.                                            *)
(***************************************************************************)
EXTENDS Integers, SequencesExt, FiniteSetsExt

CONSTANTS
    Alignment,    \* alignment of the buffer type
    MaxChunkSize, \* size of a chunk, unless a tensor needs more
    MaxChunks,    \* GGML_VBUFFER_MAX_CHUNKS
    Endless       \* SIZE_MAX/2, the size of the last chunk

ASSUME AlignmentAssumption == Alignment \in Nat \ {0}
ASSUME ChunkAssumption ==
    MaxChunkSize \in Nat \ {0} /\ MaxChunks \in Nat \ {0} /\ Endless \in Nat

\* aligned_offset
Aligned(n) == ((n + Alignment - 1) \div Alignment) * Alignment

\* A mutant of NewChunk: no chunk is as good as endless.
NewChunkLimited(n, size) ==
    [free |-> <<[offset |-> 0, size |-> Max({size, MaxChunkSize})]>>,
     max_size |-> 0]

NewChunk(n, size) ==
    [free |-> <<[offset |-> 0,
                 size |-> IF n = MaxChunks THEN Endless
                          ELSE Max({size, MaxChunkSize})]>>,
     max_size |-> 0]

\* The last block of a chunk can grow the chunk; the others are its holes.
Holes(chunk) == 1 .. Len(chunk.free) - 1

Fits(block, size) == block.size >= size

\* The smallest hole that fits of the last chunk that has one, or <<>>.
BestHole(alloc, size) ==
    LET fitting(c) == {i \in Holes(alloc[c]) : Fits(alloc[c].free[i], size)}
        chunks == {c \in DOMAIN alloc : fitting(c) # {}}
        c == Max(chunks)
        least == Min({alloc[c].free[i].size : i \in fitting(c)})
    IN  IF chunks = {} THEN <<>>
        ELSE <<c, Max({i \in fitting(c) : alloc[c].free[i].size = least})>>

\* How much of a chunk would be left of what it needs already; negative if it
\* has to grow.
Reuse(chunk, size) == chunk.max_size - Last(chunk.free).offset - size

\* The last block that leaves least, or else grows a chunk least, or <<>>.
BestLast(alloc, size) ==
    LET chunks == {c \in DOMAIN alloc :
                      alloc[c].free # <<>> /\ Fits(Last(alloc[c].free), size)}
        reuse(c) == Reuse(alloc[c], size)
        left == {c \in chunks : reuse(c) >= 0}
        best == IF left # {} THEN Min({reuse(c) : c \in left})
                ELSE Max({reuse(c) : c \in chunks})
        c == Min({d \in chunks : reuse(d) = best})
    IN  IF chunks = {} THEN <<>> ELSE <<c, Len(alloc[c].free)>>

\* The allocator that has a chunk for the tensor, and the block it goes to.
Chosen(alloc, size) ==
    LET hole == BestHole(alloc, size)
        last == BestLast(alloc, size)
        n == Len(alloc) + 1
    IN  IF hole # <<>> THEN [alloc |-> alloc, block |-> hole]
        ELSE IF last # <<>> THEN [alloc |-> alloc, block |-> last]
        ELSE [alloc |-> Append(alloc, NewChunk(n, size)), block |-> <<n, 1>>]

Shrunk(free, i, size) ==
    IF free[i].size = size THEN RemoveAt(free, i)
    ELSE [free EXCEPT ![i] = [offset |-> @.offset + size, size |-> @.size - size]]

\* ggml_dyn_tallocr_alloc: the new allocator, and the address.
Alloc(old, tensor_size) ==
    LET size == Aligned(tensor_size)
        chosen == Chosen(old, size)
        c == chosen.block[1]
        i == chosen.block[2]
        chunk == chosen.alloc[c]
        offset == chunk.free[i].offset
    IN  [alloc |-> [chosen.alloc EXCEPT ![c] =
                       [free |-> Shrunk(chunk.free, i, size),
                        max_size |-> Max({chunk.max_size, offset + size})]],
         addr |-> [chunk |-> c, offset |-> offset]]

\* ggml_dyn_tallocr_insert_block
InsertBlock(free, offset, size) ==
    InsertAt(free, Cardinality({i \in DOMAIN free : free[i].offset < offset}) + 1,
             [offset |-> offset, size |-> size])

\* A mutant of Freed.
FreedUnmerged(free, offset, size) == InsertBlock(free, offset, size)

\* The free blocks when size bytes at offset are free too.  The first block
\* that they touch takes them, and the next one if they touch that as well; a
\* block that begins where they end cannot touch the one before it.
Freed(free, offset, size) ==
    LET Ends(i) == free[i].offset + free[i].size = offset
        Begins(i) == offset + size = free[i].offset
        touching == {i \in DOMAIN free : Ends(i) \/ Begins(i)}
        i == Min(touching)
    IN  IF touching = {} THEN InsertBlock(free, offset, size)
        ELSE IF ~Ends(i)
             THEN [free EXCEPT ![i] = [offset |-> offset, size |-> @.size + size]]
        ELSE IF i < Len(free) /\ Begins(i + 1)
             THEN RemoveAt([free EXCEPT ![i].size = @ + size + free[i + 1].size],
                           i + 1)
        ELSE [free EXCEPT ![i].size = @ + size]

\* ggml_dyn_tallocr_free_bytes
FreeBytes(alloc, addr, size) ==
    [alloc EXCEPT ![addr.chunk].free = Freed(@, addr.offset, Aligned(size))]
=============================================================================
