SPECIFICATION Spec
CONSTANTS
    Alignment = 2
    MaxChunkSize = 6
    MaxChunks = 2
    Endless = 80
    MaxBuffers = 1
    MaxCalls = 2
    Graphs <- FewGraphs
    Later <- MCAny
INVARIANT ReallocatedForTopology
CHECK_DEADLOCK FALSE
