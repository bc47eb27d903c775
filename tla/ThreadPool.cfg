SPECIFICATION FairSpec
CONSTANTS
    N = 3
    Graphs <- MCGraphs
    NChunks = 4
    ChunksPerThread = 2
    MaxGraphs = 2
INVARIANT ParametersAlone
INVARIANT ChunksOnce
PROPERTY ImplementsPhases
PROPERTY CallsReturn
CHECK_DEADLOCK FALSE
