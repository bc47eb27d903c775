SPECIFICATION Spec
CONSTANTS
    Alignment = 2
    MaxChunkSize = 6
    MaxChunks = 2
    Endless = 80
    MaxBuffers = 2
    MaxCalls = 2
    Graphs <- MCGraphs
    Later <- MCLater
INVARIANT BytesHaveOneOwner
INVARIANT NothingOverwritten
INVARIANT InsideBuffers
INVARIANT NeverOutOfChunks
CHECK_DEADLOCK FALSE
