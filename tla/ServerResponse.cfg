SPECIFICATION FairSpec
CONSTANTS
    r1 = r1
    r2 = r2
    t1 = t1
    t2 = t2
    t3 = t3
    Readers = {r1, r2}
    Tasks = {t1, t2, t3}
    TasksOf <- MCTasksOf
    Streaming = {r2}
    MaxNumber = 2
    MaxResults = 2
INVARIANT ResultsInOrder
INVARIANT NothingLeftBehind
INVARIANT NothingRunsForNobody
PROPERTY EveryReaderEnds
CHECK_DEADLOCK FALSE
