SPECIFICATION FairSpec
CONSTANTS
    Workers = {w1, w2, w3}
    NSlots = 1
    SleepEnabled = TRUE
INVARIANT ExactlyOnePlace
INVARIANT CancelNotOutrun
INVARIANT ModelLoadedWhenUsed
INVARIANT NobodyWaitsWhenAwake
PROPERTY TerminateStopsLoop
 
CHECK_DEADLOCK FALSE
