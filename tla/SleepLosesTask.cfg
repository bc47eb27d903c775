SPECIFICATION FairSpec
CONSTANTS
    Workers = {w1}
    NSlots = 1
    SleepEnabled = TRUE
PROPERTY TaskWakesServer
CHECK_DEADLOCK FALSE
