SPECIFICATION Spec
CONSTANTS
    NCells = 3
    NSeqs = 2
    MaxPos = 3
    NUbatch = 2
    MaxBatch = 3
    LastPos <- MCLastPos
    Setups <- MCSetups
    Ranges <- MCRanges
    Shifts <- MCShifts
    MaxShift = 1
    Divisors <- MCDivisors
    MaxCopies = 2
INVARIANT IndicesAgree
INVARIANT DataFollowsCells
INVARIANT SlotsAreTakenBack
PROPERTY NeverOverwritesVisible
PROPERTY LeavesNoGap
VIEW MCView
