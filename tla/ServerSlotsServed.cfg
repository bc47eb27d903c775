SPECIFICATION FairSpec
CONSTANTS
    par = par
    chi = chi
    t1 = t1
    t2 = t2
    NSlots = 2
    Tasks = {par, chi, t1}
    ChildrenOf <- MCChildren
    Kind <- MCSameKind
    Fates <- MCSeated
    IdSlot <- MCAnySlot
    Overlong = {}
    Impatient = {}
    MaxViews = 0
INVARIANTS
    DeferredServed
    WholePrompt
PROPERTIES
    EveryRequestEnds
CHECK_DEADLOCK FALSE
