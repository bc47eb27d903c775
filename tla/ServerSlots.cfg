SPECIFICATION Spec
CONSTANTS
    par = par
    chi = chi
    t1 = t1
    t2 = t2
    NSlots = 2
    Tasks = {par, chi, t1, t2}
    ChildrenOf <- MCChildren
    Kind <- MCAllKinds
    Fates <- MCAnyFate
    IdSlot <- MCSlotTwo
    Overlong = {par, chi}
    Impatient = {t1, t2}
    MaxViews = 1
INVARIANTS
    OnePlace
    GoneWhenAnswered
    NobodyForgotten
    NoOrphans
CHECK_DEADLOCK FALSE
