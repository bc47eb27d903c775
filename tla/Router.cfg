SPECIFICATION Spec
CONSTANTS
    Models = {a, b}
    Handlers = {h1, h2}
    models_max = 1
    Lingers = TRUE
    PipeSize = 1
    NoModel = NoModel
INVARIANT OldInstanceGone
INVARIANT LimitHolds
INVARIANT NoOrphans
SYMMETRY Symmetry
VIEW View
CHECK_DEADLOCK FALSE
