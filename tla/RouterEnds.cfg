SPECIFICATION FairSpec
CONSTANTS
    Models = {a, b}
    Handlers = {h1}
    models_max = 1
    Lingers = FALSE
    PipeSize = 1
    NoModel = NoModel
PROPERTY UnloadEnds
PROPERTY CrashIsNoticed
PROPERTY ExitEnds
VIEW View
CHECK_DEADLOCK FALSE
