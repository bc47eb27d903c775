SPECIFICATION FairSpec
CONSTANTS
    Capacity = 2
    MaxMessages = 3
    Flags = {prefix}
    Files = {log}
    NoFile = NoFile
PROPERTY ImplementsStream
PROPERTY SettingsAlone
PROPERTY AddedIsPrinted
PROPERTY PauseWithRoomEnds
CHECK_DEADLOCK FALSE
