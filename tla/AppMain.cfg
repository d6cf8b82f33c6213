SPECIFICATION AppLiveSpec
CONSTANTS
    capacity = 3
    NULL = null
    Writer = {"task0", "task1"}
    Byte = {"t", "c"}
    SIZE = 3
    NoByte = nobyte
    WORD = 4
    LoggerSets <- OneLogger
INVARIANTS
    AppTypeOK
    SlotsDisjoint
    NoErrors
PROPERTIES
    QueueIsFIFO
    LogIsFIFO
    KeepsFlowing
