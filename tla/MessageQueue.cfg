SPECIFICATION QueueSpec
CONSTANTS
    Task = {idle, s1, s2, r1}
    Idle = idle
    NULL = null
    NUM_PRIORITIES = 4
    WaitQueue = {sleep, lock, spaces, items}
    g_sleep_queue = sleep
    HALF = 1
    Delays = {}
    Mutex = {lock}
    MaxHeld = 1
    Semaphore = {spaces, items}
    InitialCounts = {0, 2}
    MaxCount = 3
    Sender = {s1, s2}
    Receiver = {r1}
    lock = lock
    spaces = spaces
    items = items
    capacity = 2
CONSTRAINT NoPriorityGaps
SYMMETRY ClientSymmetry
INVARIANTS
    QueueTypeOK
    UnitsConserved
    LockHeldInside
    SomeClientReady
PROPERTIES
    MessagesInOrder
