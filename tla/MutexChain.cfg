SPECIFICATION MutexSpec
CONSTANTS
    Task = {idle, t1, t2, t3}
    Idle = idle
    NULL = null
    NUM_PRIORITIES = 3
    WaitQueue = {sleep, m1, m2}
    g_sleep_queue = sleep
    HALF = 2
    Delays = {}
    Mutex = {m1, m2}
    MaxHeld = 2
SYMMETRY MutexSymmetry
INVARIANTS
    ChainInheritance
