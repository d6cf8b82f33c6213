SPECIFICATION MutexSpec
CONSTANTS
    Task = {idle, t1, t2}
    Idle = idle
    NULL = null
    NUM_PRIORITIES = 2
    WaitQueue = {sleep, m1, m2, m3}
    g_sleep_queue = sleep
    HALF = 2
    Delays = {}
    Mutex = {m1, m2, m3}
    MaxHeld = 2
INVARIANTS
    KernelNeverHangs
