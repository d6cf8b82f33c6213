SPECIFICATION KernelSpec
CONSTANTS
    Task = {idle, t1, t2, t3}
    Idle = idle
    NULL = null
    NUM_PRIORITIES = 2
    WaitQueue = {sleep, m1, s1}
    g_sleep_queue = sleep
    HALF = 2
    Delays = {1}
    Mutex = {m1}
    MaxHeld = 1
    Semaphore = {s1}
    InitialCounts = {0}
    MaxCount = 1
SYMMETRY KernelSymmetry
PROPERTIES
    SemaphoreFIFO
