SPECIFICATION SemLiveSpec
CONSTANTS
    Task = {idle, t1, t2, t3}
    Idle = idle
    NULL = null
    NUM_PRIORITIES = 2
    WaitQueue = {sleep, s1}
    g_sleep_queue = sleep
    HALF = 1
    Delays = {}
    Semaphore = {s1}
    InitialCounts = {0, 1}
    MaxCount = 1
INVARIANTS
    SemTypeOK
    QueueDiscipline
    NoLostWakeup
PROPERTIES
    SemaphoreFIFO
    NoSemaphoreStarvation
