SPECIFICATION SchedSpec
CONSTANTS
    Task = {idle, t1, t2, t3}
    Idle = idle
    NULL = null
    NUM_PRIORITIES = 3
    WaitQueue = {sleep}
    g_sleep_queue = sleep
    HALF = 3
    Delays = {0, 1, 2, 3, 5}
SYMMETRY AppSymmetry
INVARIANTS
    SchedTypeOK
    QueueDiscipline
    ContextIntegrity
    OnlyReadyTasksRun
    SwitchControl
    TimeoutQueueSorted
PROPERTIES
    WakeOnTime
