SPECIFICATION KallocLiveSpec
CONSTANTS
    Task = {0, 1, 2, 3}
    Idle = 3
    NULL = null
    NUM_PRIORITIES = 3
    WaitQueue = {sleep}
    g_sleep_queue = sleep
    HALF = 2
    Delays = {0, 1, 2, 3}
    OS_KERNEL_OBJECT_COUNT = 4
    OS_TASK_STACK_COUNT = 3
    OS_TASK_STACK_WORDS = 256
    StackWords = {0, 256, 257}
INVARIANTS
    PoolsExact
PROPERTIES
    CreatesFreshTasks
    PreemptionHappens
    TimeSlicing
    SleepersWake
