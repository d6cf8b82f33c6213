SPECIFICATION PiSpec
CONSTANTS
    Task = {idle, low, medium, high}
    Idle = idle
    NULL = null
    NUM_PRIORITIES = 4
    WaitQueue = {sleep, m}
    g_sleep_queue = sleep
    HALF = 2
    Delays = {}
    Mutex = {m}
    MaxHeld = 1
    Low = low
    Medium = medium
    High = high
    g_pi_mutex = m
INVARIANTS
    MediumWaitsForLow
PROPERTIES
    HighAcquires
