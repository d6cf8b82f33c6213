------------------------------- MODULE PiTest -------------------------------
(***************************************************************************)
(* app/pi_test.c: the priority-inversion scenario, run on the kernel.      *)
(* Task Low locks the mutex, creates High (which preempts it and blocks on *)
(* the mutex) and Medium (a task that spins for ever), then unlocks.       *)
(***************************************************************************)
EXTENDS Mutex

CONSTANTS Low, Medium, High, g_pi_mutex

ASSUME PiTestAssumption ==
    /\ {Low, Medium, High} \subseteq Task \ {Idle}
    /\ Low # Medium /\ Medium # High /\ High # Low
    /\ g_pi_mutex \in Mutex
    /\ NUM_PRIORITIES = 4

VARIABLES
    low_at,              \* the next statement of pi_low_task
    high_at,             \* the next statement of pi_high_task
    g_pi_high_acquired

piVars == <<mutexSysVars, low_at, high_at, g_pi_high_acquired>>

OS_TASK_HIGH == 0
OS_TASK_MEDIUM == 1
OS_TASK_LOW == 2

PiInit ==
    /\ MutexSysInit
    /\ low_at = "created"
    /\ high_at = "lock"
    /\ g_pi_high_acquired = FALSE

os_app_main ==
    /\ pc = "boot" /\ low_at = "created"
    /\ os_kernel_task_create(Low, OS_TASK_LOW) /\ UNCHANGED mutexVars
    /\ low_at' = "lock"
    /\ UNCHANGED <<high_at, g_pi_high_acquired>>

BootEnds ==
    /\ low_at # "created"
    /\ os_start
    /\ UNCHANGED <<mutexVars, low_at, high_at, g_pi_high_acquired>>

LowRuns(here, next) ==
    /\ g_current = Low /\ low_at = here /\ low_at' = next
    /\ UNCHANGED <<high_at, g_pi_high_acquired>>

pi_low_task ==
    \/ LowRuns("lock", "create_high") /\ os_kernel_mutex_lock_free(g_pi_mutex)
    \/ /\ LowRuns("create_high", "create_medium")
       /\ os_kernel_task_create(High, OS_TASK_HIGH) /\ UNCHANGED mutexVars
    \/ /\ LowRuns("create_medium", "unlock")
       /\ os_kernel_task_create(Medium, OS_TASK_MEDIUM) /\ UNCHANGED mutexVars
    \/ LowRuns("unlock", "done") /\ os_kernel_mutex_unlock(g_pi_mutex)

(***************************************************************************)
(* High executes g_pi_high_acquired = 1 when its lock call has returned    *)
(* and it is switched to again, and not before.                            *)
(***************************************************************************)
HighRuns(here, next) ==
    /\ g_current = High /\ high_at = here /\ high_at' = next
    /\ UNCHANGED low_at

pi_high_task ==
    \/ /\ HighRuns("lock", "acquired") /\ UNCHANGED g_pi_high_acquired
       /\ os_kernel_mutex_lock_contended(g_pi_mutex)
    \/ /\ HighRuns("acquired", "unlock") /\ InTask
       /\ g_pi_high_acquired' = TRUE /\ UNCHANGED mutexSysVars
    \/ /\ HighRuns("unlock", "done") /\ UNCHANGED g_pi_high_acquired
       /\ os_kernel_mutex_unlock(g_pi_mutex)

PiExceptions ==
    /\ SysTick_Handler \/ PendSV_Handler
    /\ UNCHANGED <<mutexVars, low_at, high_at, g_pi_high_acquired>>

PiNext == os_app_main \/ BootEnds \/ pi_low_task \/ pi_high_task \/ PiExceptions

(***************************************************************************)
(* A task that is given the processor goes on; ticks and PendSV happen.    *)
(***************************************************************************)
PiSpec ==
    /\ PiInit /\ [][PiNext]_piVars
    /\ WF_piVars(os_app_main) /\ WF_piVars(BootEnds)
    /\ WF_piVars(pi_low_task) /\ WF_piVars(pi_high_task)
    /\ WF_piVars(PendSV_Handler /\ UNCHANGED <<mutexVars, low_at, high_at, g_pi_high_acquired>>)
    /\ WF_piVars(SysTick_Handler /\ UNCHANGED <<mutexVars, low_at, high_at, g_pi_high_acquired>>)

-----------------------------------------------------------------------------
(***************************************************************************)
(* What the test checks: "L unlocks, H acquires the mutex and sets         *)
(* g_pi_high_acquired = 1", although Medium never stops spinning.          *)
(***************************************************************************)
HighAcquires == <>(g_pi_high_acquired = TRUE)

(***************************************************************************)
(* "does NOT preempt us: we're boosted to HIGH right now": Medium executes *)
(* nothing while Low is in its critical section; and once High has the     *)
(* mutex, Low is back at its own priority.                                 *)
(***************************************************************************)
MediumWaitsForLow ==
    /\ owner[g_pi_mutex] = Low /\ pc = "thread" /\ ~ pendsv => g_current # Medium
    /\ g_pi_high_acquired => priority[Low] = OS_TASK_LOW
=============================================================================
