------------------------------ MODULE Semaphore ------------------------------
(***************************************************************************)
(* kernel/semaphore.c: counting semaphores, on the scheduler.  The waiters *)
(* list of a semaphore is the wait queue of the same name.                 *)
(***************************************************************************)
EXTENDS Scheduler

CONSTANTS
    Semaphore,
    InitialCounts,   \* arguments of os_sem_init
    MaxCount         \* a bound on count, which the code never tests (INT32_MAX)

ASSUME SemaphoreAssumption ==
    /\ Semaphore \subseteq WaitQueue \ {g_sleep_queue}
    /\ MaxCount \in Nat
    /\ InitialCounts \subseteq 0 .. MaxCount

VARIABLE count

semSysVars == <<schedVars, count>>

SemTypeOK == SchedTypeOK /\ count \in [Semaphore -> 0 .. MaxCount]

\* os_sem_init, called for every semaphore before the scheduler starts.
SemInit == count \in [Semaphore -> InitialCounts]

(***************************************************************************)
(* Either a unit is there, or the caller blocks; the unit is then handed   *)
(* over by the give that wakes it, with count untouched.                   *)
(***************************************************************************)
\* Mutant: count >= 0 for count > 0.
os_kernel_sem_take_zero(s) ==
    /\ InTask
    /\ count[s] >= 0
    /\ count' = [count EXCEPT ![s] = @ - 1]
    /\ UNCHANGED schedVars

os_kernel_sem_take(s) ==
    /\ InTask
    /\ \/ /\ count[s] > 0
          /\ count' = [count EXCEPT ![s] = @ - 1]
          /\ UNCHANGED schedVars
       \/ /\ count[s] <= 0
          /\ os_task_block_locked(s, OS_WAIT_FOREVER, FALSE, g_priorities, waiters, priority)
          /\ UNCHANGED <<count, priority, base_priority, switchVars, g_tick>>

\* Mutant: count++ also when a waiter is woken.
os_kernel_sem_give_twice(s) ==
    /\ InTask
    /\ count[s] < MaxCount
    /\ count' = [count EXCEPT ![s] = @ + 1]
    /\ IF waiters[s] # << >>
         THEN /\ os_task_wake_one_locked(s, g_priorities, priority)
              /\ UNCHANGED <<priority, base_priority, switchVars, g_tick>>
         ELSE UNCHANGED schedVars

os_kernel_sem_give(s) ==
    /\ InTask
    /\ \/ /\ waiters[s] # << >>
          /\ os_task_wake_one_locked(s, g_priorities, priority)
          /\ UNCHANGED <<count, priority, base_priority, switchVars, g_tick>>
       \/ /\ waiters[s] = << >>
          /\ count[s] < MaxCount
          /\ count' = [count EXCEPT ![s] = @ + 1]
          /\ UNCHANGED schedVars

SemStep(s) == os_kernel_sem_take(s) \/ os_kernel_sem_give(s)

SemSysInit == SchedInit /\ SemInit

SemSysNext ==
    \/ SchedNext /\ UNCHANGED count
    \/ \E s \in Semaphore : SemStep(s)

SemSpec == SemSysInit /\ [][SemSysNext]_semSysVars

SemLiveSpec ==
    /\ SemSpec
    /\ WF_semSysVars(os_start /\ UNCHANGED count)
    /\ WF_semSysVars(PendSV_Handler /\ UNCHANGED count)
    /\ WF_semSysVars(SysTick_Handler /\ UNCHANGED count)

-----------------------------------------------------------------------------
(* Properties *)

(***************************************************************************)
(* No lost wake-up: nobody waits for a semaphore that has units left.      *)
(***************************************************************************)
NoLostWakeup == \A s \in Semaphore : waiters[s] # << >> => count[s] = 0

(***************************************************************************)
(* First come, first served: waiters join a semaphore at the back of its   *)
(* queue and leave it from the front; nothing else reorders them.          *)
(***************************************************************************)
SemaphoreFIFO ==
    [][\A s \in Semaphore :
         \/ waiters'[s] = waiters[s]
         \/ waiters[s] # << >> /\ waiters'[s] = Tail(waiters[s])
         \/ waiters'[s] = Append(waiters[s], g_current)]_semSysVars

(***************************************************************************)
(* A semaphore that is given again and again starves none of its waiters.  *)
(***************************************************************************)
NoSemaphoreStarvation ==
    \A s \in Semaphore, t \in Task :
        []<><<os_kernel_sem_give(s)>>_semSysVars => (t \in Range(waiters[s]) ~> Ready(t))
=============================================================================
