--------------------------- MODULE SemaphoreProofs ---------------------------
(***************************************************************************)
(* semaphore.c is correct for any number of tasks, priorities and          *)
(* semaphores, with any initial counts, on the scheduler of                *)
(* SchedulerProofs.                                                        *)
(***************************************************************************)
EXTENDS Semaphore, SchedulerProofs

(***************************************************************************)
(* The inductive invariant.  SleepersWait is needed so that a tick, which  *)
(* takes the tasks it wakes out of their wait queues, never takes a waiter *)
(* out of the middle of a semaphore's.                                     *)
(***************************************************************************)
SemState == count \in [Semaphore -> 0 .. MaxCount] /\ NoLostWakeup

SemInv == SchedInv /\ SleepersWait /\ SemState

\* What a step may do to the wait queue of s.
FIFOStep(s) ==
    \/ waiters'[s] = waiters[s]
    \/ waiters[s] # << >> /\ waiters'[s] = Tail(waiters[s])
    \/ waiters'[s] = Append(waiters[s], g_current)

(***************************************************************************)
(* os_sem_init establishes the invariant on the initial scheduler.         *)
(***************************************************************************)
LEMMA SemInitInv == SemSysInit => SemInv
<1> SUFFICES ASSUME SchedInit, SemInit
             PROVE  SemInv
  BY DEF SemSysInit
<1>1. count \in [Semaphore -> 0 .. MaxCount]
  BY SemaphoreAssumption DEF SemInit
<1>2. NoLostWakeup
  BY SemaphoreAssumption DEF NoLostWakeup, SchedInit
<1> QED
  BY <1>1, <1>2, SchedInitInv, SleepInit DEF SemInv, SemState

(***************************************************************************)
(* The scheduler leaves the waiters of semaphores alone.                   *)
(***************************************************************************)
LEMMA SchedKeepsSem ==
    ASSUME SemInv, [SchedNext]_schedVars, UNCHANGED count
    PROVE  SemInv' /\ \A s \in Semaphore : waiters'[s] = waiters[s]
<1>1. SchedInv' /\ SleepersWait' /\ \A q \in WaitQueue \ {g_sleep_queue} : waiters'[q] = waiters[q]
  BY SchedStep, SleepStep DEF SemInv
<1>2. \A s \in Semaphore : waiters'[s] = waiters[s]
  BY <1>1, SemaphoreAssumption
<1>3. SemState'
  BY <1>2 DEF SemInv, SemState, NoLostWakeup
<1> QED
  BY <1>1, <1>2, <1>3 DEF SemInv

(***************************************************************************)
(* os_kernel_sem_take and os_kernel_sem_give keep the invariant: a task    *)
(* joins the waiters only when the count is zero, and the count grows only *)
(* when nobody waits.                                                      *)
(***************************************************************************)
LEMMA SemStepInv ==
    ASSUME SemInv, NEW s \in Semaphore, SemStep(s)
    PROVE  /\ SemInv' /\ FIFOStep(s)
           /\ \A q \in WaitQueue \ {s} : waiters'[q] = waiters[q]
           /\ UNCHANGED <<priority, base_priority>>
<1> DEFINE Goal == /\ SemInv' /\ FIFOStep(s)
                   /\ \A q \in WaitQueue \ {s} : waiters'[q] = waiters[q]
                   /\ UNCHANGED <<priority, base_priority>>
<1>1. /\ SchedInv /\ SleepersWait /\ InTask
      /\ s \in WaitQueue \ {g_sleep_queue}
      /\ \A r \in Semaphore : r \in WaitQueue
      /\ MaxCount \in Nat
      /\ count \in [Semaphore -> 0 .. MaxCount]
      /\ \A r \in Semaphore : waiters[r] # << >> => count[r] = 0
  BY SemaphoreAssumption DEF SemInv, SemState, NoLostWakeup, SemStep, os_kernel_sem_take,
     os_kernel_sem_give
<1>2. /\ g_priorities \in [Priority -> Seq(Task)] /\ waiters \in [WaitQueue -> Seq(Task)]
      /\ priority \in [Task -> Priority]
      /\ ReadyQueuesOK(state, priority, g_priorities) /\ WaitQueuesOK(state, wait_queue, waiters)
  BY <1>1, QueueDisciplineParts DEF SchedInv, SchedTypeOK
<1>3. ASSUME UNCHANGED schedVars
      PROVE  /\ SchedInv' /\ SleepersWait' /\ waiters' = waiters
             /\ UNCHANGED <<priority, base_priority>>
  <2>1. SchedInv' /\ SleepersWait'
    BY <1>1, <1>3, SchedStep, SleepStep
  <2> QED
    BY <1>3, <2>1 DEF schedVars, queueVars, tcbVars
<1>4. CASE count[s] > 0 /\ count' = [count EXCEPT ![s] = @ - 1] /\ UNCHANGED schedVars
  <2>1. count' \in [Semaphore -> 0 .. MaxCount]
    BY <1>1, <1>4
  <2>2. waiters[s] = << >>
    BY <1>1, <1>4
  <2>3. NoLostWakeup'
    BY <1>1, <1>3, <1>4, <2>2 DEF NoLostWakeup
  <2> QED
    BY <1>3, <1>4, <2>1, <2>3 DEF SemInv, SemState, FIFOStep
<1>5. CASE /\ count[s] <= 0
           /\ os_task_block_locked(s, OS_WAIT_FOREVER, FALSE, g_priorities, waiters, priority)
           /\ UNCHANGED <<count, priority, base_priority, switchVars, g_tick>>
  <2>1. /\ SchedInv' /\ SleepersWait'
        /\ waiters' = [waiters EXCEPT ![s] = os_task_queue_add(@, g_current)]
    BY <1>1, <1>2, <1>5, BlockForever
  <2>2. waiters'[s] = Append(waiters[s], g_current)
        /\ \A q \in WaitQueue \ {s} : waiters'[q] = waiters[q]
    BY <1>1, <1>2, <2>1 DEF os_task_queue_add
  <2>3. count[s] = 0
    BY <1>1, <1>5
  <2>4. NoLostWakeup'
    BY <1>1, <1>5, <2>2, <2>3 DEF NoLostWakeup
  <2> QED
    BY <1>1, <1>5, <2>1, <2>2, <2>4 DEF SemInv, SemState, FIFOStep
<1>6. CASE /\ waiters[s] # << >>
           /\ os_task_wake_one_locked(s, g_priorities, priority)
           /\ UNCHANGED <<count, priority, base_priority, switchVars, g_tick>>
  <2>1. /\ SchedInv' /\ SleepersWait'
        /\ waiters' = [waiters EXCEPT ![s] = Tail(@)]
    BY <1>1, <1>2, <1>6, WakeHead
  <2>2. waiters'[s] = Tail(waiters[s]) /\ \A q \in WaitQueue \ {s} : waiters'[q] = waiters[q]
    BY <1>1, <1>2, <2>1
  <2>3. NoLostWakeup'
    BY <1>1, <1>6, <2>2 DEF NoLostWakeup
  <2> QED
    BY <1>1, <1>6, <2>1, <2>2, <2>3 DEF SemInv, SemState, FIFOStep
<1>7. CASE /\ waiters[s] = << >>
           /\ count[s] < MaxCount
           /\ count' = [count EXCEPT ![s] = @ + 1]
           /\ UNCHANGED schedVars
  <2>1. count' \in [Semaphore -> 0 .. MaxCount]
    BY <1>1, <1>7
  <2>2. NoLostWakeup'
    BY <1>1, <1>3, <1>7 DEF NoLostWakeup
  <2> QED
    BY <1>3, <1>7, <2>1, <2>2 DEF SemInv, SemState, FIFOStep
<1> QED
  BY <1>4, <1>5, <1>6, <1>7 DEF SemStep, os_kernel_sem_take, os_kernel_sem_give

(***************************************************************************)
(* Every step of the system keeps the invariant, and treats the waiters of *)
(* every semaphore first come, first served.                               *)
(***************************************************************************)
LEMMA SemNextInv ==
    ASSUME SemInv, [SemSysNext]_semSysVars
    PROVE  SemInv' /\ \A s \in Semaphore : FIFOStep(s)
<1>1. CASE [SchedNext]_schedVars /\ UNCHANGED count
  BY <1>1, SchedKeepsSem DEF FIFOStep
<1>2. ASSUME NEW s \in Semaphore, SemStep(s)
      PROVE  SemInv' /\ \A r \in Semaphore : FIFOStep(r)
  BY <1>2, SemStepInv, SemaphoreAssumption DEF FIFOStep
<1> QED
  BY <1>1, <1>2 DEF SemSysNext, semSysVars

(***************************************************************************)
(* The inductive invariant holds of semaphores on the scheduler.           *)
(***************************************************************************)
THEOREM SemInvariant == SemSpec => []SemInv
  BY SemInitInv, SemNextInv, PTL DEF SemSpec

(***************************************************************************)
(* Counts stay in range (os_sem_take never makes one negative), and the    *)
(* scheduler's state keeps its types.                                      *)
(***************************************************************************)
THEOREM SemTypeCorrect == SemSpec => []SemTypeOK
<1>1. SemInv => SemTypeOK
  BY DEF SemInv, SemState, SemTypeOK, SchedInv
<1> QED
  BY <1>1, SemInvariant, PTL

(***************************************************************************)
(* With semaphores too, every created task is in exactly one queue.        *)
(***************************************************************************)
THEOREM SemQueueDiscipline == SemSpec => []QueueDiscipline
<1>1. SemInv => QueueDiscipline
  BY DEF SemInv, SchedInv
<1> QED
  BY <1>1, SemInvariant, PTL

(***************************************************************************)
(* No task waits for a semaphore that has units left.                      *)
(***************************************************************************)
THEOREM NoLostWakeupHolds == SemSpec => []NoLostWakeup
<1>1. SemInv => NoLostWakeup
  BY DEF SemInv, SemState
<1> QED
  BY <1>1, SemInvariant, PTL

(***************************************************************************)
(* The waiters of a semaphore are served in the order they came, whatever  *)
(* the ticks and the other tasks do.                                       *)
(***************************************************************************)
THEOREM SemaphoreFIFOHolds == SemSpec => SemaphoreFIFO
<1>1. SemInv /\ [SemSysNext]_semSysVars =>
        [\A s \in Semaphore :
           \/ waiters'[s] = waiters[s]
           \/ waiters[s] # << >> /\ waiters'[s] = Tail(waiters[s])
           \/ waiters'[s] = Append(waiters[s], g_current)]_semSysVars
  BY SemNextInv DEF FIFOStep
<1> QED
  BY <1>1, SemInvariant, PTL DEF SemSpec, SemaphoreFIFO
=============================================================================
