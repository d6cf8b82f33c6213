---------------------------- MODULE KernelProofs ----------------------------
(***************************************************************************)
(* The blocking services together are correct for any number of tasks,     *)
(* priorities, mutexes and semaphores: sleeping tasks, owners that wait    *)
(* for a semaphore, and priorities inherited while they do.                *)
(***************************************************************************)
EXTENDS Kernel, MutexProofs, SemaphoreProofs

(***************************************************************************)
(* The inductive invariant, for tasks that hold any number of mutexes.     *)
(* Such tasks may hang the kernel (run MutexHang), which freezes           *)
(* everything: the invariant of the scheduler is then lost.                *)
(***************************************************************************)
KernelState == SchedTypeOK /\ QueueDiscipline /\ SleepersWait /\ MutexState /\ SemState

KernelInv == KernelState /\ (pc # "hung" => SchedInv)

(***************************************************************************)
(* The initial state of all services.                                      *)
(***************************************************************************)
LEMMA KernelInitInv == KernelInit => SemInv /\ KernelInv /\ OneMutexInv
<1> SUFFICES ASSUME SchedInit, MutexInit, SemInit
             PROVE  SemInv /\ KernelInv /\ OneMutexInv
  BY DEF KernelInit
<1>1. SemInv /\ OneMutexInv
  BY SemInitInv, OneMutexInit DEF SemSysInit
<1> QED
  BY <1>1 DEF OneMutexInv, MutexInv, SemInv, KernelInv, KernelState, SchedInv

(***************************************************************************)
(* Nothing happens any more once the kernel hangs.                         *)
(***************************************************************************)
LEMMA HungForEver ==
    ASSUME pc = "hung", [KernelNext]_kernelVars
    PROVE  UNCHANGED kernelVars
<1>1. ~ InTask
  BY DEF InTask
<1>2. ~ SchedNext
  BY <1>1 DEF SchedNext, RunStep, os_kernel_task_create, os_task_create_internal, os_start,
     os_kernel_yield, os_kernel_delay_ticks, SysTick_Handler, PendSV_Handler, PendSV_Save,
     os_commit_switch_demote, os_commit_switch_load, os_commit_switch_store, PendSV_Restore
<1>3. \A m \in Mutex : ~ MutexStep(m)
  BY <1>1 DEF MutexStep, os_kernel_mutex_lock_free, os_kernel_mutex_lock_contended,
     os_kernel_mutex_unlock
<1>4. \A s \in Semaphore : ~ SemStep(s)
  BY <1>1 DEF SemStep, os_kernel_sem_take, os_kernel_sem_give
<1> QED
  BY <1>2, <1>3, <1>4 DEF KernelNext

(***************************************************************************)
(* A call of mutex.c leaves no semaphore with units and waiters: it moves  *)
(* an owner within the queue it waits in, and puts nobody there.           *)
(***************************************************************************)
LEMMA MutexKeepsSem ==
    ASSUME MutexInv, MutexInv', SemState, UNCHANGED count,
           \A q \in WaitQueue \ Mutex : Range(waiters'[q]) = Range(waiters[q])
    PROVE  SemState'
<1> SUFFICES ASSUME NEW s \in Semaphore, waiters'[s] # << >>
             PROVE  waiters[s] # << >>
  BY DEF SemState, NoLostWakeup
<1>1. s \in WaitQueue \ Mutex
  BY SemaphoreAssumption, KernelAssumption
<1>2. waiters'[s] \in Seq(Task)
  BY <1>1 DEF MutexInv, SchedInv, SchedTypeOK
<1>3. Head(waiters'[s]) \in Range(waiters[s])
  BY <1>1, <1>2, PopFacts
<1> QED
  BY <1>3 DEF Range

(***************************************************************************)
(* A call of semaphore.c leaves the mutexes and their waiters alone.       *)
(***************************************************************************)
LEMMA SemKeepsMutex ==
    ASSUME MutexInv, SemInv, NEW s \in Semaphore, SemStep(s), UNCHANGED mutexVars
    PROVE  /\ MutexInv' /\ SemInv'
           /\ \A m \in Mutex : waiters'[m] = waiters[m] /\ HandOver(m)
<1>1. SemInv' /\ \A q \in WaitQueue \ {s} : waiters'[q] = waiters[q]
  BY SemStepInv
<1>2. \A m \in Mutex : waiters'[m] = waiters[m]
  BY <1>1, MutexAssumption, KernelAssumption
<1>3. MutexState'
  BY <1>2 DEF MutexInv, MutexState, mutexVars, WaitersHaveOwner
<1> QED
  BY <1>1, <1>2, <1>3 DEF SemInv, MutexInv, HandOver, mutexVars

(***************************************************************************)
(* Every step keeps the invariant, and hands mutexes to first waiters.     *)
(***************************************************************************)
LEMMA KernelStepInv ==
    ASSUME KernelInv, [KernelNext]_kernelVars
    PROVE  KernelInv' /\ \A m \in Mutex : HandOver(m)
<1> DEFINE Goal == KernelInv' /\ \A m \in Mutex : HandOver(m)
<1>1. ASSUME MutexInv', SemState'
      PROVE  KernelInv'
  BY <1>1 DEF KernelInv, KernelState, MutexInv, SchedInv
<1>2. ASSUME UNCHANGED <<mutexVars, tcbVars, queueVars, g_next, g_tick, pendsv, sp, g_current,
                         g_first_switch, psp, r_next, count>>,
             pc' \in {pc, "hung"}
      PROVE  Goal
  <2>1. SchedTypeOK' /\ QueueDiscipline' /\ SleepersWait'
    BY <1>2 DEF KernelInv, KernelState, SchedTypeOK, QueueDiscipline, SleepersWait, tcbVars,
       queueVars, Ready, Blocked
  <2>2. MutexState' /\ SemState'
    BY <1>2 DEF KernelInv, KernelState, MutexState, SemState, WaitersHaveOwner, NoLostWakeup,
       mutexVars, queueVars
  <2>3. pc' # "hung" => SchedInv'
    <3>1. ASSUME pc' = pc, SchedInv
          PROVE  SchedInv'
      <4>1. UNCHANGED schedVars
        BY <1>2, <3>1 DEF schedVars, switchVars
      <4> QED
        BY <3>1, <4>1, SchedStep
    <3> QED
      BY <1>2, <3>1 DEF KernelInv
  <2>4. \A m \in Mutex : HandOver(m)
    BY <1>2 DEF HandOver, mutexVars
  <2> QED
    BY <2>1, <2>2, <2>3, <2>4 DEF KernelInv, KernelState
<1>3. CASE pc = "hung"
  <2>1. UNCHANGED kernelVars
    BY <1>3, HungForEver
  <2> QED
    BY <1>2, <2>1 DEF kernelVars, schedVars, switchVars
<1>4. CASE pc # "hung"
  <2>1. MutexInv /\ SemInv /\ SemState
    BY <1>4 DEF KernelInv, KernelState, MutexInv, SemInv
  <2>2. CASE [SchedNext]_schedVars /\ UNCHANGED <<mutexVars, count>>
    BY <1>1, <2>1, <2>2, SchedKeepsMutex, SchedKeepsSem DEF SemInv
  <2>3. ASSUME NEW m \in Mutex, MutexStep(m), UNCHANGED count
        PROVE  Goal
    <3>1. CASE pc' # "hung"
      BY <1>1, <2>1, <2>3, <3>1, MutexStepInv, MutexKeepsSem
    <3>2. CASE pc' = "hung"
      <4>1. InTask => pc # pc'
        BY <3>2 DEF InTask
      <4>2. os_kernel_mutex_unlock(m)
        BY <2>3, <4>1 DEF MutexStep, os_kernel_mutex_lock_free, os_kernel_mutex_lock_contended,
           schedVars, switchVars
      <4>3. UNCHANGED <<mutexVars, tcbVars, queueVars, sp, g_current, g_first_switch, psp,
                        r_next, g_next, g_tick, pendsv>>
        BY <2>1, <3>2, <4>2, UnlockHangs
      <4> QED
        BY <1>2, <2>3, <3>2, <4>3
    <3> QED
      BY <3>1, <3>2
  <2>4. ASSUME NEW s \in Semaphore, SemStep(s), UNCHANGED mutexVars
        PROVE  Goal
    BY <1>1, <2>1, <2>4, SemKeepsMutex DEF SemInv
  <2> QED
    BY <2>2, <2>3, <2>4 DEF KernelNext, kernelVars
<1> QED
  BY <1>3, <1>4

(***************************************************************************)
(* The inductive invariant holds.                                          *)
(***************************************************************************)
THEOREM KernelInvariant == KernelSpec => []KernelInv
  BY KernelInitInv, KernelStepInv, PTL DEF KernelSpec

(***************************************************************************)
(* All the kernel's data keep their types.                                 *)
(***************************************************************************)
THEOREM KernelTypeCorrect == KernelSpec => []KernelTypeOK
<1>1. KernelInv => KernelTypeOK
  BY DEF KernelInv, KernelState, MutexState, SemState, KernelTypeOK, MutexTypeOK, SemTypeOK
<1> QED
  BY <1>1, KernelInvariant, PTL

(***************************************************************************)
(* No task is lost or queued twice, whatever tasks do with mutexes,        *)
(* semaphores and delays: os_task_set_priority moves a TCB that is in the  *)
(* queue it is unlinked from.                                              *)
(***************************************************************************)
THEOREM KernelQueueDiscipline == KernelSpec => []QueueDiscipline
<1>1. KernelInv => QueueDiscipline
  BY DEF KernelInv, KernelState
<1> QED
  BY <1>1, KernelInvariant, PTL

(***************************************************************************)
(* A blocked task executes nothing, also when it was blocked, and woken or *)
(* moved, by mutexes and semaphores while PendSV was on its way.           *)
(***************************************************************************)
THEOREM KernelOnlyReadyTasksRun == KernelSpec => []OnlyReadyTasksRun
<1>1. KernelInv => OnlyReadyTasksRun
  BY DEF KernelInv, SchedInv, OnlyReadyTasksRun
<1> QED
  BY <1>1, KernelInvariant, PTL

(***************************************************************************)
(* PendSV does not mix contexts, however ticks, mutexes and semaphores     *)
(* make os_schedule rewrite g_next; nothing is claimed once a list walk of *)
(* mutex.c does not end.                                                   *)
(***************************************************************************)
THEOREM KernelContextIntegrity == KernelSpec => [](pc # "hung" => ContextIntegrity)
<1>1. KernelInv => (pc # "hung" => ContextIntegrity)
  BY DEF KernelInv, SchedInv
<1> QED
  BY <1>1, KernelInvariant, PTL

(***************************************************************************)
(* A mutex with waiters has an owner, which is not one of them.            *)
(***************************************************************************)
THEOREM WaitersHaveOwnerHolds == KernelSpec => []WaitersHaveOwner
<1>1. KernelInv => WaitersHaveOwner
  BY DEF KernelInv, KernelState, MutexState
<1> QED
  BY <1>1, KernelInvariant, PTL

(***************************************************************************)
(* Mutexes do not make semaphores lose wake-ups.                           *)
(***************************************************************************)
THEOREM KernelNoLostWakeup == KernelSpec => []NoLostWakeup
<1>1. KernelInv => NoLostWakeup
  BY DEF KernelInv, KernelState, SemState
<1> QED
  BY <1>1, KernelInvariant, PTL

(***************************************************************************)
(* A mutex is released by its owner only, and goes to the first waiter.    *)
(***************************************************************************)
THEOREM HandOverToHeadHolds == KernelSpec => HandOverToHead
<1>1. KernelInv /\ [KernelNext]_kernelVars =>
        [\A m \in Mutex : owner[m] # NULL /\ owner'[m] # owner[m] =>
           /\ owner[m] = g_current
           /\ IF waiters[m] = << >> THEN owner'[m] = NULL
              ELSE owner'[m] = Head(waiters[m]) /\ state'[owner'[m]] = "READY"]_mutexSysVars
  BY KernelStepInv DEF HandOver
<1> QED
  BY <1>1, KernelInvariant, PTL DEF KernelSpec, HandOverToHead

-----------------------------------------------------------------------------
(* One mutex at a time *)

OneKernelInv == OneMutexInv /\ SemState

(***************************************************************************)
(* What semaphore.c does to tasks: it blocks or wakes one, and schedules.  *)
(***************************************************************************)
LEMMA SemTasks ==
    ASSUME SemInv, NextMostUrgent, NEW s \in Semaphore, SemStep(s)
    PROVE  NextMostUrgent' /\ \A t \in Task : Created(t)' <=> Created(t)
<1>1. /\ SchedInv /\ SleepersWait /\ InTask /\ SchedInv' /\ s \in WaitQueue \ {g_sleep_queue}
      /\ state \in [Task -> {"none", "READY", "RUNNING", "BLOCKED"}]
      /\ waiters \in [WaitQueue -> Seq(Task)]
  BY SemStepInv, SemaphoreAssumption DEF SemInv, SchedInv, SchedTypeOK, SemStep,
     os_kernel_sem_take, os_kernel_sem_give
<1>2. CASE UNCHANGED schedVars
  <2>1. UNCHANGED <<state, priority, g_next>>
    BY <1>2 DEF schedVars, tcbVars
  <2> QED
    BY <2>1 DEF NextMostUrgent, Ready, Created
<1>3. CASE os_task_block_locked(s, OS_WAIT_FOREVER, FALSE, g_priorities, waiters, priority)
  <2>1. /\ g_next' = os_schedule(g_priorities')
        /\ state' = [state EXCEPT ![g_current] = "BLOCKED"]
    BY <1>3 DEF os_task_block_locked, ScheduleAndPend
  <2>2. g_current \in Task /\ state[g_current] = "RUNNING"
    BY <1>1 DEF InTask, SchedInv, OnlyReadyTasksRun
  <2>3. \A t \in Task : Created(t)' <=> Created(t)
    BY <1>1, <2>1, <2>2 DEF Created
  <2> QED
    BY <1>1, <2>1, <2>3, ScheduledMostUrgent
<1>4. CASE waiters[s] # << >> /\ os_task_wake_one_locked(s, g_priorities, priority)
  <2> DEFINE h == Head(waiters[s])
  <2>1. /\ g_next' = os_schedule(g_priorities')
        /\ state' = [state EXCEPT ![h] = "READY"]
    BY <1>4 DEF os_task_wake_one_locked, ScheduleAndPend
  <2>2. waiters[s] \in Seq(Task) /\ Range(waiters[s]) = {t \in Task : Blocked(t) /\ wait_queue[t] = s}
    BY <1>1 DEF SchedInv, QueueDiscipline
  <2>3. h \in Task /\ Blocked(h)
    BY <1>4, <2>2, PopFacts
  <2> HIDE DEF h
  <2>4. \A t \in Task : Created(t)' <=> Created(t)
    BY <1>1, <2>1, <2>3 DEF Created, Blocked
  <2> QED
    BY <1>1, <2>1, <2>4, ScheduledMostUrgent
<1> QED
  BY <1>2, <1>3, <1>4 DEF SemStep, os_kernel_sem_take, os_kernel_sem_give

(***************************************************************************)
(* A call of semaphore.c keeps priorities exact and mutex waiters sorted.  *)
(***************************************************************************)
LEMMA OneSem ==
    ASSUME OneMutexInv, SemInv, NEW s \in Semaphore, SemStep(s), UNCHANGED mutexVars
    PROVE  OneMutexInv' /\ SemInv'
<1>1. /\ MutexInv' /\ SemInv' /\ (\A m \in Mutex : waiters'[m] = waiters[m])
      /\ UNCHANGED <<priority, base_priority>>
  BY SemKeepsMutex, SemStepInv DEF OneMutexInv
<1>2. NextMostUrgent' /\ \A t \in Task : Created(t)' <=> Created(t)
  BY SemTasks DEF OneMutexInv
<1>3. UNCHANGED <<owner, next_mutex, owned_mutexes>>
  BY DEF mutexVars
<1>4. OwnedLists'
  BY <1>1, <1>2, <1>3 DEF OneMutexInv, OwnedLists
<1>5. \A m \in Mutex : Sorted(waiters'[m], priority')
  BY <1>1, OneMutexFacts
<1>6. ASSUME NEW t \in Task, Created(t)'
      PROVE  Exact(t)'
  <2>1. Exact(t)
    BY <1>2, <1>6, OneMutexFacts
  <2> QED
    BY <1>1, <1>3, <2>1, ExactKept
<1> QED
  BY <1>1, <1>2, <1>4, <1>5, <1>6, OneMutexParts

(***************************************************************************)
(* Every step keeps the stronger invariant if no task locks a second       *)
(* mutex.                                                                  *)
(***************************************************************************)
LEMMA OneKernelStep ==
    ASSUME OneMutexAtATime, OneKernelInv, [KernelNext]_kernelVars
    PROVE  OneKernelInv'
<1>1. MutexInv /\ SemInv /\ OneMutexInv
  BY DEF OneKernelInv, OneMutexInv, MutexInv, SemInv
<1>2. CASE [SchedNext]_schedVars /\ UNCHANGED <<mutexVars, count>>
  BY <1>1, <1>2, OneSched, SchedKeepsSem DEF OneKernelInv, SemInv
<1>3. ASSUME NEW m \in Mutex, MutexStep(m), UNCHANGED count
      PROVE  OneKernelInv'
  <2>1. OneMutexInv' /\ pc' # "hung"
    <3>1. ~ os_kernel_mutex_unlock(m) => \A k \in Mutex : owner[k] # g_current
      BY <1>3, HoldsNone DEF MutexStep, os_kernel_mutex_lock_free, os_kernel_mutex_lock_contended
    <3>2. OneMutexInv'
      BY <1>1, <1>3, <3>1, OneFree, OneContended, OneUnlock DEF MutexStep
    <3> QED
      BY <3>2 DEF OneMutexInv, MutexInv, SchedInv, SwitchControl
  <2>2. \A q \in WaitQueue \ Mutex : Range(waiters'[q]) = Range(waiters[q])
    BY <1>1, <1>3, <2>1, MutexStepInv
  <2> QED
    BY <1>1, <1>3, <2>1, <2>2, MutexKeepsSem DEF OneKernelInv, OneMutexInv
<1>4. ASSUME NEW s \in Semaphore, SemStep(s), UNCHANGED mutexVars
      PROVE  OneKernelInv'
  BY <1>1, <1>4, OneSem DEF OneKernelInv, SemInv
<1> QED
  BY <1>2, <1>3, <1>4 DEF KernelNext, kernelVars

(***************************************************************************)
(* The stronger invariant holds.                                           *)
(***************************************************************************)
THEOREM OneKernelInvariant ==
    ASSUME OneMutexAtATime
    PROVE  KernelSpec => []OneKernelInv
<1>1. KernelInit => OneKernelInv
  BY KernelInitInv DEF OneKernelInv, SemInv
<1>2. OneKernelInv /\ [KernelNext]_kernelVars => OneKernelInv'
  BY OneKernelStep
<1> QED
  BY <1>1, <1>2, PTL DEF KernelSpec

(***************************************************************************)
(* The list of a task that can run holds the mutexes it owns.              *)
(***************************************************************************)
THEOREM OwnedListExactHolds ==
    ASSUME OneMutexAtATime
    PROVE  KernelSpec => []OwnedListExact
<1>1. OneKernelInv => OwnedListExact
  BY OneMutexResults DEF OneKernelInv
<1> QED
  BY <1>1, OneKernelInvariant, PTL

(***************************************************************************)
(* Every task runs at exactly the priority it has inherited.               *)
(***************************************************************************)
THEOREM InheritanceExactHolds ==
    ASSUME OneMutexAtATime
    PROVE  KernelSpec => []InheritanceExact
<1>1. OneKernelInv => InheritanceExact
  BY OneMutexResults DEF OneKernelInv
<1> QED
  BY <1>1, OneKernelInvariant, PTL

(***************************************************************************)
(* Mutexes are handed over in the order of the current priorities.         *)
(***************************************************************************)
THEOREM WaitersSortedHolds ==
    ASSUME OneMutexAtATime
    PROVE  KernelSpec => []WaitersSorted
<1>1. OneKernelInv => WaitersSorted
  BY OneMutexResults DEF OneKernelInv
<1> QED
  BY <1>1, OneKernelInvariant, PTL

(***************************************************************************)
(* The scheduler never prefers a task to the owner of a mutex that a more  *)
(* urgent task than that one waits for.                                    *)
(***************************************************************************)
THEOREM NoPriorityInversionHolds ==
    ASSUME OneMutexAtATime
    PROVE  KernelSpec => []NoPriorityInversion
<1>1. OneKernelInv => NoPriorityInversion
  BY OneMutexResults DEF OneKernelInv
<1> QED
  BY <1>1, OneKernelInvariant, PTL

(***************************************************************************)
(* The list walks of os_kernel_mutex_unlock end.                           *)
(***************************************************************************)
THEOREM KernelNeverHangsHolds ==
    ASSUME OneMutexAtATime
    PROVE  KernelSpec => []KernelNeverHangs
<1>1. OneKernelInv => KernelNeverHangs
  BY OneMutexResults DEF OneKernelInv
<1> QED
  BY <1>1, OneKernelInvariant, PTL

(***************************************************************************)
(* Tasks that hold one mutex at a time cannot deadlock on mutexes: the     *)
(* owner of a mutex waits for no mutex in os_kernel_mutex_lock, so every   *)
(* chain of waiting has one link.                                          *)
(***************************************************************************)
THEOREM OwnersDoNotWait ==
    ASSUME OneMutexAtATime
    PROVE  KernelSpec => [](\A m \in Mutex, k \in Mutex : owner[m] \notin Range(waiters[k]))
<1>1. OneKernelInv => \A m \in Mutex, k \in Mutex : owner[m] \notin Range(waiters[k])
  BY DEF OneKernelInv, OneMutexInv, OwnedLists
<1> QED
  BY <1>1, OneKernelInvariant, PTL

-----------------------------------------------------------------------------
(* Sleeping beside mutexes and semaphores *)

(***************************************************************************)
(* Calls of mutex.c and semaphore.c leave the timeouts of sleeping tasks   *)
(* alone: those who wait there have none.                                  *)
(***************************************************************************)
LEMMA TimeoutsKept ==
    ASSUME KernelInv, SchedInv,
           (\E m \in Mutex : MutexStep(m)) \/ (\E s \in Semaphore : SemStep(s))
    PROVE  /\ UNCHANGED <<g_timeout_queue, g_tick>>
           /\ \A t \in Range(g_timeout_queue) : wake_tick'[t] = wake_tick[t]
<1>1. /\ g_timeout_queue \in Seq(Task) /\ wake_tick \in [Task -> Tick]
      /\ \A t \in Range(g_timeout_queue) :
           t \in Task /\ Blocked(t) /\ wait_queue[t] = g_sleep_queue
      /\ SleepersWait
  BY DEF KernelInv, KernelState, SchedInv, SchedTypeOK, QueueDiscipline, SleepersWait, Range
<1>2. /\ \A m \in Mutex : m \in WaitQueue /\ m # g_sleep_queue
      /\ \A s \in Semaphore : s \in WaitQueue /\ s # g_sleep_queue
  BY MutexAssumption, SemaphoreAssumption
<1>3. ASSUME InTask
      PROVE  g_current \in Task /\ g_current \notin Range(g_timeout_queue)
  BY <1>1, <1>3 DEF SchedInv, OnlyReadyTasksRun, InTask, Blocked
<1>4. ASSUME InTask, NEW q \in WaitQueue, NEW ordered, NEW rd, NEW wt, NEW prio,
             os_task_block_locked(q, OS_WAIT_FOREVER, ordered, rd, wt, prio)
      PROVE  /\ UNCHANGED g_timeout_queue
             /\ \A t \in Range(g_timeout_queue) : wake_tick'[t] = wake_tick[t]
  BY <1>1, <1>3, <1>4 DEF os_task_block_locked
<1>5. ASSUME NEW q \in WaitQueue, q # g_sleep_queue, waiters[q] # << >>, NEW rd, NEW prio,
             os_task_wake_one_locked(q, rd, prio)
      PROVE  /\ UNCHANGED g_timeout_queue
             /\ \A t \in Range(g_timeout_queue) : wake_tick'[t] = wake_tick[t]
  <2> DEFINE w == Head(waiters[q])
  <2>1. /\ waiters[q] \in Seq(Task)
        /\ Range(waiters[q]) = {t \in Task : Blocked(t) /\ wait_queue[t] = q}
    BY DEF SchedInv, SchedTypeOK, QueueDiscipline
  <2>2. w \in Range(waiters[q])
    BY <1>5, <2>1 DEF Range
  <2>3. w \in Task /\ w \notin Range(g_timeout_queue)
    BY <1>1, <1>5, <2>1, <2>2
  <2>4. os_timeout_queue_remove(g_timeout_queue, w) = g_timeout_queue
    <3>1. {i \in DOMAIN g_timeout_queue : g_timeout_queue[i] # w} = DOMAIN g_timeout_queue
      BY <2>3 DEF Range
    <3> HIDE DEF w
    <3> QED
      BY <1>1, <3>1, PickAll DEF os_timeout_queue_remove
  <2>5. g_timeout_queue' = g_timeout_queue /\ wake_tick' = [wake_tick EXCEPT ![w] = OS_WAIT_FOREVER]
    BY <1>5, <2>4 DEF os_task_wake_one_locked
  <2> HIDE DEF w
  <2> QED
    BY <1>1, <2>3, <2>5
<1>6. CASE \E m \in Mutex : os_kernel_mutex_lock_free(m)
  BY <1>6 DEF os_kernel_mutex_lock_free, schedVars, tcbVars, queueVars
<1>7. CASE \E m \in Mutex : os_kernel_mutex_lock_contended(m)
  BY <1>2, <1>4, <1>7 DEF os_kernel_mutex_lock_contended
<1>8. CASE \E m \in Mutex : os_kernel_mutex_unlock(m)
  <2> PICK m \in Mutex : os_kernel_mutex_unlock(m)
    BY <1>8
  <2>1. CASE pc' = "hung" /\ UNCHANGED <<g_timeout_queue, g_tick, wake_tick>>
    BY <2>1
  <2>2. CASE /\ waiters[m] # << >> /\ UNCHANGED g_tick
             /\ \E rd, prio : os_task_wake_one_locked(m, rd, prio)
    BY <1>2, <1>5, <2>2
  <2>3. CASE UNCHANGED <<g_timeout_queue, g_tick, wake_tick>>
    BY <2>3
  <2> QED
    BY <2>1, <2>2, <2>3 DEF os_kernel_mutex_unlock, tcbVars, queueVars
<1>9. CASE \E s \in Semaphore : os_kernel_sem_take(s)
  <2> PICK s \in Semaphore : os_kernel_sem_take(s)
    BY <1>9
  <2>1. CASE UNCHANGED schedVars
    BY <2>1 DEF schedVars, tcbVars, queueVars
  <2>2. CASE /\ InTask /\ UNCHANGED g_tick
             /\ os_task_block_locked(s, OS_WAIT_FOREVER, FALSE, g_priorities, waiters, priority)
    BY <1>2, <1>4, <2>2
  <2> QED
    BY <2>1, <2>2 DEF os_kernel_sem_take
<1>10. CASE \E s \in Semaphore : os_kernel_sem_give(s)
  <2> PICK s \in Semaphore : os_kernel_sem_give(s)
    BY <1>10
  <2>1. CASE UNCHANGED schedVars
    BY <2>1 DEF schedVars, tcbVars, queueVars
  <2>2. CASE /\ waiters[s] # << >> /\ UNCHANGED g_tick
             /\ os_task_wake_one_locked(s, g_priorities, priority)
    BY <1>2, <1>5, <2>2
  <2> QED
    BY <2>1, <2>2 DEF os_kernel_sem_give
<1> QED
  BY <1>6, <1>7, <1>8, <1>9, <1>10 DEF MutexStep, SemStep

(***************************************************************************)
(* The order of the timeouts, of the whole kernel, and who leaves them at  *)
(* a step.  A kernel that hangs in mutex.c no longer ticks.                *)
(***************************************************************************)
KernelTimeouts == TimeoutsInOrder(g_timeout_queue, LeftOf(wake_tick, g_tick))

LeaveOnTime ==
    \A t \in Range(g_timeout_queue) :
        (t \notin Range(g_timeout_queue')) <=> (g_tick' # g_tick /\ g_tick' = wake_tick[t])

(***************************************************************************)
(* No call of a mutex or semaphore disturbs the timeouts, and the tick     *)
(* handler treats them as it does without.                                 *)
(***************************************************************************)
LEMMA KernelTimeoutStep ==
    ASSUME DelaysInRange, KernelInv, KernelTimeouts, [KernelNext]_kernelVars
    PROVE  KernelTimeouts' /\ LeaveOnTime
<1>1. CASE UNCHANGED schedVars
  BY <1>1 DEF schedVars, tcbVars, queueVars, KernelTimeouts, LeaveOnTime
<1>2. CASE pc = "hung"
  <2>1. UNCHANGED kernelVars
    BY <1>2, HungForEver
  <2> QED
    BY <1>1, <2>1 DEF kernelVars
<1>3. CASE pc # "hung" /\ SchedNext
  BY <1>3, TimeoutStep DEF KernelInv, KernelTimeouts, LeaveOnTime
<1>4. CASE /\ pc # "hung"
           /\ (\E m \in Mutex : MutexStep(m)) \/ (\E s \in Semaphore : SemStep(s))
  <2>1. /\ UNCHANGED <<g_timeout_queue, g_tick>>
        /\ \A t \in Range(g_timeout_queue) : wake_tick'[t] = wake_tick[t]
    BY <1>4, TimeoutsKept DEF KernelInv
  <2>2. g_timeout_queue \in Seq(Task) /\ Range(g_timeout_queue) \subseteq Task
    BY DEF KernelInv, KernelState, SchedTypeOK, Range
  <2>3. \A t \in Range(g_timeout_queue) : LeftOf(wake_tick, g_tick)[t] = LeftOf(wake_tick', g_tick)[t]
    BY <2>1, <2>2 DEF LeftOf
  <2>4. TimeoutsInOrder(g_timeout_queue, LeftOf(wake_tick', g_tick))
    BY <2>2, <2>3, SameTimeouts DEF KernelTimeouts
  <2> QED
    BY <2>1, <2>4 DEF KernelTimeouts, LeaveOnTime
<1> QED
  BY <1>1, <1>2, <1>3, <1>4 DEF KernelNext, kernelVars

(***************************************************************************)
(* The types of the timeouts are all that their order needs of SchedInv.   *)
(***************************************************************************)
LEMMA KernelTimeoutParts == KernelInv => (KernelTimeouts <=> TimeoutQueueSorted)
<1> SUFFICES ASSUME KernelInv
             PROVE  KernelTimeouts <=> TimeoutQueueSorted
  OBVIOUS
<1>1. g_timeout_queue \in Seq(Task) /\ wake_tick \in [Task -> Tick] /\ g_tick \in Tick
  BY DEF KernelInv, KernelState, SchedTypeOK
<1> QED
  BY <1>1, TimeoutParts DEF KernelTimeouts, TimeoutQueueSorted, TicksLeft

(***************************************************************************)
(* Sleeping tasks stay sorted by the time left, over any number of wraps   *)
(* of the tick counter, whatever tasks do with mutexes and semaphores.     *)
(***************************************************************************)
THEOREM KernelTimeoutQueueSorted ==
    ASSUME DelaysInRange
    PROVE  KernelSpec => []TimeoutQueueSorted
<1>1. KernelInit => KernelTimeouts
  BY DEF KernelInit, SchedInit, KernelTimeouts, TimeoutsInOrder, Sorted, Range
<1>2. KernelInv /\ KernelTimeouts /\ [KernelNext]_kernelVars => KernelTimeouts'
  BY KernelTimeoutStep
<1>3. KernelSpec => [](KernelInv /\ KernelTimeouts)
  BY <1>1, <1>2, KernelInvariant, PTL DEF KernelSpec
<1> QED
  BY <1>3, KernelTimeoutParts, PTL

(***************************************************************************)
(* A sleeping task wakes at the tick it asked for, also when it owns a     *)
(* mutex and inheritance moves it in the sleep queue.                      *)
(***************************************************************************)
THEOREM KernelWakeOnTime ==
    ASSUME DelaysInRange
    PROVE  KernelSpec => WakeOnTime
<1>1. KernelInv /\ TimeoutQueueSorted /\ [KernelNext]_kernelVars =>
        [\A t \in Range(g_timeout_queue) :
          (t \notin Range(g_timeout_queue')) <=>
             (g_tick' # g_tick /\ g_tick' = wake_tick[t])]_schedVars
  BY KernelTimeoutStep, KernelTimeoutParts DEF LeaveOnTime
<1> QED
  BY <1>1, KernelInvariant, KernelTimeoutQueueSorted, PTL DEF KernelSpec, WakeOnTime
=============================================================================
