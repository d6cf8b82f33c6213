---------------------------- MODULE PiTestProofs ----------------------------
(***************************************************************************)
(* The scenario of app/pi_test.c has no priority inversion, wherever ticks *)
(* interrupt it, from the results about mutexes of MutexProofs.            *)
(***************************************************************************)
EXTENDS PiTest, MutexProofs

(***************************************************************************)
(* Where the two tasks of the scenario can be at the same time, and what   *)
(* that says of the tasks that exist, of the mutex and of those who wait.  *)
(***************************************************************************)
Together ==
    \/ low_at \in {"created", "lock", "create_high", "create_medium"} /\ high_at = "lock"
    \/ low_at \in {"create_medium", "unlock"} /\ high_at = "acquired"
    \/ low_at = "done" /\ high_at \in {"acquired", "unlock", "done"}

HighWaits == high_at = "acquired" /\ low_at # "done"

PiCreated(t) ==
    \/ t = Idle
    \/ t = Low /\ low_at # "created"
    \/ t = High /\ low_at \in {"create_medium", "unlock", "done"}
    \/ t = Medium /\ low_at \in {"unlock", "done"}

PiBase(t) ==
    /\ t = Idle => base_priority[t] = OS_TASK_IDLE
    /\ t = Low => base_priority[t] = OS_TASK_LOW
    /\ t = Medium => base_priority[t] = OS_TASK_MEDIUM
    /\ t = High => base_priority[t] = OS_TASK_HIGH

PiOwner ==
    IF low_at \in {"created", "lock"} THEN NULL
    ELSE IF low_at # "done" THEN Low
    ELSE IF high_at # "done" THEN High ELSE NULL

PiPlaces ==
    /\ Together
    /\ \A t \in Task : /\ Created(t) <=> PiCreated(t)
                       /\ PiCreated(t) => PiBase(t)
    /\ \A m \in Mutex : owner[m] = IF m = g_pi_mutex THEN PiOwner ELSE NULL
    /\ \A q \in WaitQueue : \A t :
         t \in Range(waiters[q]) <=> q = g_pi_mutex /\ t = High /\ HighWaits
    /\ g_pi_high_acquired => high_at \in {"unlock", "done"}

(***************************************************************************)
(* A context switch that has been decided is carried out: no tick changes  *)
(* the decision, for nobody sleeps and no two ready tasks have the same    *)
(* priority.                                                               *)
(***************************************************************************)
SwitchSettled ==
    /\ pc = "thread" /\ ~ pendsv => g_current = g_next
    /\ pc = "store" => r_next = g_next
    /\ pc = "restore" => g_current = g_next

PiInv == OneMutexInv /\ PiPlaces /\ SwitchSettled

(***************************************************************************)
(* The constants, as the proofs use them.                                  *)
(***************************************************************************)
LEMMA PiConstants ==
    /\ Idle \in Task /\ Low \in Task /\ Medium \in Task /\ High \in Task
    /\ Low # Idle /\ Medium # Idle /\ High # Idle
    /\ Low # Medium /\ Medium # High /\ High # Low
    /\ NULL \notin Task /\ g_pi_mutex \in Mutex /\ g_pi_mutex \in WaitQueue
    /\ Mutex \subseteq WaitQueue
    /\ OS_TASK_IDLE = 3 /\ OS_TASK_LOW = 2 /\ OS_TASK_MEDIUM = 1 /\ OS_TASK_HIGH = 0
    /\ Priority = 0 .. 3
  BY PiTestAssumption, SchedulerAssumption, MutexAssumption
     DEF OS_TASK_IDLE, OS_TASK_LOW, OS_TASK_MEDIUM, OS_TASK_HIGH, Priority

(***************************************************************************)
(* The priorities the tasks have by inheritance: Low has High's while High *)
(* waits for it, and all others have their own.                            *)
(***************************************************************************)
LEMMA PiPriorities ==
    ASSUME OneMutexInv, PiPlaces
    PROVE  /\ priority[Idle] = 3
           /\ Created(High) => priority[High] = 0
           /\ Created(Medium) => priority[Medium] = 1
           /\ Created(Low) => priority[Low] = IF HighWaits THEN 0 ELSE 2
<1>1. \A t \in Task : Created(t) => Exact(t) /\ PiBase(t)
  BY OneMutexFacts DEF PiPlaces
<1>2. priority \in [Task -> Priority] /\ base_priority \in [Task -> Priority]
  BY OneMutexFacts
<1>3. ASSUME NEW t \in Task, Created(t), t # Low
      PROVE  priority[t] = base_priority[t]
  <2>1. \A p : p \notin Inherited(t)
    <3> SUFFICES ASSUME NEW m \in Mutex, owner[m] = t, NEW w \in Range(waiters[m])
                 PROVE  FALSE
      BY InheritedFacts
    <3>1. m = g_pi_mutex /\ HighWaits
      BY PiConstants DEF PiPlaces
    <3>2. PiOwner = t
      BY <3>1 DEF PiPlaces
    <3> QED
      BY <1>3, <3>1, <3>2, PiConstants DEF PiPlaces, PiOwner, HighWaits, Together
  <2> QED
    BY <1>1, <1>3, <2>1 DEF Exact
<1>4. Created(Idle)
  BY PiConstants DEF PiPlaces, PiCreated
<1>5. /\ priority[Idle] = 3
      /\ Created(High) => priority[High] = 0
      /\ Created(Medium) => priority[Medium] = 1
  BY <1>1, <1>3, <1>4, PiConstants DEF PiBase
<1>6. ASSUME Created(Low), HighWaits
      PROVE  priority[Low] = 0
  <2>1. High \in Range(waiters[g_pi_mutex]) /\ owner[g_pi_mutex] = Low
    BY <1>6, PiConstants DEF PiPlaces, PiOwner, HighWaits, Together
  <2>2. Created(High)
    BY <1>6, PiConstants DEF PiPlaces, PiCreated, HighWaits, Together
  <2>3. 0 \in Inherited(Low)
    BY <1>5, <2>1, <2>2, InheritedFacts, PiConstants
  <2>4. priority[Low] <= 0 /\ priority[Low] \in 0 .. 3
    BY <1>1, <1>2, <1>6, <2>3, PiConstants DEF Exact
  <2> QED
    BY <2>4
<1>7. ASSUME Created(Low), ~ HighWaits
      PROVE  priority[Low] = 2
  <2>1. \A p : p \notin Inherited(Low)
    <3> SUFFICES ASSUME NEW m \in Mutex, NEW w \in Range(waiters[m])
                 PROVE  FALSE
      BY InheritedFacts
    <3> QED
      BY <1>7, PiConstants DEF PiPlaces
  <2>2. priority[Low] = base_priority[Low]
    BY <1>1, <1>7, <2>1, PiConstants DEF Exact
  <2> QED
    BY <1>1, <1>7, <2>2, PiConstants DEF PiBase
<1> QED
  BY <1>5, <1>6, <1>7

(***************************************************************************)
(* A task is blocked exactly when it is High and waits for the mutex; the  *)
(* others are ready.  Nobody sleeps.                                       *)
(***************************************************************************)
LEMMA PiBlocked ==
    ASSUME OneMutexInv, PiPlaces
    PROVE  /\ \A t \in Task : Blocked(t) <=> t = High /\ HighWaits
           /\ \A t \in Task : Ready(t) <=> PiCreated(t) /\ ~ Blocked(t)
           /\ Range(g_timeout_queue) = {}
<1>1. /\ \A q \in WaitQueue : Range(waiters[q]) = {t \in Task : Blocked(t) /\ wait_queue[t] = q}
      /\ \A t \in Task : Blocked(t) <=> wait_queue[t] # NULL
      /\ \A t \in Range(g_timeout_queue) : Blocked(t)
      /\ wait_queue \in [Task -> WaitQueue \cup {NULL}]
      /\ state \in [Task -> {"none", "READY", "RUNNING", "BLOCKED"}]
      /\ g_timeout_queue \in Seq(Task)
  BY DEF OneMutexInv, MutexInv, SchedInv, QueueDiscipline, SchedTypeOK
<1>2. \A t \in Task : Blocked(t) <=> t = High /\ HighWaits
  BY <1>1, PiConstants DEF PiPlaces
<1>3. \A t \in Task : Ready(t) <=> PiCreated(t) /\ ~ Blocked(t)
  BY <1>1 DEF PiPlaces, Ready, Blocked, Created
<1>4. Range(g_timeout_queue) = {}
  <2> SUFFICES ASSUME NEW t \in Range(g_timeout_queue)
               PROVE  FALSE
    OBVIOUS
  <2>1. t \in Task /\ Blocked(t) /\ wait_queue[t] = g_sleep_queue
    BY <1>1 DEF OneMutexInv, MutexInv, SleepersWait, Range
  <2>2. t \in Range(waiters[g_sleep_queue])
    BY <1>1, <2>1, SchedulerAssumption
  <2> QED
    BY <2>2, PiTestAssumption, SchedulerAssumption, MutexAssumption DEF PiPlaces
<1> QED
  BY <1>2, <1>3, <1>4

(***************************************************************************)
(* No two ready tasks have the same priority, so the choice of os_schedule *)
(* is the one most urgent task.                                            *)
(***************************************************************************)
LEMMA ChoiceUnique ==
    ASSUME OneMutexInv, PiPlaces
    PROVE  /\ g_next \in Task /\ Ready(g_next)
           /\ \A t \in Task : Ready(t) /\ priority[t] = priority[g_next] => t = g_next
           /\ \A t \in Task : Ready(t) => priority[g_next] <= priority[t]
<1>1. g_next \in Task /\ Ready(g_next) /\ \A t \in Task : Ready(t) => priority[g_next] <= priority[t]
  BY DEF OneMutexInv, MutexInv, SchedInv, SwitchControl, NextMostUrgent
<1>2. ASSUME NEW t \in Task, NEW u \in Task, Ready(t), Ready(u), priority[t] = priority[u]
      PROVE  t = u
  <2>1. /\ t \in {Idle, Low, Medium, High} /\ u \in {Idle, Low, Medium, High}
        /\ Created(t) /\ Created(u)
        /\ HighWaits => t # High /\ u # High
    BY <1>2, PiBlocked DEF PiCreated, PiPlaces
  <2> QED
    BY <1>2, <2>1, PiPriorities, PiConstants
<1> QED
  BY <1>1, <1>2

-----------------------------------------------------------------------------
(* The steps *)

piPlaces == <<low_at, high_at, g_pi_high_acquired>>

(***************************************************************************)
(* What a tick does in this scenario: time goes by, and nothing else.      *)
(***************************************************************************)
LEMMA PiTick ==
    ASSUME OneMutexInv, PiPlaces, SysTick_Handler
    PROVE  /\ \A t \in Task : state'[t] = state[t]
           /\ \A q \in WaitQueue : Range(waiters'[q]) = Range(waiters[q])
           /\ pendsv => pendsv'
           /\ UNCHANGED <<priority, base_priority, switchVars>>
<1>1. SchedInv /\ Range(g_timeout_queue) = {}
  BY PiBlocked DEF OneMutexInv, MutexInv
<1>2. Woken = {} /\ \A t \in Task : wait_queue'[t] = wait_queue[t]
  BY <1>1, TickEffect
<1>3. /\ \A t \in Task : state'[t] = state[t] \/ (state[t] = "BLOCKED" /\ state'[t] = "READY")
      /\ pendsv => pendsv'
      /\ WaitQueuesOK(state', wait_queue', waiters')
  BY <1>1, TickStep DEF SchedInv
<1>4. WaitQueuesOK(state, wait_queue, waiters)
  BY <1>1, QueueDisciplineParts DEF SchedInv
<1>5. \A t \in Task : state'[t] = state[t]
  BY <1>2, <1>3, <1>4 DEF WaitQueuesOK
<1>6. \A q \in WaitQueue : Range(waiters'[q]) = Range(waiters[q])
  BY <1>2, <1>3, <1>4, <1>5 DEF WaitQueuesOK
<1>7. UNCHANGED <<priority, base_priority, switchVars>>
  BY DEF SysTick_Handler
<1> QED
  BY <1>3, <1>5, <1>6, <1>7

(***************************************************************************)
(* The places are kept by a step that creates no task, touches no mutex    *)
(* and moves neither of the two tasks.                                     *)
(***************************************************************************)
LEMMA PlacesKept ==
    ASSUME PiPlaces, UNCHANGED <<owner, piPlaces>>,
           \A t \in Task : Created(t)' <=> Created(t),
           \A t \in Task : Created(t) => base_priority'[t] = base_priority[t],
           \A q \in WaitQueue : Range(waiters'[q]) = Range(waiters[q])
    PROVE  PiPlaces'
<1>1. UNCHANGED <<owner, low_at, high_at, g_pi_high_acquired>>
  BY DEF piPlaces
<1>2. Together' /\ HighWaits' = HighWaits /\ PiOwner' = PiOwner
  BY <1>1 DEF PiPlaces, Together, HighWaits, PiOwner
<1>3. ASSUME NEW t \in Task
      PROVE  (Created(t)' <=> PiCreated(t)') /\ (PiCreated(t)' => PiBase(t)')
  <2>1. PiCreated(t)' <=> PiCreated(t)
    BY <1>1 DEF PiCreated
  <2>2. PiCreated(t) => PiBase(t)'
    BY DEF PiPlaces, PiBase
  <2> QED
    BY <2>1, <2>2 DEF PiPlaces
<1>4. \A q \in WaitQueue : \A t :
         t \in Range(waiters'[q]) <=> q = g_pi_mutex /\ t = High /\ HighWaits'
  BY <1>2 DEF PiPlaces
<1>5. g_pi_high_acquired' => high_at' \in {"unlock", "done"}
  BY <1>1 DEF PiPlaces
<1>6. \A m \in Mutex : owner'[m] = IF m = g_pi_mutex THEN PiOwner' ELSE NULL
  BY <1>1, <1>2 DEF PiPlaces
<1> QED
  BY <1>2, <1>3, <1>4, <1>5, <1>6 DEF PiPlaces

(***************************************************************************)
(* The choice of os_schedule stays when the ready tasks and their          *)
(* priorities do.                                                          *)
(***************************************************************************)
LEMMA ChoiceKept ==
    ASSUME OneMutexInv, PiPlaces, OneMutexInv',
           \A t \in Task : Ready(t)' <=> Ready(t), UNCHANGED priority
    PROVE  g_next' = g_next
<1>1. g_next' \in Task /\ Ready(g_next)' /\ \A t \in Task : Ready(t)' => priority'[g_next'] <= priority'[t]
  BY DEF OneMutexInv, MutexInv, SchedInv, SwitchControl, NextMostUrgent
<1>2. Ready(g_next)' <=> state'[g_next'] \in {"READY", "RUNNING"}
  BY DEF Ready
<1>3. \A t \in Task : state'[t] \in {"READY", "RUNNING"} <=> Ready(t)
  BY DEF Ready
<1>4. \A t \in Task : priority[t] \in Int
  <2>1. priority \in [Task -> Priority]
    BY OneMutexFacts
  <2> QED
    BY <2>1, PiConstants
<1>5. priority[g_next'] <= priority[g_next] /\ priority[g_next] <= priority[g_next']
  BY <1>1, <1>2, <1>3, ChoiceUnique
<1> QED
  BY <1>1, <1>2, <1>3, <1>4, <1>5, ChoiceUnique

(***************************************************************************)
(* Boot, ticks and the context switch keep the invariant.                  *)
(***************************************************************************)
LEMMA PiExceptionInv ==
    ASSUME PiInv, SysTick_Handler \/ PendSV_Handler \/ os_start, UNCHANGED <<mutexVars, piPlaces>>
    PROVE  PiInv'
<1>1. OneMutexInv /\ PiPlaces /\ SwitchSettled /\ SchedInv
  BY DEF PiInv, OneMutexInv, MutexInv
<1>2. OneMutexInv'
  BY <1>1, OneSched DEF SchedNext, RunStep
<1>3. UNCHANGED owner
  BY DEF mutexVars
<1>4. g_next \in Task /\ g_next # NULL
  BY <1>1, PiConstants DEF SchedInv, SwitchControl
<1>5. CASE SysTick_Handler
  <2>1. /\ \A t \in Task : state'[t] = state[t]
        /\ \A q \in WaitQueue : Range(waiters'[q]) = Range(waiters[q])
        /\ pendsv => pendsv'
        /\ UNCHANGED <<priority, base_priority, switchVars>>
    BY <1>1, <1>5, PiTick
  <2>2. \A t \in Task : (Ready(t)' <=> Ready(t)) /\ (Created(t)' <=> Created(t))
    BY <2>1 DEF Ready, Created
  <2>3. PiPlaces'
    BY <1>1, <1>3, <2>1, <2>2, PlacesKept
  <2>4. g_next' = g_next
    BY <1>1, <1>2, <2>1, <2>2, ChoiceKept
  <2>5. SwitchSettled'
    BY <1>1, <2>1, <2>4 DEF SwitchSettled, switchVars
  <2> QED
    BY <1>2, <2>3, <2>5 DEF PiInv
<1>6. CASE PendSV_Handler
  <2>1. /\ \A t \in Task : Created(t)' <=> Created(t)
        /\ UNCHANGED <<base_priority, waiters, g_next>>
    <3>1. CASE PendSV_Save \/ os_commit_switch_load \/ PendSV_Restore
      BY <3>1 DEF PendSV_Save, os_commit_switch_load, PendSV_Restore, tcbVars, queueVars, Created
    <3>2. CASE os_commit_switch_demote
      BY <3>2, <1>1 DEF os_commit_switch_demote, queueVars, Created, SchedInv, SchedTypeOK
    <3>3. CASE os_commit_switch_store
      <4>1. r_next \in Task /\ Ready(r_next)
        BY <3>3, <1>1 DEF os_commit_switch_store, SchedInv, SwitchControl
      <4> QED
        BY <3>3, <4>1, <1>1
           DEF os_commit_switch_store, queueVars, Created, Ready, SchedInv, SchedTypeOK
    <3> QED
      BY <1>6, <3>1, <3>2, <3>3 DEF PendSV_Handler
  <2>2. PiPlaces'
    BY <1>1, <1>3, <2>1, PlacesKept
  <2>3. SwitchSettled'
    BY <1>1, <1>4, <1>6 DEF PendSV_Handler, SwitchSettled, PendSV_Save, os_commit_switch_demote,
       os_commit_switch_load, os_commit_switch_store, PendSV_Restore
  <2> QED
    BY <1>2, <2>2, <2>3 DEF PiInv
<1>7. CASE os_start
  <2>1. UNCHANGED <<state, base_priority, waiters>> /\ pc' = "thread" /\ pendsv'
    BY <1>7 DEF os_start, tcbVars, queueVars
  <2>2. PiPlaces'
    BY <1>1, <1>3, <2>1, PlacesKept DEF Created
  <2> QED
    BY <1>2, <2>1, <2>2 DEF PiInv, SwitchSettled
<1> QED
  BY <1>5, <1>6, <1>7

(***************************************************************************)
(* Whoever makes a system call is the most urgent ready task.              *)
(***************************************************************************)
LEMMA PiCaller ==
    ASSUME PiInv, InTask
    PROVE  /\ g_current \in Task /\ g_current = g_next /\ Ready(g_current)
           /\ pc = "thread" /\ ~ pendsv
           /\ \A t \in Task : Ready(t) => priority[g_current] <= priority[t]
  BY ChoiceUnique DEF PiInv, InTask, SwitchSettled

(***************************************************************************)
(* The creation of a task of the scenario.                                 *)
(***************************************************************************)
LEMMA PiCreateInv ==
    ASSUME PiInv, NEW t \in Task, NEW p \in Priority, os_kernel_task_create(t, p),
           UNCHANGED <<mutexVars, high_at, g_pi_high_acquired>>,
           Together', HighWaits' = HighWaits, PiOwner' = PiOwner,
           \A u \in Task : PiCreated(u)' <=> PiCreated(u) \/ u = t,
           t = Low => p = OS_TASK_LOW, t = Medium => p = OS_TASK_MEDIUM,
           t = High => p = OS_TASK_HIGH
    PROVE  PiInv'
<1>1. OneMutexInv /\ PiPlaces /\ SwitchSettled /\ SchedInv
  BY DEF PiInv, OneMutexInv, MutexInv
<1>2. OneMutexInv'
  BY <1>1, OneSched DEF SchedNext
<1>3. /\ ~ Created(t) /\ state' = [state EXCEPT ![t] = "READY"]
      /\ base_priority' = [base_priority EXCEPT ![t] = p]
      /\ pc = "boot" \/ InTask
      /\ pendsv' = (pendsv \/ (g_current # NULL /\ g_next' # g_current))
      /\ UNCHANGED <<waiters, g_current, pc>>
  BY DEF os_kernel_task_create, os_task_create_internal
<1>4. /\ state \in [Task -> {"none", "READY", "RUNNING", "BLOCKED"}]
      /\ base_priority \in [Task -> Priority]
  BY <1>1, OneMutexFacts
<1>5. ASSUME NEW u \in Task
      PROVE  (Created(u)' <=> PiCreated(u)') /\ (PiCreated(u)' => PiBase(u)')
  <2>1. Created(u)' <=> Created(u) \/ u = t
    BY <1>3, <1>4 DEF Created
  <2>2. PiCreated(u) /\ u # t => PiBase(u)'
    BY <1>1, <1>3, <1>4 DEF PiPlaces, PiBase
  <2>3. t # Idle
    BY <1>1, <1>3, PiConstants DEF PiPlaces, PiCreated
  <2>4. PiBase(t)'
    BY <1>3, <1>4, <2>3, PiConstants DEF PiBase
  <2> QED
    BY <1>1, <2>1, <2>2, <2>4 DEF PiPlaces
<1>6. PiPlaces'
  <2>1. UNCHANGED owner
    BY DEF mutexVars
  <2>2. \A m \in Mutex : owner'[m] = IF m = g_pi_mutex THEN PiOwner' ELSE NULL
    BY <1>1, <2>1 DEF PiPlaces
  <2>3. \A q \in WaitQueue : \A u :
         u \in Range(waiters'[q]) <=> q = g_pi_mutex /\ u = High /\ HighWaits'
    BY <1>1, <1>3 DEF PiPlaces
  <2>4. g_pi_high_acquired' => high_at' \in {"unlock", "done"}
    BY <1>1 DEF PiPlaces
  <2> QED
    BY <1>5, <2>2, <2>3, <2>4 DEF PiPlaces
<1>7. SwitchSettled'
  <2>1. CASE pc = "boot"
    BY <1>3, <2>1 DEF SwitchSettled
  <2>2. CASE InTask
    <3>1. g_current # NULL /\ pc = "thread"
      BY <2>2, PiCaller, PiConstants
    <3> QED
      BY <1>3, <3>1 DEF SwitchSettled
  <2> QED
    BY <1>3, <2>1, <2>2
<1> QED
  BY <1>2, <1>6, <1>7 DEF PiInv

(***************************************************************************)
(* os_app_main creates Low.                                                *)
(***************************************************************************)
LEMMA PiMainInv == PiInv /\ os_app_main => PiInv'
<1> SUFFICES ASSUME PiInv, os_app_main
             PROVE  PiInv'
  OBVIOUS
<1>1. /\ os_kernel_task_create(Low, OS_TASK_LOW)
      /\ low_at = "created" /\ low_at' = "lock"
      /\ UNCHANGED <<mutexVars, high_at, g_pi_high_acquired>>
  BY DEF os_app_main
<1>2. Together' /\ HighWaits' = HighWaits /\ PiOwner' = PiOwner
  BY <1>1 DEF PiInv, PiPlaces, Together, HighWaits, PiOwner
<1>3. \A u \in Task : PiCreated(u)' <=> PiCreated(u) \/ u = Low
  BY <1>1, PiConstants DEF PiCreated
<1>4. OS_TASK_LOW \in Priority
  BY PiConstants
<1> QED
  BY <1>1, <1>2, <1>3, <1>4, PiCreateInv, PiConstants

(***************************************************************************)
(* The steps of pi_low_task.  It can create Medium only when High waits:   *)
(* until then High is the more urgent one.                                 *)
(***************************************************************************)
LEMMA PiLowInv == PiInv /\ pi_low_task => PiInv'
<1> SUFFICES ASSUME PiInv, pi_low_task
             PROVE  PiInv'
  OBVIOUS
<1>1. OneMutexInv /\ PiPlaces /\ SwitchSettled
  BY DEF PiInv
<1>2. g_current = Low /\ UNCHANGED <<high_at, g_pi_high_acquired>>
  BY DEF pi_low_task, LowRuns
<1>3. pc # "boot"
  BY <1>1, <1>2, PiConstants DEF OneMutexInv, MutexInv, SchedInv, SwitchControl
<1>4. CASE low_at = "lock" /\ low_at' = "create_high" /\ os_kernel_mutex_lock_free(g_pi_mutex)
  <2>1. \A k \in Mutex : owner[k] # g_current
    BY <1>1, <1>2, <1>4, PiConstants DEF PiPlaces, PiOwner
  <2>2. OneMutexInv'
    BY <1>1, <1>4, <2>1, OneFree, PiConstants
  <2>3. UNCHANGED schedVars /\ owner' = [owner EXCEPT ![g_pi_mutex] = Low]
    BY <1>2, <1>4 DEF os_kernel_mutex_lock_free
  <2>4. UNCHANGED <<state, base_priority, waiters, g_current, g_next, pc, pendsv, r_next>>
    BY <2>3 DEF schedVars, tcbVars, queueVars, switchVars
  <2>5. Together' /\ HighWaits' = HighWaits /\ PiOwner' = Low
    BY <1>1, <1>2, <1>4 DEF PiPlaces, Together, HighWaits, PiOwner
  <2>6. \A t \in Task : (Created(t)' <=> PiCreated(t)') /\ (PiCreated(t)' => PiBase(t)')
    BY <1>1, <1>2, <1>4, <2>4 DEF PiPlaces, Created, PiCreated, PiBase
  <2>7. \A m \in Mutex : owner'[m] = IF m = g_pi_mutex THEN PiOwner' ELSE NULL
    <3>1. owner \in [Mutex -> TaskOrNull]
      BY <1>1, OneMutexFacts
    <3> QED
      BY <1>1, <2>3, <2>5, <3>1, PiConstants DEF PiPlaces
  <2>8. PiPlaces'
    BY <1>1, <1>2, <2>4, <2>5, <2>6, <2>7 DEF PiPlaces
  <2>9. SwitchSettled'
    BY <1>1, <2>4 DEF SwitchSettled
  <2> QED
    BY <2>2, <2>8, <2>9 DEF PiInv
<1>5. CASE /\ low_at = "create_high" /\ low_at' = "create_medium"
           /\ os_kernel_task_create(High, OS_TASK_HIGH) /\ UNCHANGED mutexVars
  <2>1. Together' /\ HighWaits' = HighWaits /\ PiOwner' = PiOwner
    BY <1>1, <1>2, <1>5 DEF PiPlaces, Together, HighWaits, PiOwner
  <2>2. \A u \in Task : PiCreated(u)' <=> PiCreated(u) \/ u = High
    BY <1>5, PiConstants DEF PiCreated
  <2>3. OS_TASK_HIGH \in Priority
    BY PiConstants
  <2> QED
    BY <1>2, <1>5, <2>1, <2>2, <2>3, PiCreateInv, PiConstants
<1>6. CASE /\ low_at = "create_medium" /\ low_at' = "unlock"
           /\ os_kernel_task_create(Medium, OS_TASK_MEDIUM) /\ UNCHANGED mutexVars
  <2>1. InTask
    BY <1>3, <1>6 DEF os_kernel_task_create, os_task_create_internal
  <2>2. high_at = "acquired"
    <3> SUFFICES ASSUME high_at # "acquired"
                 PROVE  FALSE
      OBVIOUS
    <3>1. Created(High) /\ Created(Low) /\ Ready(High) /\ ~ HighWaits
      BY <1>1, <1>6, PiBlocked, PiConstants DEF PiPlaces, PiCreated, HighWaits
    <3>2. priority[Low] = 2 /\ priority[High] = 0
      BY <1>1, <3>1, PiPriorities
    <3> QED
      BY <1>2, <2>1, <3>1, <3>2, PiCaller, PiConstants
  <2>3. Together' /\ HighWaits' = HighWaits /\ PiOwner' = PiOwner
    BY <1>1, <1>2, <1>6, <2>2 DEF PiPlaces, Together, HighWaits, PiOwner
  <2>4. \A u \in Task : PiCreated(u)' <=> PiCreated(u) \/ u = Medium
    BY <1>6, PiConstants DEF PiCreated
  <2>5. OS_TASK_MEDIUM \in Priority
    BY PiConstants
  <2> QED
    BY <1>2, <1>6, <2>3, <2>4, <2>5, PiCreateInv, PiConstants
<1>7. CASE low_at = "unlock" /\ low_at' = "done" /\ os_kernel_mutex_unlock(g_pi_mutex)
  <2>1. High \in Range(waiters[g_pi_mutex]) /\ high_at = "acquired"
    BY <1>1, <1>7, PiConstants DEF PiPlaces, Together, HighWaits
  <2>2. waiters[g_pi_mutex] # << >> /\ waiters[g_pi_mutex] \in Seq(Task)
    <3>1. waiters[g_pi_mutex] \in Seq(Task)
      BY <1>1, OneMutexFacts, PiConstants
    <3> QED
      BY <2>1, <3>1 DEF Range
  <2>3. Head(waiters[g_pi_mutex]) = High
    <3>1. Head(waiters[g_pi_mutex]) \in Range(waiters[g_pi_mutex])
      BY <2>2 DEF Range
    <3> QED
      BY <1>1, <3>1, PiConstants DEF PiPlaces
  <2>4. OneMutexInv' /\ pc' # "hung"
    BY <1>1, <1>7, OneUnlock, PiConstants
  <2>5. /\ base_priority' = base_priority
        /\ owner' = [owner EXCEPT ![g_pi_mutex] = High]
        /\ state' = [state EXCEPT ![High] = "READY"]
    BY <1>1, <1>7, <2>2, <2>3, <2>4, UnlockEffect, PiConstants DEF OneMutexInv, NextOwner
  <2>6. /\ pendsv' = (pendsv \/ g_next' # g_current)
        /\ UNCHANGED <<g_current, pc>>
    BY <1>7, <2>2, <2>4 DEF os_kernel_mutex_unlock, os_task_wake_one_locked, ScheduleAndPend, switchVars
  <2>7. Together' /\ ~ HighWaits' /\ PiOwner' = High
    BY <1>2, <1>7, <2>1 DEF Together, HighWaits, PiOwner
  <2>8. ASSUME NEW t \in Task
        PROVE  (Created(t)' <=> PiCreated(t)') /\ (PiCreated(t)' => PiBase(t)') /\ ~ Blocked(t)'
    <3>1. state \in [Task -> {"none", "READY", "RUNNING", "BLOCKED"}]
      BY <1>1, OneMutexFacts
    <3>2. PiCreated(t)' <=> PiCreated(t)
      BY <1>7 DEF PiCreated
    <3>3. PiCreated(High)
      BY <1>7 DEF PiCreated
    <3>4. Created(t)' <=> Created(t)
      BY <1>1, <2>5, <3>1, <3>3, PiConstants DEF Created, PiPlaces
    <3>5. PiBase(t)' <=> PiBase(t)
      BY <2>5 DEF PiBase
    <3>6. ~ Blocked(t)'
      <4>1. Blocked(t) => t = High
        BY <1>1, PiBlocked
      <4> QED
        BY <2>5, <3>1, <4>1, PiConstants DEF Blocked
    <3> QED
      BY <1>1, <3>2, <3>4, <3>5, <3>6 DEF PiPlaces
  <2>9. \A q \in WaitQueue : \A t : t \notin Range(waiters'[q])
    <3>1. \A q \in WaitQueue : Range(waiters'[q]) = {t \in Task : Blocked(t)' /\ wait_queue'[t] = q}
      BY <2>4 DEF OneMutexInv, MutexInv, SchedInv, QueueDiscipline
    <3> QED
      BY <2>8, <3>1
  <2>10. \A m \in Mutex : owner'[m] = IF m = g_pi_mutex THEN PiOwner' ELSE NULL
    <3>1. owner \in [Mutex -> TaskOrNull]
      BY <1>1, OneMutexFacts
    <3> QED
      BY <1>1, <2>5, <2>7, <3>1, PiConstants DEF PiPlaces
  <2>11. g_pi_high_acquired' => high_at' \in {"unlock", "done"}
    BY <1>1, <1>2 DEF PiPlaces
  <2>12. PiPlaces'
    BY <2>7, <2>8, <2>9, <2>10, <2>11 DEF PiPlaces
  <2>13. pc = "thread"
    BY <1>7 DEF os_kernel_mutex_unlock, InTask
  <2>14. SwitchSettled'
    BY <2>6, <2>13 DEF SwitchSettled
  <2> QED
    BY <2>4, <2>12, <2>14 DEF PiInv
<1> QED
  BY <1>4, <1>5, <1>6, <1>7 DEF pi_low_task, LowRuns

(***************************************************************************)
(* The steps of pi_high_task.  It finds the mutex locked, and sets its     *)
(* flag only after Low has handed the mutex over.                          *)
(***************************************************************************)
LEMMA PiHighInv == PiInv /\ pi_high_task => PiInv'
<1> SUFFICES ASSUME PiInv, pi_high_task
             PROVE  PiInv'
  OBVIOUS
<1>1. OneMutexInv /\ PiPlaces /\ SwitchSettled
  BY DEF PiInv
<1>2. InTask /\ g_current = High /\ low_at' = low_at
  BY DEF pi_high_task, HighRuns, os_kernel_mutex_lock_contended, os_kernel_mutex_unlock
<1>3. Ready(High) /\ Created(High) /\ PiCreated(High) /\ ~ HighWaits /\ pc = "thread"
  BY <1>1, <1>2, PiCaller, PiBlocked, PiConstants DEF PiPlaces, Ready, Blocked
<1>4. \A t \in Task : PiCreated(t)' <=> PiCreated(t)
  BY <1>2 DEF PiCreated
<1>5. /\ state \in [Task -> {"none", "READY", "RUNNING", "BLOCKED"}]
      /\ owner \in [Mutex -> TaskOrNull]
  BY <1>1, OneMutexFacts
<1>6. CASE /\ high_at = "lock" /\ high_at' = "acquired" /\ UNCHANGED g_pi_high_acquired
           /\ os_kernel_mutex_lock_contended(g_pi_mutex)
  <2>1. low_at = "create_medium" /\ PiOwner = Low
    BY <1>1, <1>3, <1>6, PiConstants DEF PiPlaces, Together, PiCreated, PiOwner
  <2>2. \A k \in Mutex : owner[k] # g_current
    BY <1>1, <1>2, <2>1, PiConstants DEF PiPlaces
  <2>3. OneMutexInv'
    BY <1>1, <1>6, <2>2, OneContended, PiConstants
  <2>4. /\ owner' = owner /\ base_priority' = base_priority
        /\ state' = [state EXCEPT ![High] = "BLOCKED"]
        /\ Range(waiters'[g_pi_mutex]) = Range(waiters[g_pi_mutex]) \cup {High}
        /\ \A q \in WaitQueue \ {g_pi_mutex} : Range(waiters'[q]) = Range(waiters[q])
    BY <1>1, <1>2, <1>6, ContendedEffect, PiConstants DEF OneMutexInv
  <2>5. pendsv' = (pendsv \/ g_next' # g_current) /\ UNCHANGED <<g_current, pc>>
    BY <1>6 DEF os_kernel_mutex_lock_contended, os_task_block_locked, ScheduleAndPend, switchVars
  <2>6. Together' /\ HighWaits' /\ PiOwner' = PiOwner
    BY <1>2, <1>6, <2>1 DEF Together, HighWaits, PiOwner
  <2>7. ASSUME NEW t \in Task
        PROVE  (Created(t)' <=> PiCreated(t)') /\ (PiCreated(t)' => PiBase(t)')
    <3>1. Created(t)' <=> Created(t)
      BY <1>3, <1>5, <2>4, PiConstants DEF Created
    <3>2. PiBase(t)' <=> PiBase(t)
      BY <2>4 DEF PiBase
    <3> QED
      BY <1>1, <1>4, <3>1, <3>2 DEF PiPlaces
  <2>8. \A q \in WaitQueue : \A t :
          t \in Range(waiters'[q]) <=> q = g_pi_mutex /\ t = High /\ HighWaits'
    BY <1>1, <1>3, <2>4, <2>6 DEF PiPlaces
  <2>9. \A m \in Mutex : owner'[m] = IF m = g_pi_mutex THEN PiOwner' ELSE NULL
    BY <1>1, <2>4, <2>6 DEF PiPlaces
  <2>10. g_pi_high_acquired' => high_at' \in {"unlock", "done"}
    BY <1>1, <1>6 DEF PiPlaces
  <2>11. PiPlaces'
    BY <2>6, <2>7, <2>8, <2>9, <2>10 DEF PiPlaces
  <2>12. SwitchSettled'
    BY <1>3, <2>5 DEF SwitchSettled
  <2> QED
    BY <2>3, <2>11, <2>12 DEF PiInv
<1>7. CASE /\ high_at = "acquired" /\ high_at' = "unlock"
           /\ g_pi_high_acquired' = TRUE /\ UNCHANGED mutexSysVars
  <2>1. low_at = "done"
    BY <1>3, <1>7 DEF HighWaits
  <2>2. UNCHANGED <<schedVars, mutexVars>>
    BY <1>7 DEF mutexSysVars
  <2>3. OneMutexInv'
    BY <1>1, <2>2, OneSched
  <2>4. UNCHANGED <<state, base_priority, waiters, owner, g_current, g_next, pc, pendsv, r_next>>
    BY <2>2 DEF schedVars, tcbVars, queueVars, switchVars, mutexVars
  <2>5. Together' /\ HighWaits' = HighWaits /\ PiOwner' = PiOwner
    BY <1>2, <1>7, <2>1 DEF Together, HighWaits, PiOwner
  <2>6. \A t \in Task : (Created(t)' <=> PiCreated(t)') /\ (PiCreated(t)' => PiBase(t)')
    BY <1>1, <1>4, <2>4 DEF PiPlaces, Created, PiBase
  <2>7. g_pi_high_acquired' => high_at' \in {"unlock", "done"}
    BY <1>7
  <2>8. PiPlaces'
    BY <1>1, <2>4, <2>5, <2>6, <2>7 DEF PiPlaces
  <2>9. SwitchSettled'
    BY <1>1, <2>4 DEF SwitchSettled
  <2> QED
    BY <2>3, <2>8, <2>9 DEF PiInv
<1>8. CASE /\ high_at = "unlock" /\ high_at' = "done" /\ UNCHANGED g_pi_high_acquired
           /\ os_kernel_mutex_unlock(g_pi_mutex)
  <2>1. low_at = "done" /\ waiters[g_pi_mutex] = << >>
    <3>1. waiters[g_pi_mutex] \in Seq(Task)
      BY <1>1, OneMutexFacts, PiConstants
    <3>2. \A t : t \notin Range(waiters[g_pi_mutex])
      BY <1>1, <1>3, PiConstants DEF PiPlaces
    <3>3. waiters[g_pi_mutex] = << >>
      <4> SUFFICES ASSUME waiters[g_pi_mutex] # << >>
                   PROVE  FALSE
        OBVIOUS
      <4>1. Head(waiters[g_pi_mutex]) \in Range(waiters[g_pi_mutex])
        BY <3>1 DEF Range
      <4> QED
        BY <3>2, <4>1
    <3> QED
      BY <1>1, <1>8, <3>3 DEF PiPlaces, Together
  <2>2. OneMutexInv' /\ pc' # "hung"
    BY <1>1, <1>8, OneUnlock, PiConstants
  <2>3. /\ base_priority' = base_priority /\ owner' = [owner EXCEPT ![g_pi_mutex] = NULL]
        /\ UNCHANGED <<state, waiters, g_next>>
    BY <1>1, <1>8, <2>1, <2>2, UnlockEffect, PiConstants DEF OneMutexInv, NextOwner
  <2>4. UNCHANGED <<pendsv, g_current, pc, r_next>>
    BY <1>8, <2>1, <2>2 DEF os_kernel_mutex_unlock, switchVars
  <2>5. Together' /\ HighWaits' = HighWaits /\ PiOwner' = NULL
    BY <1>2, <1>8, <2>1 DEF Together, HighWaits, PiOwner
  <2>6. \A t \in Task : (Created(t)' <=> PiCreated(t)') /\ (PiCreated(t)' => PiBase(t)')
    BY <1>1, <1>4, <2>3 DEF PiPlaces, Created, PiBase
  <2>7. \A m \in Mutex : owner'[m] = IF m = g_pi_mutex THEN PiOwner' ELSE NULL
    BY <1>1, <1>5, <2>3, <2>5, PiConstants DEF PiPlaces
  <2>8. g_pi_high_acquired' => high_at' \in {"unlock", "done"}
    BY <1>1, <1>8 DEF PiPlaces
  <2>9. PiPlaces'
    BY <1>1, <2>3, <2>5, <2>6, <2>7, <2>8 DEF PiPlaces
  <2>10. SwitchSettled'
    BY <1>1, <2>3, <2>4 DEF SwitchSettled
  <2> QED
    BY <2>2, <2>9, <2>10 DEF PiInv
<1> QED
  BY <1>6, <1>7, <1>8 DEF pi_high_task, HighRuns

-----------------------------------------------------------------------------
(* Results *)

(***************************************************************************)
(* Before os_app_main only the idle task exists, and the mutex is free.    *)
(***************************************************************************)
LEMMA PiInitInv == PiInit => PiInv
<1> SUFFICES ASSUME PiInit
             PROVE  PiInv
  OBVIOUS
<1>1. /\ SchedInit /\ MutexInit /\ low_at = "created" /\ high_at = "lock"
      /\ g_pi_high_acquired = FALSE
  BY DEF PiInit, MutexSysInit
<1>2. OneMutexInv
  BY <1>1, OneMutexInit
<1>3. Together /\ ~ HighWaits /\ PiOwner = NULL
  BY <1>1 DEF Together, HighWaits, PiOwner
<1>4. \A t \in Task : (Created(t) <=> PiCreated(t)) /\ (PiCreated(t) => PiBase(t))
  BY <1>1, PiConstants DEF SchedInit, Created, PiCreated, PiBase
<1>5. \A q \in WaitQueue : \A t : t \notin Range(waiters[q])
  BY <1>1 DEF SchedInit, Range
<1>6. \A m \in Mutex : owner[m] = NULL
  BY <1>1 DEF MutexInit
<1>7. PiPlaces
  BY <1>1, <1>3, <1>4, <1>5, <1>6 DEF PiPlaces
<1>8. SwitchSettled
  BY <1>1 DEF SchedInit, SwitchSettled
<1> QED
  BY <1>2, <1>7, <1>8 DEF PiInv

(***************************************************************************)
(* Every step of the scenario keeps the invariant.                         *)
(***************************************************************************)
LEMMA PiStepInv == PiInv /\ [PiNext]_piVars => PiInv'
<1> SUFFICES ASSUME PiInv, [PiNext]_piVars
             PROVE  PiInv'
  OBVIOUS
<1>1. CASE os_app_main
  BY <1>1, PiMainInv
<1>2. CASE BootEnds \/ PiExceptions
  BY <1>2, PiExceptionInv DEF BootEnds, PiExceptions, piPlaces
<1>3. CASE pi_low_task
  BY <1>3, PiLowInv
<1>4. CASE pi_high_task
  BY <1>4, PiHighInv
<1>5. CASE UNCHANGED piVars
  <2>1. UNCHANGED <<schedVars, mutexVars, low_at, high_at, g_pi_high_acquired>>
    BY <1>5 DEF piVars, mutexSysVars
  <2>2. UNCHANGED <<state, base_priority, waiters, owner, g_current, g_next, pc, pendsv, r_next>>
    BY <2>1 DEF schedVars, tcbVars, queueVars, switchVars, mutexVars
  <2>3. OneMutexInv'
    BY <2>1, OneSched DEF PiInv
  <2>4. PiPlaces'
    BY <2>1, <2>2, PlacesKept DEF PiInv, Created, piPlaces
  <2>5. SwitchSettled'
    BY <2>2 DEF PiInv, SwitchSettled
  <2> QED
    BY <2>3, <2>4, <2>5 DEF PiInv
<1> QED
  BY <1>1, <1>2, <1>3, <1>4, <1>5 DEF PiNext

(***************************************************************************)
(* The invariant of the scenario: where Low and High are, who exists, who  *)
(* owns the mutex and who waits for it, and that a context switch that has *)
(* been decided is carried out.                                            *)
(***************************************************************************)
THEOREM PiInvariant == PiSpec => []PiInv
  BY PiInitInv, PiStepInv, PTL DEF PiSpec

(***************************************************************************)
(* pi_test.c shows what it is meant to: Medium executes nothing while Low  *)
(* is in its critical section, and Low loses the inherited priority before *)
(* High sets its flag.                                                     *)
(***************************************************************************)
THEOREM MediumWaitsForLowHolds == PiSpec => []MediumWaitsForLow
<1>1. PiInv => MediumWaitsForLow
  <2> SUFFICES ASSUME PiInv
               PROVE  MediumWaitsForLow
    OBVIOUS
  <2>1. OneMutexInv /\ PiPlaces /\ SwitchSettled
    BY DEF PiInv
  <2>2. ASSUME owner[g_pi_mutex] = Low, pc = "thread", ~ pendsv, g_current = Medium
        PROVE  FALSE
    <3>1. g_next = Medium /\ Ready(Medium) /\ Created(Medium)
      BY <2>1, <2>2, ChoiceUnique, PiBlocked, PiConstants DEF SwitchSettled, PiPlaces
    <3>2. low_at = "unlock"
      BY <2>1, <2>2, <3>1, PiConstants DEF PiPlaces, PiCreated, PiOwner
    <3>3. Created(Low) /\ Ready(Low) /\ HighWaits
      BY <2>1, <3>2, PiBlocked, PiConstants DEF PiPlaces, PiCreated, HighWaits, Together
    <3>4. priority[Low] = 0 /\ priority[Medium] = 1
      BY <2>1, <3>1, <3>3, PiPriorities
    <3> QED
      BY <2>1, <3>1, <3>3, <3>4, ChoiceUnique, PiConstants
  <2>3. ASSUME g_pi_high_acquired
        PROVE  priority[Low] = OS_TASK_LOW
    <3>1. low_at = "done" /\ ~ HighWaits
      BY <2>1, <2>3 DEF PiPlaces, Together, HighWaits
    <3>2. Created(Low)
      BY <2>1, <3>1, PiConstants DEF PiPlaces, PiCreated
    <3> QED
      BY <2>1, <3>1, <3>2, PiPriorities, PiConstants
  <2> QED
    BY <2>2, <2>3 DEF MediumWaitsForLow
<1> QED
  BY <1>1, PiInvariant, PTL

(***************************************************************************)
(* The scenario only does what tasks can do with mutexes: every step is    *)
(* one of the kernel's or of a task for itself.                            *)
(***************************************************************************)
THEOREM PiImplementsMutex == PiSpec => MutexSpec
<1>1. PiInit => MutexSysInit
  BY DEF PiInit
<1>2. [PiNext]_piVars => [MutexSysNext]_mutexSysVars
  <2> SUFFICES ASSUME [PiNext]_piVars
               PROVE  MutexSysNext \/ UNCHANGED mutexSysVars
    OBVIOUS
  <2>1. {OS_TASK_LOW, OS_TASK_MEDIUM, OS_TASK_HIGH} \subseteq Priority
    BY PiConstants
  <2>2. CASE os_app_main
    BY <2>1, <2>2, PiConstants DEF os_app_main, MutexSysNext, SchedNext
  <2>3. CASE BootEnds \/ PiExceptions
    BY <2>3 DEF BootEnds, PiExceptions, MutexSysNext, SchedNext, RunStep
  <2>4. CASE pi_low_task
    BY <2>1, <2>4, PiConstants DEF pi_low_task, MutexSysNext, SchedNext, MutexStep
  <2>5. CASE pi_high_task
    BY <2>5, PiConstants DEF pi_high_task, MutexSysNext, MutexStep
  <2>6. CASE UNCHANGED piVars
    BY <2>6 DEF piVars
  <2> QED
    BY <2>2, <2>3, <2>4, <2>5, <2>6 DEF PiNext
<1> QED
  BY <1>1, <1>2, PTL DEF PiSpec, MutexSpec
=============================================================================
