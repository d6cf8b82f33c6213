------------------------------ MODULE Scheduler ------------------------------
(***************************************************************************)
(* The scheduling core: kernel/scheduler.c, kernel/task.c, kernel/tick.c   *)
(* and the PendSV handler of arch/arm_cm/port.c.                           *)
(*                                                                         *)
(* Granularity.  SVC and SysTick have the same exception priority and      *)
(* never preempt one another, so a system call and a tick are one action   *)
(* each.  PendSV has the lowest priority: a tick may arrive between any    *)
(* two of its instructions, and the context switch is therefore five       *)
(* actions (save, demote, load g_next, store g_current, restore), cut      *)
(* where it reads or writes what SysTick_Handler writes or reads.  The     *)
(* build is -O0: each use of g_next in os_commit_switch is a load of its   *)
(* own.                                                                    *)
(***************************************************************************)
EXTENDS TaskQueue

CONSTANTS
    Task,            \* the TCBs the kernel object pool can hold
    Idle,            \* the one os_boot_main creates
    NULL,
    NUM_PRIORITIES,
    WaitQueue,       \* the os_task_queue_t a task can block on
    g_sleep_queue,   \* the one of tick.c
    HALF,            \* 2^31: half the range of a tick counter
    Delays           \* arguments tasks pass to os_delay_ticks

ASSUME SchedulerAssumption ==
    /\ Idle \in Task /\ IsFiniteSet(Task)
    /\ NULL \notin Task /\ NULL \notin WaitQueue
    /\ NUM_PRIORITIES \in Nat \ {0}
    /\ g_sleep_queue \in WaitQueue
    /\ HALF \in Nat \ {0}
    /\ Delays \subseteq 0 .. 2 * HALF - 1

TICKS == 2 * HALF                \* tick arithmetic is modulo 2^32
OS_WAIT_FOREVER == TICKS - 1     \* UINT32_MAX
OS_TASK_IDLE == NUM_PRIORITIES - 1
Priority == 0 .. OS_TASK_IDLE
Tick == 0 .. TICKS - 1
TaskOrNull == Task \cup {NULL}

VARIABLES
    state,            \* "none" before os_task_create, then os_task_state_t
    priority, base_priority,
    wait_queue,       \* the queue a blocked task is in
    wake_tick,
    sp,               \* the task whose stack the saved stack pointer points into
    g_priorities,     \* ready queues
    waiters,          \* wait queues
    g_timeout_queue,
    g_current, g_next,
    g_tick,
    g_first_switch,
    pendsv,           \* PendSV is pending
    psp,              \* the task whose stack PSP points into
    pc,               \* what the processor executes (below SVC and SysTick)
    r_next            \* os_commit_switch's register copy of g_next

tcbVars == <<state, priority, base_priority, wait_queue, wake_tick>>
queueVars == <<g_priorities, waiters, g_timeout_queue>>
switchVars == <<sp, g_current, g_first_switch, psp, pc, r_next>>
schedVars == <<tcbVars, queueVars, switchVars, g_next, g_tick, pendsv>>

SchedTypeOK ==
    /\ state \in [Task -> {"none", "READY", "RUNNING", "BLOCKED"}]
    /\ priority \in [Task -> Priority]
    /\ base_priority \in [Task -> Priority]
    /\ wait_queue \in [Task -> WaitQueue \cup {NULL}]
    /\ wake_tick \in [Task -> Tick]
    /\ sp \in [Task -> TaskOrNull]
    /\ g_priorities \in [Priority -> Seq(Task)]
    /\ waiters \in [WaitQueue -> Seq(Task)]
    /\ g_timeout_queue \in Seq(Task)
    /\ g_current \in TaskOrNull
    /\ g_next \in TaskOrNull
    /\ g_tick \in Tick
    /\ g_first_switch \in BOOLEAN
    /\ pendsv \in BOOLEAN
    /\ psp \in TaskOrNull
    /\ pc \in {"boot", "thread", "commit", "load", "store", "restore", "hung"}
    /\ r_next \in TaskOrNull

Created(t) == state[t] # "none"
Blocked(t) == state[t] = "BLOCKED"

-----------------------------------------------------------------------------
(* scheduler.c *)

(***************************************************************************)
(* The head of the most urgent ready queue that has one, NULL if none has. *)
(***************************************************************************)
\* Mutant: the scan starts at priority 1.
os_schedule_from_1(rd) ==
    LET heads == {Head(rd[p]) : p \in {x \in Priority \ {0} :
                    rd[x] # << >> /\ \A y \in Priority \ {0} : y < x => rd[y] = << >>}}
    IN  IF heads = {} THEN NULL ELSE CHOOSE t \in heads : TRUE

os_schedule(rd) ==
    LET heads == {Head(rd[p]) : p \in {x \in Priority :
                    rd[x] # << >> /\ \A y \in Priority : y < x => rd[y] = << >>}}
    IN  IF heads = {} THEN NULL ELSE CHOOSE t \in heads : TRUE

(***************************************************************************)
(* uint32_t arithmetic on ticks: g_tick++ of the tick and os_tick_get() +  *)
(* timeout_ticks of a task that blocks, and the signed comparison          *)
(* (int32_t)(now - wake_tick) >= 0.                                        *)
(***************************************************************************)
\* Mutant: a counter that does not wrap.
TickPlus_nowrap(n) == g_tick + n

TickPlus(n) == (g_tick + n) % TICKS

\* Mutants: the comparison without the cast, strict or not; one tick late.
os_tick_reached_unsigned(now, wake) == now >= wake
os_tick_reached_strict(now, wake) == now > wake
os_tick_reached_late(now, wake) == (now - wake) % TICKS \in 1 .. HALF - 1

os_tick_reached(now, wake) == (now - wake) % TICKS < HALF

(***************************************************************************)
(* In front of the first task whose wake tick is not before t's.           *)
(***************************************************************************)
os_timeout_queue_insert_sorted(s, t, wake) ==
    InsertAfter(s, Prefix(s, LAMBDA u : ~ os_tick_reached(wake[u], wake[t])), t)

(***************************************************************************)
(* The end of every handler that may have made another task the most       *)
(* urgent one: os_schedule on the new ready queues, and PendSV if the      *)
(* choice is not the current task.                                         *)
(***************************************************************************)
\* Mutants: PendSV is not made pending; g_next is not chosen anew.
ScheduleAndPend_nopend(rd) ==
    /\ g_priorities' = rd
    /\ g_next' = os_schedule(rd)
    /\ UNCHANGED pendsv

ScheduleAndPend_stale(rd) ==
    /\ g_priorities' = rd
    /\ g_next' = g_next
    /\ pendsv' = (pendsv \/ os_schedule(rd) # g_current)

ScheduleAndPend(rd) ==
    /\ g_priorities' = rd
    /\ g_next' = os_schedule(rd)
    /\ pendsv' = (pendsv \/ os_schedule(rd) # g_current)

(***************************************************************************)
(* The current task leaves its ready queue for the wait queue q.  rd, wt   *)
(* and prio are the queues and priorities the caller has computed so far.  *)
(***************************************************************************)
os_task_block_locked(q, ticks, priority_ordered, rd, wt, prio) ==
    LET t == g_current
        timed == ticks # OS_WAIT_FOREVER
        wake == [wake_tick EXCEPT ![t] =
                    IF timed THEN TickPlus(ticks) ELSE OS_WAIT_FOREVER]
    IN  /\ state' = [state EXCEPT ![t] = "BLOCKED"]
        /\ wait_queue' = [wait_queue EXCEPT ![t] = q]
        /\ wake_tick' = wake
        /\ waiters' = [wt EXCEPT ![q] =
                IF priority_ordered
                  THEN os_task_queue_insert_by_priority(@, t, prio)
                  ELSE os_task_queue_add(@, t)]
        /\ g_timeout_queue' =
                IF timed THEN os_timeout_queue_insert_sorted(g_timeout_queue, t, wake)
                         ELSE g_timeout_queue
        /\ ScheduleAndPend([rd EXCEPT ![prio[t]] = os_task_queue_remove(@, t)])

(***************************************************************************)
(* The head of the non-empty wait queue q becomes ready; with the          *)
(* rescheduling that both callers, sem_give and mutex_unlock, go on with.  *)
(***************************************************************************)
os_task_wake_one_locked(q, rd, prio) ==
    LET t == Head(waiters[q])
    IN  /\ waiters' = [waiters EXCEPT ![q] = Tail(@)]
        /\ g_timeout_queue' =
                IF wake_tick[t] # OS_WAIT_FOREVER
                  THEN os_timeout_queue_remove(g_timeout_queue, t)
                  ELSE g_timeout_queue
        /\ state' = [state EXCEPT ![t] = "READY"]
        /\ wait_queue' = [wait_queue EXCEPT ![t] = NULL]
        /\ wake_tick' = [wake_tick EXCEPT ![t] = OS_WAIT_FOREVER]
        /\ ScheduleAndPend([rd EXCEPT ![prio[t]] = os_task_queue_add(@, t)])

(***************************************************************************)
(* os_task_set_priority on the ready queues rd (a task moves to the back   *)
(* of the queue of its new priority p, also when that is its old one) and  *)
(* on the wait queues wt (a blocked task is re-inserted by priority).      *)
(***************************************************************************)
\* Mutant: the TCB's priority changes, its queue does not.
SetPriorityReady_stay(rd, t, p) == rd

SetPriorityReady(rd, t, p) ==
    IF state[t] \in {"READY", "RUNNING"}
      THEN LET removed == [rd EXCEPT ![priority[t]] = os_task_queue_remove(@, t)]
           IN  [removed EXCEPT ![p] = os_task_queue_add(@, t)]
      ELSE rd

\* Mutant: re-inserted without being unlinked.
SetPriorityWaiting_relink(wt, t, prio) ==
    IF Blocked(t) /\ wait_queue[t] # NULL
      THEN [wt EXCEPT ![wait_queue[t]] = os_task_queue_insert_by_priority(@, t, prio)]
      ELSE wt

SetPriorityWaiting(wt, t, prio) ==
    IF Blocked(t) /\ wait_queue[t] # NULL
      THEN [wt EXCEPT ![wait_queue[t]] =
              os_task_queue_insert_by_priority(os_task_queue_remove(@, t), t, prio)]
      ELSE wt

-----------------------------------------------------------------------------
(* Boot, and the system calls of task.c and tick.c *)

(***************************************************************************)
(* main.c: os_boot_main has created the idle task; nothing runs yet.       *)
(***************************************************************************)
SchedInit ==
    /\ state = [t \in Task |-> IF t = Idle THEN "READY" ELSE "none"]
    /\ priority = [t \in Task |-> OS_TASK_IDLE]
    /\ base_priority = [t \in Task |-> OS_TASK_IDLE]
    /\ wait_queue = [t \in Task |-> NULL]
    /\ wake_tick = [t \in Task |-> 0]
    /\ sp = [t \in Task |-> IF t = Idle THEN Idle ELSE NULL]
    /\ g_priorities = [p \in Priority |-> IF p = OS_TASK_IDLE THEN <<Idle>> ELSE << >>]
    /\ waiters = [q \in WaitQueue |-> << >>]
    /\ g_timeout_queue = << >>
    /\ g_current = NULL
    /\ g_next = Idle
    /\ g_tick = 0
    /\ g_first_switch = FALSE
    /\ pendsv = FALSE
    /\ psp = NULL
    /\ pc = "boot"
    /\ r_next = NULL

(***************************************************************************)
(* A task executes an SVC: PendSV, if pending, has been taken before.  The *)
(* idle task makes no system call.                                         *)
(***************************************************************************)
InTask == pc = "thread" /\ ~ pendsv /\ g_current # Idle

(***************************************************************************)
(* The end of os_kernel_task_create, once it has memory for the TCB t: the *)
(* fields of os_task_create_internal, the ready queue, the scheduler.      *)
(***************************************************************************)
os_task_create_internal(t, p) ==
    /\ pc = "boot" \/ InTask
    /\ state' = [state EXCEPT ![t] = "READY"]
    /\ priority' = [priority EXCEPT ![t] = p]
    /\ base_priority' = [base_priority EXCEPT ![t] = p]
    /\ wait_queue' = [wait_queue EXCEPT ![t] = NULL]
    /\ wake_tick' = [wake_tick EXCEPT ![t] = 0]
    /\ sp' = [sp EXCEPT ![t] = t]
    /\ LET rd == [g_priorities EXCEPT ![p] = os_task_queue_add(@, t)]
       IN  /\ g_priorities' = rd
           /\ g_next' = os_schedule(rd)
           /\ pendsv' = (pendsv \/ (g_current # NULL /\ os_schedule(rd) # g_current))
    /\ UNCHANGED <<waiters, g_timeout_queue, g_current, g_tick, g_first_switch, psp, pc, r_next>>

(***************************************************************************)
(* The memory is that of a TCB not in use.  Module Kalloc has the pools it *)
(* comes from and shows that it is.                                        *)
(***************************************************************************)
os_kernel_task_create(t, p) == ~ Created(t) /\ os_task_create_internal(t, p)

(***************************************************************************)
(* PSP gets the first task's stack pointer; the PendSV that follows        *)
(* restores that context without saving one.                               *)
(***************************************************************************)
os_start ==
    /\ pc = "boot"
    /\ g_first_switch' = TRUE
    /\ g_next' = os_schedule(g_priorities)
    /\ g_current' = os_schedule(g_priorities)
    /\ g_current' # NULL
    /\ psp' = sp[g_current']
    /\ pendsv' = TRUE
    /\ pc' = "thread"
    /\ UNCHANGED <<tcbVars, queueVars, sp, r_next, g_tick>>

RotateCurrent(rd) ==
    [rd EXCEPT ![priority[g_current]] = os_ready_queue_rotate(@, g_current)]

os_kernel_yield ==
    /\ InTask
    /\ g_priorities' = RotateCurrent(g_priorities)
    /\ g_next' = os_schedule(RotateCurrent(g_priorities))
    /\ pendsv' = TRUE
    /\ UNCHANGED <<tcbVars, waiters, g_timeout_queue, switchVars, g_tick>>

os_kernel_delay_ticks(ticks) ==
    \/ ticks = 0 /\ os_kernel_yield
    \/ /\ ticks # 0
       /\ InTask
       /\ os_task_block_locked(g_sleep_queue, ticks, FALSE, g_priorities, waiters, priority)
       /\ UNCHANGED <<priority, base_priority, switchVars, g_tick>>

-----------------------------------------------------------------------------
(* Exception handlers *)

(***************************************************************************)
(* The positions of the timeout queue that os_process_timeouts walks over. *)
(***************************************************************************)
TimedOut(now) ==
    Prefix(g_timeout_queue, LAMBDA t : os_tick_reached(now, wake_tick[t]))

(***************************************************************************)
(* The tick: the prefix of the timeout queue that is due is woken, in      *)
(* order; the current task goes to the back of its ready queue.  It may    *)
(* arrive in thread mode and anywhere inside PendSV.                       *)
(***************************************************************************)
SysTick_Handler ==
    /\ pc \notin {"boot", "hung"}
    /\ LET now == TickPlus(1)
           due == TimedOut(now)
           woken == {g_timeout_queue[i] : i \in due}
           rd == [p \in Priority |-> g_priorities[p] \o
                    Pick(g_timeout_queue, {i \in due : priority[g_timeout_queue[i]] = p})]
       IN  /\ g_tick' = now
           /\ g_timeout_queue' = Pick(g_timeout_queue, DOMAIN g_timeout_queue \ due)
           /\ waiters' = [q \in WaitQueue |->
                Pick(waiters[q], {i \in DOMAIN waiters[q] : waiters[q][i] \notin woken})]
           /\ wait_queue' = [t \in Task |-> IF t \in woken THEN NULL ELSE wait_queue[t]]
           /\ wake_tick' = [t \in Task |-> IF t \in woken THEN OS_WAIT_FOREVER ELSE wake_tick[t]]
           /\ state' = [t \in Task |-> IF t \in woken THEN "READY" ELSE state[t]]
           /\ g_priorities' = RotateCurrent(rd)
           /\ g_next' = os_schedule(RotateCurrent(rd))
           /\ pendsv' = (pendsv \/ os_schedule(rd) # g_current
                                \/ os_schedule(RotateCurrent(rd)) # g_current)
    /\ UNCHANGED <<priority, base_priority, switchVars>>

(***************************************************************************)
(* PendSV_Handler up to the call of os_commit_switch.                      *)
(***************************************************************************)
PendSV_Save ==
    /\ pc = "thread" /\ pendsv
    /\ pendsv' = FALSE
    /\ pc' = "commit"
    /\ g_first_switch' = FALSE
    /\ sp' = IF g_first_switch THEN sp ELSE [sp EXCEPT ![g_current] = psp]
    /\ UNCHANGED <<tcbVars, queueVars, g_current, g_next, g_tick, psp, r_next>>

os_commit_switch_demote ==
    /\ pc = "commit"
    /\ pc' = IF g_next = NULL THEN "restore" ELSE "load"
    /\ state' = IF g_next \notin {NULL, g_current} /\ state[g_current] = "RUNNING"
                  THEN [state EXCEPT ![g_current] = "READY"] ELSE state
    /\ UNCHANGED <<priority, base_priority, wait_queue, wake_tick, queueVars, sp,
                   g_current, g_next, g_tick, g_first_switch, pendsv, psp, r_next>>

os_commit_switch_load ==
    /\ pc = "load"
    /\ pc' = "store"
    /\ r_next' = g_next
    /\ UNCHANGED <<tcbVars, queueVars, sp, g_current, g_next, g_tick, g_first_switch,
                   pendsv, psp>>

os_commit_switch_store ==
    /\ pc = "store"
    /\ pc' = "restore"
    /\ g_current' = r_next
    /\ state' = [state EXCEPT ![r_next] = "RUNNING"]
    /\ r_next' = NULL
    /\ UNCHANGED <<priority, base_priority, wait_queue, wake_tick, queueVars, sp,
                   g_next, g_tick, g_first_switch, pendsv, psp>>

\* Mutant: the context of g_next, which a tick may have changed again.
PendSV_Restore_next ==
    /\ pc = "restore"
    /\ pc' = "thread"
    /\ psp' = sp[g_next]
    /\ UNCHANGED <<tcbVars, queueVars, sp, g_current, g_next, g_tick, g_first_switch,
                   pendsv, r_next>>

PendSV_Restore ==
    /\ pc = "restore"
    /\ pc' = "thread"
    /\ psp' = sp[g_current]
    /\ UNCHANGED <<tcbVars, queueVars, sp, g_current, g_next, g_tick, g_first_switch,
                   pendsv, r_next>>

PendSV_Handler ==
    \/ PendSV_Save
    \/ os_commit_switch_demote
    \/ os_commit_switch_load
    \/ os_commit_switch_store
    \/ PendSV_Restore

\* Every step but the creation of a task.
RunStep ==
    \/ os_start
    \/ os_kernel_yield
    \/ \E ticks \in Delays : os_kernel_delay_ticks(ticks)
    \/ SysTick_Handler
    \/ PendSV_Handler

SchedNext ==
    \/ \E t \in Task, p \in Priority : os_kernel_task_create(t, p)
    \/ RunStep

SchedSpec == SchedInit /\ [][SchedNext]_schedVars

(***************************************************************************)
(* Fairness: boot ends, a pending PendSV is taken and runs to its end, and *)
(* the timer keeps ticking.  Tasks owe nothing.                            *)
(***************************************************************************)
SchedFairness ==
    /\ WF_schedVars(os_start)
    /\ WF_schedVars(PendSV_Handler)
    /\ WF_schedVars(SysTick_Handler)

SchedLiveSpec == SchedSpec /\ SchedFairness

-----------------------------------------------------------------------------
(* Properties *)

Ready(t) == state[t] \in {"READY", "RUNNING"}

(***************************************************************************)
(* Every created task is in exactly one queue, once: the ready queue of    *)
(* its priority, or the wait queue its TCB names; only blocked tasks have  *)
(* a timeout.  os_task_queue_remove trusts this (it does not look whether  *)
(* the TCB is in the queue), through ticks that land anywhere.             *)
(***************************************************************************)
QueueDiscipline ==
    /\ \A p \in Priority :
         /\ IsInjective(g_priorities[p])
         /\ Range(g_priorities[p]) = {t \in Task : Ready(t) /\ priority[t] = p}
    /\ \A q \in WaitQueue :
         /\ IsInjective(waiters[q])
         /\ Range(waiters[q]) = {t \in Task : Blocked(t) /\ wait_queue[t] = q}
    /\ \A t \in Task : Blocked(t) <=> wait_queue[t] # NULL
    /\ IsInjective(g_timeout_queue)
    /\ \A t \in Range(g_timeout_queue) : Blocked(t)

(***************************************************************************)
(* PendSV never mixes contexts: a TCB's saved stack pointer is into the    *)
(* task's own stack, and in thread mode the processor is on the stack of   *)
(* g_current, whatever the ticks did to g_next during the switch.          *)
(***************************************************************************)
ContextIntegrity ==
    /\ \A t \in Task : Created(t) => sp[t] = t
    /\ pc = "thread" => psp = g_current

(***************************************************************************)
(* The task that executes is one that os_commit_switch made RUNNING and    *)
(* that is in a ready queue: a blocked task executes nothing, although     *)
(* os_task_block_locked returns to its caller before the switch.           *)
(***************************************************************************)
OnlyReadyTasksRun ==
    pc = "thread" /\ ~ pendsv => g_current \in Task /\ state[g_current] = "RUNNING"

(***************************************************************************)
(* Whatever PendSV switches to can run: g_next, which ticks rewrite at any *)
(* moment, and the copy of it that os_commit_switch holds in a register    *)
(* name ready tasks (the idle task is always ready, and only the current   *)
(* task can block).  It keeps the two invariants above inductive.          *)
(***************************************************************************)
SwitchControl ==
    /\ Ready(Idle)
    /\ g_next \in Task /\ Ready(g_next)
    /\ pc # "hung"
    /\ pc = "boot" => g_current = NULL /\ ~ pendsv
    /\ pc # "boot" => g_current \in Task /\ Created(g_current)
    /\ pc = "store" => r_next \in Task /\ Ready(r_next)
    /\ pc = "restore" => state[g_current] = "RUNNING"

SchedInv ==
    SchedTypeOK /\ QueueDiscipline /\ ContextIntegrity /\ OnlyReadyTasksRun /\ SwitchControl

(***************************************************************************)
(* The timeout queue is sorted by the time left, and no wake tick in it is *)
(* past or too far ahead for the signed comparison of os_tick_reached,     *)
(* across the wrap of the counter.                                         *)
(***************************************************************************)
TicksLeft(t) == (wake_tick[t] - g_tick) % TICKS

TimeoutQueueSorted ==
    \A i, j \in DOMAIN g_timeout_queue :
        /\ TicksLeft(g_timeout_queue[i]) \in 1 .. HALF
        /\ i < j => TicksLeft(g_timeout_queue[i]) <= TicksLeft(g_timeout_queue[j])

(***************************************************************************)
(* A task leaves the timeout queue at the tick it asked for, neither early *)
(* nor late (task.h: wake_tick is the "tick count at which the task should *)
(* be woken up").                                                          *)
(***************************************************************************)
WakeOnTime ==
    [][\A t \in Range(g_timeout_queue) :
        (t \notin Range(g_timeout_queue')) <=> (g_tick' # g_tick /\ g_tick' = wake_tick[t])]_schedVars

(***************************************************************************)
(* README: "fixed priority preemptive scheduling": no ready task is more   *)
(* urgent than the one that executes.                                      *)
(***************************************************************************)
HighestPriorityRuns ==
    pc = "thread" /\ ~ pendsv =>
        \A t \in Task : Ready(t) => priority[g_current] <= priority[t]

(***************************************************************************)
(* What does hold of preemption: a task more urgent than all other ready   *)
(* ones becomes current, at the latest through the next tick.              *)
(***************************************************************************)
MostUrgent(t) ==
    /\ Ready(t)
    /\ \A u \in Task \ {t} : Ready(u) => priority[t] < priority[u]

PreemptionHappens ==
    \A t \in Task : MostUrgent(t) ~> (g_current = t \/ ~ MostUrgent(t))

(***************************************************************************)
(* Time slicing: a task that stays ready, with none more urgent, is given  *)
(* the processor again and again, whatever the others of its priority do.  *)
(***************************************************************************)
Unrivalled(t) == Ready(t) /\ \A u \in Task : Ready(u) => priority[t] <= priority[u]

TimeSlicing ==
    \A t \in Task : <>[] Unrivalled(t) => []<>(g_current = t)

(***************************************************************************)
(* A task that sleeps for a number of ticks becomes ready again.           *)
(***************************************************************************)
SleepersWake ==
    \A t \in Task : t \in Range(g_timeout_queue) ~> Ready(t)
=============================================================================
