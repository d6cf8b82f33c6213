# TLA+ models of the RTOS kernel

This directory holds TLA+ specifications of the kernel in `../src`, the TLC
configurations that check them on small instances, and proofs checked by TLAPS.
Definitions keep the names of the C functions and variables they translate;
`PROJECT.json` maps each of them to its source lines.

## The system

A small preemptive kernel for a Cortex-M3: fixed priorities (0 is the most
urgent, 3 is the idle task), time slicing by SysTick, system calls by SVC, the
context switch in PendSV, blocking mutexes with priority inheritance, counting
semaphores, a blocking MPMC queue, a lock-free SPSC queue and static pools.

| Component | State | Operations | Interacts with |
|---|---|---|---|
| Task queues (`scheduler.c`) | `g_priorities`, `g_timeout_queue`, `waiters` of every object, threaded through the TCBs | add, remove, insert by priority, rotate, sorted timeout insert, remove | all services |
| Scheduler (`scheduler.c`, `task.c`, `tick.c`) | TCB fields, `g_current`, `g_next`, `g_tick` | create, start, yield, delay, tick, block, wake, set priority | PendSV through `g_next` and the pending bit |
| Context switch (`port.c`, `os_commit_switch`) | `g_first_switch`, PSP, `tcb->sp` | save, commit, restore | interrupted by SysTick at any instruction |
| Mutex (`mutex.c`) | `owner`, `waiters`, `next_mutex`; `owned_mutexes`, `blocked_on` in the TCB | lock, unlock | block/wake, `os_task_set_priority` |
| Semaphore (`semaphore.c`) | `count`, `waiters` | take, give | block/wake |
| MPMC queue (`queue.c`) | `head`, `tail`, storage, a mutex, two semaphores | send, recv | mutex, semaphore; runs in the calling task |
| SPSC queue (`lfqueue.c`) | `read_index`, `write_index`, slots | get/update write and read | used from two tasks without locks |
| Pools (`mempool.c`, `kalloc.c`) | free lists, `free_count` | alloc, free | task creation |
| RTT (`rtt.c`) | ring with `wr_off`, `rd_off` | write, puts | every task that logs, and the host |
| Main application (`app_main.c`) | `g_error_count`, the value sent and the one expected | send task, receive task | SPSC queue, RTT |
| Boot, MPU, BSP | registers | init | once |

What is hard here:

* SVC and SysTick have the same exception priority and exclude one another, but
  PendSV is below both: a tick may land between any two instructions of the
  context switch, where it rewrites `g_next` and decides on `g_current` whether
  another PendSV is needed.
* `os_task_block_locked` does not block. It pends PendSV and returns, and its
  caller runs to the end of the system call as the current task.
* The list operations trust their callers: removing a TCB that is in no list
  empties the list.
* Ticks wrap; they are compared through a signed difference.
* Priorities change while tasks are in queues ordered by priority, or in queues
  that are not.
* The owned-mutex list is singly linked through the mutexes, so a mutex can be
  on one list at a time.
* `queue.c`, `lfqueue.c` and `rtt.c` run in the tasks themselves, preemptible
  between any two accesses. Tasks are unprivileged, so `os_port_irq_save` does
  nothing when they call it.
* Two pools run empty at different times, and a creation may fail between them.

What makes the parts correct: every task is in exactly one queue; the processor
runs the right context; sleepers wake on time; the most urgent task runs and
equals share; mutexes are handed over, inherited priorities are exact; no
wake-up is lost; queues lose, repeat and reorder nothing; no block has two users
and none is lost.

## Modules

| Module | Models |
|---|---|
| `TaskQueue` | the list operations of `scheduler.c` as operators on sequences |
| `Scheduler` | `scheduler.c`, `task.c`, `tick.c`, PendSV; the properties of the scheduling core |
| `Mutex` | `mutex.c` on `Scheduler` |
| `Semaphore` | `semaphore.c` on `Scheduler` |
| `Kernel` | mutexes, semaphores and sleeping together |
| `PiTest` | `app/pi_test.c`, the priority-inversion scenario, on `Mutex` |
| `MemPool` | `mempool.c` as operators on a pool value |
| `Kalloc` | `kalloc.c` and the memory of a new task, on `Scheduler`: the whole of `os_kernel_task_create` |
| `BoundedFIFO` | abstract: what a queue promises |
| `MessageQueue` | `queue.c`: the clients of a mutex and two semaphores, on `Kernel` |
| `LFQueue` | `lfqueue.c`: the ring and its four operations |
| `Rtt` | `rtt.c`: writers, access by access, and the host |
| `AppMain` | `app_main.c`: the two tasks on `LFQueue` and `Rtt` |
| `MCScheduler`, `MCMutex`, `MCSemaphore`, `MCKernel`, `MCMessageQueue` | symmetry sets and, for the queue, a state constraint for TLC |
| `MCAppMain` | which tasks log |
| `SchedulerProofs`, `SemaphoreProofs`, `MutexProofs`, `KernelProofs` | theorems about the kernel and the lemmas they rest on, each module on those before it |
| `PiTestProofs` | theorems about the priority-inversion scenario, on `MutexProofs` |
| `MessageQueueProofs` | theorems about the blocking queue, on `KernelProofs` |
| `KallocProofs` | theorems about the pools |
| `AppMainProofs` | theorems about the lock-free queue and the RTT channel |

Definitions marked *Mutant* in the modules are deliberately wrong variants of the
definition that follows them. Substituted for it, each must make TLC report the
property that `PROJECT.json` pairs it with; nothing else uses them.

### State and actions

*State.* TCB fields are functions over `Task`; a list is the sequence of its
members. `sp[t]` and `psp` record into whose stack the saved or live stack
pointer points, which is all that a switch can get wrong at this level.
`pendsv` is the pending bit. `pc` says what the processor executes below SVC and
SysTick: `boot`, `thread`, one of PendSV's four interior points, or `hung` (a
list walk of `mutex.c` that does not end). `wait_result` is written and never
read, and is left out.

*Granularity.* One action per system call and per tick, since these exclude one
another and mask interrupts. PendSV is five actions, cut where it touches what
SysTick touches: save; the tests and the demotion in `os_commit_switch`; the load
of `g_next`; the store of `g_current` with the new state; restore. The build is
`-O0`, so each use of `g_next` is a load of its own.

*System calls* are enabled when `InTask` holds: thread mode, no PendSV pending
(it would be taken first), and not the idle task, which makes none. Calls that
return an error before changing anything (locking a mutex one owns, unlocking
one of another, a bad priority, an exhausted pool) are stuttering steps and have
no action. `os_task_wake_one_locked` includes the `os_schedule` with which both
of its callers continue.

*Mutex lock.* What follows `os_task_block_locked` in `os_kernel_mutex_lock`
(clearing `blocked_on`, linking the mutex into the caller's list) is part of the
action that blocks, because the C function runs to its end before the switch.

*Pools and creation.* A block is known by its number, and a task by the block of
its TCB. `os_kernel_task_create` of `Scheduler` assumes that a new TCB is not in
use; `Kalloc` models where it comes from, with the failures half-way, and calls
`os_task_create_internal` without that assumption.

*MPMC queue.* Each client is somewhere in `os_queue_send` or `os_queue_recv`
(`at`); it moves only when it is the task that executes, and every system call in
it is the action of `Mutex` or `Semaphore`. A copy to or from the ring is one step;
`LockHeldInside` is what makes this sound. A message is known by its sender. The
error returns need an invalid queue, or a lock that the same task holds already.

*SPSC queue and RTT.* `AppMain` interleaves the two tasks freely, which includes
every schedule the kernel can produce: both have the same priority and sleep in
each round. Each function of `lfqueue.c` loads the shared index of the other side
once, and is atomic; filling and reading the slot are steps of the tasks. In
`os_rtt_write` every access to `wr_off`, `rd_off` and the buffer is a step. The
host (external) copies a byte and then advances `rd_off`. Texts are reduced to two bytes
of different kinds: what matters is that a call writes several and that the two
writers differ in where they are.

*MPU.* `os_port_mpu_init` does nothing on a chip whose MPU has no regions, and this is
the chip modelled. With an MPU, kernel text is not executable for tasks, and the
calls tasks make to it directly (`os_memcpy`, `os_port_irq_save`) would fault.

*Init* is the state at the call of `os_app_main`: the idle task exists and
nothing has run. Tasks may be created there or later, by running tasks.

## Runs

| Run | Instance | Result |
|---|---|---|
| `SchedulerSafety` | 3 tasks + idle, 3 priorities, tick range 6, delays 0..3 and for ever | holds: queue discipline, context integrity, only ready tasks run, switch control, timeouts sorted, wake on time |
| `SchedulerLiveness` | `Kalloc`: 4 TCB blocks, 3 stack blocks (one of each for idle), stack sizes too small, fitting and too large; tick range 4, delays 0..2 and for ever | holds: pools exact, creation overwrites no task, preemption, time slicing, sleepers wake |
| `SchedulerPreemption` | 3 tasks + idle | violated: the most urgent ready task runs |
| `MutexChain`, `MutexHang` | two mutexes held at a time | violated: chain inheritance, termination of the list walks |
| `PiTest` | the scenario of `pi_test.c` | holds: Medium never runs in Low's critical section, High acquires |
| `SemaphoreService` | 3 tasks + idle, one semaphore | holds: no lost wake-up, FIFO, no starvation |
| `KernelSafety` | 3 tasks + idle, 3 priorities, a mutex, a semaphore, sleeping | holds: queue discipline, hand-over, exact inheritance and owned list, no inversion, no hang, no lost wake-up |
| `KernelFIFO` | same, 2 priorities | violated: semaphores are FIFO |
| `MessageQueue` | 2 senders, 1 receiver, idle; 2 slots; 4 priorities, so all relative ones, in any order of creation | holds: implements `BoundedFIFO`, units conserved, the lock is held inside, some client is ready |
| `AppMain` | ring of 3 slots, RTT buffer of 3 bytes, values modulo 4; one of the tasks logs | holds: the SPSC queue and the log implement `BoundedFIFO`, slots disjoint, no gap, values keep flowing |
| `AppMainRtt` | same, both tasks log | violated: the log is a FIFO |

### Refinements

* `CreatesFreshTasks`: `Kalloc` implements `SchedSpec` with the same variables. A
  failed creation is a stutter; a successful one must be a step of
  `os_kernel_task_create`, which requires a TCB that is not in use. The pools may
  therefore be left out of everything built on `Scheduler`.
* `QueueIsFIFO`: `buffer` is the slots from `read_index` up to `write_index`, `out`
  the value task1 has read. `update_write_index` is `Put`, reading the slot is
  `Copy`, `update_read_index` is `Remove`; all else stutters, writing to a slot too.
* `LogIsFIFO`: the same with `rd_off`, `wr_off` and the byte the host has read.
* `MessagesInOrder`: the number of messages in the ring cannot be told from `head`
  and `tail` (equal when empty and when full). It is what the semaphores say,
  corrected by the clients between a semaphore and the ring (`Filled`); so the
  property relates indices, semaphores and clients.

### What the violated runs show

1. **A missed preemption** (`scheduler.c:328`). The current task blocks for one
   tick. PendSV loads `g_next`; the tick arrives, wakes the blocked task, sets
   `g_next` to it and compares with `g_current`, which is still that task, so it
   pends nothing; PendSV stores the old `g_next`. A less urgent task runs until
   the next tick repairs it: `PreemptionHappens` is the weaker property that holds.
2. **A hang** (`mutex.c:58`, `mutex.c:131`): a task that blocks on a mutex links it
   into its own list at once, through the same `next_mutex` that links it into its
   owner's list. With nested locking the lists become wrong (`OwnedListExact`), a
   mutex comes to point to itself, and the next unlock walks the list for ever
   with interrupts masked.
3. **Chains** (`mutex.c:57`): `blocked_on` is cleared by the call that sets it, so
   inheritance reaches only the first owner.
4. **FIFO** (`scheduler.c:311`): a mutex owner that waits for a semaphore is moved
   forward in the semaphore's queue when it inherits a priority.
5. **The log** (`rtt.c:50`): tasks mask no interrupts. A writer preempted between
   its load and its store of `wr_off` sets it back over what another has written.

With one mutex held at a time 2 and 3 cannot happen: `KernelSafety` checks the full
guarantees under that discipline, which `MaxHeld = 1` states. Nested locking
appears in the runs `MutexChain` and `MutexHang` only.

Delays above 2^31 ticks (`HALF`) are beyond what the signed difference in
`os_tick_reached` (`scheduler.c:140`) can tell. One of `HALF + 2` or more ends at the next
tick, which takes it for past. One of exactly `HALF + 1` ends on time, but a task that is
due at the next tick may be queued behind it (their wake ticks are half the range apart)
and then misses its tick, to wake only when the counter has come round. No document
promises otherwise. No run has a finite delay above `HALF`; `OS_WAIT_FOREVER` is in the
runs, and the theorems about timeouts have the bound as a hypothesis.

### Bounds, and why they are enough

* Two or three application tasks: a waker, a victim and a bystander. Every
  property relates at most three tasks.
* Two to four priorities: one of them the idle task's, the others to have a
  difference. `PiTest` uses the real four.
* The tick range (2·`HALF`) is 4 to 8 instead of 2^32. What matters is that the
  counter wraps while tasks sleep and that delays reach exactly half the range
  (`HALF`), the longest the signed comparison can tell; both happen.
  `HALF = 1` in `SemaphoreService`, where nobody sleeps; `KernelSafety` has
  sleeping tasks beside the semaphore.
* `MaxHeld` mutexes per task; `MaxCount` units per semaphore: a bound on the
  counter, not a limit of the code.
* Symmetry over application tasks (and mutexes) in runs of safety properties only.
* `MessageQueue`: two senders compete for spaces, for the lock and with the
  receiver; both may wait for spaces at once, and each may overtake the other
  between the semaphore and the lock. Two slots, so that the ring is partly full
  and wraps. Three priorities above the idle task's, in any order of creation. Only
  the order of the priorities matters, so `NoPriorityGaps` (a state constraint of
  `MCMessageQueue`) follows behaviours past boot only if no priority is left out between
  two clients.
* `AppMain`: a ring of three slots holds two messages; the indices, the value
  (`WORD` for 2^32) and the RTT offsets all wrap, out of step with one another.
  One task logs in a behaviour, either one: with two, `LogIsFIFO` is false
  (`AppMainRtt`), while the steps of `rtt.c` touch nothing of the SPSC queue.
  `KeepsFlowing` does not depend on the number of loggers: `os_rtt_write` waits for
  nobody and its loop is bounded by `len`. `AppMain.cfg` confirms it for both at once
  (614,241 states) when `LoggerSets` is `BothLog`, `capacity` and `SIZE` are 2, `WORD`
  is 3 and `KeepsFlowing` is the only property.
* The pools have fewer stacks than TCBs, as in the code (8 and 32), so that
  creation fails with a TCB in hand, and refused sizes fail with both available. The opposite case, a TCB pool that
  runs empty first, is not reached by the run; `PoolsExactHolds` is for any sizes.

### Fairness

`SchedLiveSpec` assumes that boot ends, that a pending PendSV is taken and runs
to its end, and that the timer keeps ticking: nothing masks interrupts for ever,
and a tick handler is short. Tasks owe nothing: they may compute for ever without
a system call. No fairness links ticks and PendSV, so a tick may preempt the
task that has just been given the processor before it executes an instruction;
liveness is therefore stated on `g_current`. `NoSemaphoreStarvation` assumes that
the semaphore is given again and again. `KallocLiveSpec` is `SchedLiveSpec` on
`Kalloc`: nobody has to create a task. `AppLiveSpec` assumes that both tasks go on
running, which is what `TimeSlicing` and `SleepersWake` give to tasks of one
priority that sleep for a bounded time; the host is under no obligation, so the
values must flow with a full log (`KeepsFlowing`). `PiSpec` adds that a task that has the
processor proceeds to its next statement.

## Proofs

Every theorem is for any number of tasks, priorities, wait queues, mutexes and
semaphores, any tick range and any capacities, from the `ASSUME`s of the modules
that declare the constants. Five groups of theorems have a hypothesis of their
own, written in their statements:

| Hypothesis | Of | Why |
|---|---|---|
| `DelaysInRange`: no delay above `HALF`, except for ever | `TimeoutQueueSorted`, `WakeOnTime`, of the scheduler and of the kernel | `tick.c` compares ticks by the sign of their difference; two wake times half the range or more apart are ordered the wrong way round |
| `OneMutexAtATime`: `MaxHeld <= 1` | `OwnedListExact`, `InheritanceExact`, `WaitersSorted`, `NoPriorityInversion`, `OwnersDoNotWait`, `KernelNeverHangs` | with nested mutexes they are false (runs `MutexChain` and `MutexHang`), and two tasks may each wait for the other's mutex |
| `OneWriter`: at most one task logs | `LogRefinement` | with two writers it is false: run `AppMainRtt` |
| `Sender # {}`, `Receiver # {}` | `SomeClientReadyHolds` | with senders only they all wait, as they should, once the ring is full |
| `{0, capacity} \subseteq InitialCounts` | `QueueImplementsKernel` | what `os_queue_init` gives to `os_sem_init` must be counts a semaphore may start with |

All five are satisfied by the instances the passing runs use.

**Queues and induction** (first part of `SchedulerProofs`). What the list operators do to the
members and to the order of a queue. `Pick`, the subsequence operator they are
built on, is defined by the rank of positions, not by recursion; `RankBijective`
shows that the ranks number the positions. `SetInduction` is induction over the
natural numbers stated with a set instead of a predicate, a form the provers can
instantiate; with it the walks of linked lists in `mutex.c`, which are recursive
functions, can be reasoned about (`WalkExists`, `WalkUnique` in `MutexProofs`).

**Scheduling core** (`SchedulerProofs`). `SchedSpec => []SchedInv`, where `SchedInv` is

    SchedTypeOK /\ QueueDiscipline /\ ContextIntegrity /\ OnlyReadyTasksRun /\ SwitchControl

and each conjunct is a theorem of its own. Why the strengthening is needed:
`OnlyReadyTasksRun` is about the moment PendSV has ended, but what it switches to
was chosen earlier, by whichever handler last ran `os_schedule`, and then copied to
a register. So the invariant must say that `g_next` and the copy are ready at every
step in between (`SwitchControl`). That is kept because only the current task can
block, which needs thread mode, while ticks only make tasks ready; and `os_schedule`
finds a ready task because the idle task is one (it makes no system call) and
because the ready queues hold exactly the ready tasks (`QueueDiscipline`). The step
lemmas `BlockStep`, `WakeStep`, `RotateStep` and `TickStep` are about the shared
parts of the handlers, so that the mutex and semaphore proofs use them too.

`TimeoutQueueSorted` and `WakeOnTime` rest on `TimeoutsInOrder`: all members of the
timeout queue are due within `HALF` ticks from now, and in the order of the queue.
The bound is what makes the signed comparisons agree with the order of the remaining
times after a wrap; the tick handler keeps it because it removes whoever is due at
each tick, so no remaining time passes zero. `WakeOnTime` follows because the
handler's loop, which stops at the first task that is not due, has then passed all
that are.

**Semaphores** (`SemaphoreProofs`). `SemInv` is `SchedInv /\ SleepersWait /\ SemState`.
`NoLostWakeup` is nearly inductive; what it needs of the scheduler is that a tick does
not touch a semaphore's waiters. `SleepersWait` gives it: whoever is in the timeout
queue waits in `g_sleep_queue`, because semaphores and mutexes block with
`OS_WAIT_FOREVER`. `SemaphoreFIFO` is proved of semaphores alone (`SemSpec`); of the
whole kernel it is false (run `KernelFIFO`), because inheritance reorders the queue
an owner waits in.

**Mutexes and the kernel** (`MutexProofs`, `KernelProofs`). Without a bound on
nesting the inductive invariant is

    KernelInv == KernelState /\ (pc # "hung" => SchedInv)

`KernelState` holds the types, the queue discipline and the owners of mutexes, which
survive the hang; the rest of `SchedInv` speaks of a processor that executes and is
claimed only while it does. From it: `KernelTypeOK`, `QueueDiscipline`,
`WaitersHaveOwner`, `NoLostWakeup`, `OnlyReadyTasksRun`, `ContextIntegrity` (until a hang), and
the action property `HandOverToHead`. A fact
about the code the proof uses and the comments of `mutex.c` do not suggest:
`blocked_on` is NULL between any two calls, because `os_kernel_mutex_lock` clears it
in the same SVC that sets it, so inheritance stops at the direct owner
(`RaisedIsOwner`).

For tasks that hold one mutex at a time the invariant is `OneMutexInv`: `MutexInv`,
`InheritanceExact` and `WaitersSorted`, with `OwnedLists` (a list is empty or the one
mutex that the task owns or waits for: the code links a mutex into the list of a
task that only waits for it, so the list is *not* the set of mutexes owned) and
`NextMostUrgent` (`g_next` is a most urgent ready task whenever a handler has
ended). `InheritanceExact` and `WaitersSorted` need each other: recomputing the
priority in `os_kernel_mutex_unlock` reads only the head of the waiters, which is the
most urgent one because they are sorted; and they stay sorted because only the owner
of a mutex changes priority, and with one mutex at a time an owner waits for none.
`NoPriorityInversion` follows from `InheritanceExact` and `NextMostUrgent`,
`KernelNeverHangs` from `OwnedLists`, and so does `OwnersDoNotWait`: the owner of a
mutex is in no mutex's queue, so that tasks which hold one mutex at a time cannot
deadlock on mutexes. `ChainInheritance`, which run `MutexChain` refutes for nested
locks, has no theorem: where it could be proved there are no chains.

*Timeouts under all services.* `KernelTimeoutQueueSorted` and `KernelWakeOnTime` need
no bound on nesting. `KernelState` contains `SleepersWait`: who waits for a mutex or a
semaphore has no timeout. So none of their calls adds to or removes from the timeout
queue, not even when inheritance moves a sleeping owner within the *sleep* queue
(`TimeoutsKept`), and the argument of `SchedulerProofs` for the tick applies. A
hung kernel takes no further tick, so that nobody in it is due.

**Priority-inversion scenario** (`PiTestProofs`). The inductive invariant is
`PiInv == OneMutexInv /\ PiPlaces /\ SwitchSettled`. `PiPlaces` ties the statements
Low and High have reached to the tasks that exist, their own priorities, the owner of
the mutex and its only possible waiter. `SwitchSettled` says that a switch, once
decided, is carried out: with no PendSV pending or in progress the current task is
`g_next`, and the register copy in PendSV agrees with it. This is false of the kernel in general (run
`SchedulerPreemption`); it holds here because a tick never changes the decision,
since nobody sleeps and no two ready tasks have the same priority. So whoever executes
is the most urgent ready task. `MediumWaitsForLow` then is a matter of
priorities: by `InheritanceExact` Low has High's while High waits, and its own again
as soon as High does not. The scenario needs no hypothesis on `MaxHeld`: Low and High
lock the one mutex when they hold none.

**Blocking queue** (`MessageQueueProofs`). The inductive invariant is

    QueueInv == OneKernelInv /\ RingTypes /\ Places
                /\ count[spaces] + count[items] + Cardinality(Holders) = capacity
                /\ tail = Slot(head, Level)

`Places` says where in `os_queue_send` or `os_queue_recv` a client is when it waits (one
that waits for a semaphore or for the lock has already gone to the step after the
call), and that the owner of the lock is exactly the client that is past it and does
not wait for it. That equivalence is what survives the hand-over: `os_kernel_mutex_unlock`
gives the lock to a task that is still blocked inside `os_kernel_mutex_lock`. The last two
conjuncts count units: `Holders` are the clients that have one, `Level` is the number of
items in the semaphore, with senders that have filled their slot but not yet given
(`Putters`), and with receivers that have taken but not yet emptied theirs (`Getters`).
A receiver that is woken with a unit moves from the waiters to the holders while the
count stays, which is why the sum must count people and not just semaphores. Since the ring
holds `Level` messages from `head`, filling the slot at `tail` appends and
giving up the slot at `head` removes (`RingSteps`), and the refinement of
`BoundedFIFO` follows. No hypothesis on `MaxHeld` is needed, because there is one
mutex: whoever locks it holds none. `SomeClientReady` is a counting argument: if all wait,
nobody owns the lock, so nobody waits for it, all senders wait for `spaces` and
all receivers for `items`, both counts are zero and nobody holds a unit, but the sum is
`capacity`, which is not zero.

`QueueImplementsKernel`: every step of `QueueSpec` is a step of `KernelSpec` with the
same variables, or a stutter when a client works on the ring. The kernel's theorems
(`WakeOnTime` and `HandOverToHead`, for example) so hold below the queue, without
being repeated in `QueueInv`.

**Pools** (`KallocProofs`). `PoolsExact` is inductive with the types of the pools;
from it, every step of `Kalloc` is a step of `SchedSpec` (`CreatesFreshTasks`), so
that all theorems about `SchedSpec` hold of the system with its pools.

**Lock-free queue and RTT** (`AppMainProofs`). The inductive invariant is
`AppInv == Types /\ SlotInv /\ ValueInv`. `SlotInv` is what a side still knows when it
works on a slot after it has read the other side's index: each index is moved by one
side only, and away from the other, so a slot found free (or filled) stays so.
`ValueInv` says that the numbers in the ring and in the hands of the two tasks have no
gap. `SlotsDisjoint`, `NoErrors` and the step simulation of `BoundedFIFO`
(`QueueIsFIFO`) follow. `LogInv` does the same for the channel and its host
(`LogIsFIFO`).

**Only model-checked.** Liveness (`KeepsFlowing`, `HighAcquires`,
`NoSemaphoreStarvation` and the properties of `SchedulerLiveness` about scheduling),
which is out of the prover's reach. The properties of the runs that expect a violation
have no theorem, except that `KernelNeverHangs` is proved for tasks that hold one mutex
at a time, `SemaphoreFIFO` for semaphores alone and `LogIsFIFO` for one writer.

## Not modelled

* `os_rtt_read` and the down channel: no caller in the repository.
* MPU, clock, timer and startup code: register writes without a protocol, and the
  decoding of the SVC frame.
* The benchmarks, the LED demo and the on-target tests: they only call services
  that are modelled. Of `app_main.c`, the formatting of numbers (`u32_to_str`) is
  left out.
* Overflow of a semaphore's count (`UnitsConserved` excludes it for the semaphores of
  `queue.c`), and system calls other than task creation before
  `os_start`. A yield there would switch with `g_current` NULL; no application does
  it. `app_test_rtt.c` calls `os_delay_ticks` there, which returns at once, because
  `os_task_block_locked` tests `g_current`.
* A task stack smaller than the initial frame (16 words), which would put the frame
  in front of its block: no caller asks for fewer than 128 words.

## Plan

The order in which the project was built: task queues and scheduler; mutexes,
semaphores and their composition; pools; the queues and the log with the abstract
FIFO; then the proofs, in the same order. Every safety property that a
run finds to hold has its theorem, for every value of the constants. What remains
with TLC is listed under *Only model-checked*, and what has no model under *Not
modelled*; of the latter, `os_rtt_read` would come first once something calls it.
