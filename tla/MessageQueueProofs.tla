------------------------- MODULE MessageQueueProofs -------------------------
(***************************************************************************)
(* queue.c is correct for any number of senders and receivers, of any      *)
(* priorities, and any capacity, on the scheduler, mutexes and semaphores  *)
(* of KernelProofs.                                                        *)
(***************************************************************************)
EXTENDS MessageQueue, KernelProofs, SequenceTheorems

\* The tasks that wait in q.
In(q) == Range(waiters[q])

(***************************************************************************)
(* The constants, as the proofs use them.                                  *)
(***************************************************************************)
LEMMA QueueConstants ==
    /\ Client = Task \ {Idle} /\ Client \subseteq Task /\ IsFiniteSet(Client)
    /\ Sender \subseteq Client /\ Receiver \subseteq Client /\ Sender \cap Receiver = {}
    /\ lock \in Mutex /\ (\A m \in Mutex : m = lock) /\ lock \in WaitQueue
    /\ spaces \in Semaphore /\ items \in Semaphore /\ Semaphore \subseteq WaitQueue
    /\ spaces \in WaitQueue /\ items \in WaitQueue
    /\ g_sleep_queue \notin {lock, spaces, items}
    /\ spaces # items /\ lock # spaces /\ lock # items
    /\ NULL \notin Task /\ NULL \notin Client /\ NULL \notin WaitQueue
    /\ capacity \in Nat /\ capacity >= 1 /\ MaxCount \in Nat /\ capacity < MaxCount
<1>1. IsFiniteSet(Client)
  BY MessageQueueAssumption, SchedulerAssumption, FS_RemoveElement DEF Client
<1> QED
  BY <1>1, MessageQueueAssumption, SchedulerAssumption, MutexAssumption, SemaphoreAssumption
     DEF Client

-----------------------------------------------------------------------------
(* What the calls of queue.c do to the kernel, for its clients *)

(***************************************************************************)
(* Who calls is in no wait queue.                                          *)
(***************************************************************************)
LEMMA QueueCaller ==
    ASSUME OneKernelInv, InTask
    PROVE  /\ MutexInv /\ SemInv
           /\ g_current \in Task /\ g_current # NULL
           /\ \A q \in WaitQueue : g_current \notin In(q)
<1>1. MutexInv /\ SemInv
  BY DEF OneKernelInv, OneMutexInv, MutexInv, SemInv
<1> QED
  BY <1>1, MutexCaller, SchedulerAssumption DEF In

(***************************************************************************)
(* os_sem_take: a unit is taken, or the caller joins the waiters.          *)
(***************************************************************************)
LEMMA TakeEffect ==
    ASSUME OneKernelInv, NEW s \in Semaphore, os_kernel_sem_take(s), UNCHANGED mutexVars
    PROVE  /\ OneKernelInv'
           /\ \A q \in WaitQueue \ {s} : In(q)' = In(q)
           /\ owner' = owner
           /\ \/ /\ count[s] > 0 /\ count' = [count EXCEPT ![s] = @ - 1]
                 /\ In(s)' = In(s)
              \/ /\ count' = count
                 /\ In(s)' = In(s) \cup {g_current}
<1>1. /\ InTask /\ SemStep(s) /\ MutexInv /\ SemInv /\ OneMutexInv
  BY DEF os_kernel_sem_take, SemStep, OneKernelInv, OneMutexInv, MutexInv, SemInv
<1>2. OneKernelInv'
  BY <1>1, OneSem DEF OneKernelInv, SemInv
<1>3. \A q \in WaitQueue \ {s} : In(q)' = In(q)
  BY <1>1, SemStepInv DEF In
<1>4. owner' = owner
  BY DEF mutexVars
<1>5. CASE count[s] > 0 /\ count' = [count EXCEPT ![s] = @ - 1] /\ UNCHANGED schedVars
  BY <1>2, <1>3, <1>4, <1>5 DEF schedVars, queueVars, In
<1>6. CASE /\ os_task_block_locked(s, OS_WAIT_FOREVER, FALSE, g_priorities, waiters, priority)
           /\ UNCHANGED <<count, priority, base_priority, switchVars, g_tick>>
  <2>1. /\ s \in WaitQueue \ {g_sleep_queue} /\ g_current \in Task
        /\ g_priorities \in [Priority -> Seq(Task)] /\ waiters \in [WaitQueue -> Seq(Task)]
        /\ priority \in [Task -> Priority]
        /\ ReadyQueuesOK(state, priority, g_priorities) /\ WaitQueuesOK(state, wait_queue, waiters)
    BY <1>1, MutexCaller, SemaphoreAssumption
  <2>2. waiters' = [waiters EXCEPT ![s] = os_task_queue_add(@, g_current)]
    BY <1>1, <1>6, <2>1, BlockForever DEF SemInv
  <2>3. waiters[s] \in Seq(Task) /\ waiters'[s] = os_task_queue_add(waiters[s], g_current)
    BY <2>1, <2>2
  <2>4. In(s)' = In(s) \cup {g_current}
    BY <2>1, <2>3, AddFacts DEF In
  <2> QED
    BY <1>2, <1>3, <1>4, <1>6, <2>4
<1> QED
  BY <1>5, <1>6 DEF os_kernel_sem_take

(***************************************************************************)
(* os_sem_give: a waiter gets the unit, or the count does.                 *)
(***************************************************************************)
LEMMA GiveEffect ==
    ASSUME OneKernelInv, NEW s \in Semaphore, os_kernel_sem_give(s), UNCHANGED mutexVars
    PROVE  /\ OneKernelInv'
           /\ \A q \in WaitQueue \ {s} : In(q)' = In(q)
           /\ owner' = owner
           /\ \/ count' = count /\ \E h \in In(s) : In(s)' = In(s) \ {h}
              \/ count' = [count EXCEPT ![s] = @ + 1] /\ In(s)' = In(s)
<1>1. /\ InTask /\ SemStep(s) /\ MutexInv /\ SemInv /\ OneMutexInv
  BY DEF os_kernel_sem_give, SemStep, OneKernelInv, OneMutexInv, MutexInv, SemInv
<1>2. OneKernelInv'
  BY <1>1, OneSem DEF OneKernelInv, SemInv
<1>3. \A q \in WaitQueue \ {s} : In(q)' = In(q)
  BY <1>1, SemStepInv DEF In
<1>4. owner' = owner
  BY DEF mutexVars
<1>5. CASE count' = [count EXCEPT ![s] = @ + 1] /\ UNCHANGED schedVars
  BY <1>2, <1>3, <1>4, <1>5 DEF schedVars, queueVars, In
<1>6. CASE /\ waiters[s] # << >>
           /\ os_task_wake_one_locked(s, g_priorities, priority)
           /\ UNCHANGED <<count, priority, base_priority, switchVars, g_tick>>
  <2>1. /\ s \in WaitQueue \ {g_sleep_queue} /\ g_current \in Task
        /\ g_priorities \in [Priority -> Seq(Task)] /\ waiters \in [WaitQueue -> Seq(Task)]
        /\ priority \in [Task -> Priority]
        /\ ReadyQueuesOK(state, priority, g_priorities)
        /\ IsInjective(waiters[s])
    BY <1>1, MutexCaller, SemaphoreAssumption
  <2>2. waiters' = [waiters EXCEPT ![s] = Tail(@)]
    BY <1>1, <1>6, <2>1, WakeHead DEF SemInv
  <2>3. waiters[s] \in Seq(Task) /\ waiters'[s] = Tail(waiters[s])
    BY <2>1, <2>2
  <2>4. Head(waiters[s]) \in In(s) /\ In(s)' = In(s) \ {Head(waiters[s])}
    BY <1>6, <2>1, <2>3, PopFacts DEF In
  <2> QED
    BY <1>2, <1>3, <1>4, <1>6, <2>4
<1> QED
  BY <1>5, <1>6 DEF os_kernel_sem_give

(***************************************************************************)
(* os_mutex_lock: a free mutex is taken, or the caller joins the waiters.  *)
(***************************************************************************)
LEMMA LockEffect ==
    ASSUME OneKernelInv, UNCHANGED count,
           os_kernel_mutex_lock_free(lock) \/ os_kernel_mutex_lock_contended(lock)
    PROVE  /\ OneKernelInv'
           /\ \A q \in WaitQueue \ {lock} : In(q)' = In(q)
           /\ \/ owner[lock] = NULL /\ owner'[lock] = g_current /\ In(lock)' = In(lock)
              \/ /\ owner[lock] \notin {NULL, g_current} /\ owner'[lock] = owner[lock]
                 /\ In(lock)' = In(lock) \cup {g_current}
<1>1. owner[lock] # g_current \/ owner[lock] = NULL
  BY DEF os_kernel_mutex_lock_free, os_kernel_mutex_lock_contended
<1>2. InTask /\ MutexStep(lock)
  BY DEF os_kernel_mutex_lock_free, os_kernel_mutex_lock_contended, MutexStep
<1>3. MutexInv /\ SemInv /\ OneMutexInv /\ SemState /\ g_current \in Task /\ g_current # NULL
  BY <1>2, QueueCaller DEF OneKernelInv
<1>4. \A k \in Mutex : owner[k] # g_current
  BY <1>1, <1>3, QueueConstants
<1>5. OneMutexInv'
  BY <1>3, <1>4, QueueConstants, OneFree, OneContended
<1>6. MutexInv' /\ pc' # "hung"
  BY <1>5 DEF OneMutexInv, MutexInv, SchedInv, SwitchControl
<1>7. \A q \in WaitQueue \ Mutex : Range(waiters'[q]) = Range(waiters[q])
  BY <1>2, <1>3, <1>6, QueueConstants, MutexStepInv
<1>8. OneKernelInv'
  BY <1>3, <1>5, <1>6, <1>7, MutexKeepsSem DEF OneKernelInv
<1>9. \A q \in WaitQueue \ {lock} : In(q)' = In(q)
  BY <1>7, QueueConstants DEF In
<1>10. CASE os_kernel_mutex_lock_free(lock)
  <2>1. owner[lock] = NULL /\ owner' = [owner EXCEPT ![lock] = g_current]
    BY <1>10 DEF os_kernel_mutex_lock_free
  <2>2. waiters' = waiters
    BY <1>3, <1>10, QueueConstants, FreeEffect DEF schedVars, queueVars
  <2>3. owner'[lock] = g_current
    BY <2>1, QueueConstants, <1>3 DEF MutexInv, MutexState
  <2> QED
    BY <1>8, <1>9, <2>1, <2>2, <2>3 DEF In
<1>11. CASE os_kernel_mutex_lock_contended(lock)
  <2>1. owner' = owner /\ In(lock)' = In(lock) \cup {g_current}
    BY <1>3, <1>11, QueueConstants, ContendedEffect DEF In
  <2>2. owner[lock] \notin {NULL, g_current}
    BY <1>11 DEF os_kernel_mutex_lock_contended
  <2> QED
    BY <1>8, <1>9, <2>1, <2>2
<1> QED
  BY <1>10, <1>11

(***************************************************************************)
(* os_mutex_unlock: the lock is free, or a waiter's.                       *)
(***************************************************************************)
LEMMA ReleaseEffect ==
    ASSUME OneKernelInv, UNCHANGED count, os_kernel_mutex_unlock(lock)
    PROVE  /\ OneKernelInv'
           /\ \A q \in WaitQueue \ {lock} : In(q)' = In(q)
           /\ owner[lock] = g_current
           /\ \/ owner'[lock] = NULL /\ In(lock)' = In(lock) /\ In(lock) = {}
              \/ \E h \in In(lock) : owner'[lock] = h /\ In(lock)' = In(lock) \ {h}
<1>1. InTask /\ MutexStep(lock)
  BY DEF os_kernel_mutex_unlock, MutexStep
<1>2. MutexInv /\ SemInv /\ OneMutexInv /\ SemState
  BY <1>1, QueueCaller DEF OneKernelInv
<1>3. OneMutexInv' /\ pc' # "hung"
  BY <1>2, QueueConstants, OneUnlock
<1>4. \A q \in WaitQueue \ Mutex : Range(waiters'[q]) = Range(waiters[q])
  BY <1>1, <1>2, <1>3, QueueConstants, MutexStepInv
<1>5. OneKernelInv'
  BY <1>2, <1>3, <1>4, MutexKeepsSem DEF OneKernelInv, OneMutexInv
<1>6. \A q \in WaitQueue \ {lock} : In(q)' = In(q)
  BY <1>4, QueueConstants DEF In
<1>7. /\ owner[lock] = g_current
      /\ owner' = [owner EXCEPT ![lock] = NextOwner(lock)]
      /\ waiters[lock] # << >> => waiters' = [waiters EXCEPT ![lock] = Tail(@)]
      /\ waiters[lock] = << >> => waiters' = waiters
  BY <1>2, <1>3, QueueConstants, UnlockEffect
<1>8. /\ owner'[lock] = NextOwner(lock)
      /\ waiters \in [WaitQueue -> Seq(Task)] /\ IsInjective(waiters[lock])
  BY <1>1, <1>2, <1>7, QueueConstants, MutexCaller DEF MutexInv, MutexState
<1>9. CASE waiters[lock] = << >>
  <2>1. In(lock) = {}
    BY <1>9 DEF In, Range
  <2> QED
    BY <1>5, <1>6, <1>7, <1>8, <1>9, <2>1 DEF NextOwner, In
<1>10. CASE waiters[lock] # << >>
  <2>1. waiters[lock] \in Seq(Task) /\ waiters'[lock] = Tail(waiters[lock])
    BY <1>7, <1>8, <1>10, QueueConstants
  <2>2. Head(waiters[lock]) \in In(lock) /\ In(lock)' = In(lock) \ {Head(waiters[lock])}
    BY <1>8, <1>10, <2>1, PopFacts DEF In
  <2>3. owner'[lock] = Head(waiters[lock])
    BY <1>8, <1>10 DEF NextOwner
  <2> QED
    BY <1>5, <1>6, <1>7, <2>2, <2>3
<1> QED
  BY <1>9, <1>10

(***************************************************************************)
(* Ticks, context switches and the creation of tasks.                      *)
(***************************************************************************)
LEMMA KernelStepEffect ==
    ASSUME OneKernelInv, KernelStep
    PROVE  /\ OneKernelInv'
           /\ \A q \in WaitQueue \ {g_sleep_queue} : In(q)' = In(q)
           /\ In(g_sleep_queue)' \subseteq In(g_sleep_queue)
           /\ UNCHANGED <<owner, count, ringVars, clientVars>>
<1>1. SchedNext /\ UNCHANGED <<mutexVars, count, ringVars, clientVars>>
  BY QueueConstants DEF KernelStep, SchedNext, RunStep
<1>2. MutexInv /\ SemInv /\ OneMutexInv /\ SchedInv /\ SleepersWait
  BY DEF OneKernelInv, OneMutexInv, MutexInv, SemInv
<1>3. OneKernelInv'
  BY <1>1, <1>2, OneSched, SchedKeepsSem DEF OneKernelInv, SemInv
<1>4. \A q \in WaitQueue \ {g_sleep_queue} : In(q)' = In(q)
  BY <1>1, <1>2, SleepStep DEF In
<1>5. UNCHANGED owner
  BY <1>1 DEF mutexVars
<1>6. In(g_sleep_queue)' \subseteq In(g_sleep_queue)
  <2>1. CASE SysTick_Handler
    <3>1. /\ waiters'[g_sleep_queue] = Pick(waiters[g_sleep_queue],
               {i \in DOMAIN waiters[g_sleep_queue] : waiters[g_sleep_queue][i] \notin Woken})
          /\ waiters[g_sleep_queue] \in Seq(Task)
      BY <1>2, <2>1, TickEffect, SchedulerAssumption DEF SchedInv, SchedTypeOK
    <3>2. Range(waiters'[g_sleep_queue]) = {waiters[g_sleep_queue][i] : i \in
               {i \in DOMAIN waiters[g_sleep_queue] : waiters[g_sleep_queue][i] \notin Woken}}
      BY <3>1, PickFacts
    <3> QED
      BY <3>2 DEF In, Range
  <2>2. CASE ~ SysTick_Handler
    <3>1. waiters' = waiters
      BY <2>2 DEF KernelStep, os_kernel_task_create, os_task_create_internal, os_start,
         PendSV_Handler, PendSV_Save, os_commit_switch_demote, os_commit_switch_load,
         os_commit_switch_store, PendSV_Restore, queueVars
    <3> QED
      BY <3>1 DEF In
  <2> QED
    BY <2>1, <2>2
<1> QED
  BY <1>1, <1>3, <1>4, <1>5, <1>6

-----------------------------------------------------------------------------
(* The inductive invariant *)

RingTypes ==
    /\ head \in 0 .. capacity - 1 /\ tail \in 0 .. capacity - 1
    /\ storage \in [0 .. capacity - 1 -> Message \cup {NULL}]
    /\ at \in [Client -> {"take", "lock", "copy", "advance", "unlock", "give"}]
    /\ received \in Message \cup {NULL}

(***************************************************************************)
(* Where the clients are when they wait, and that exactly the client that  *)
(* has passed os_mutex_lock and does not wait for it any more is its       *)
(* owner.                                                                  *)
(***************************************************************************)
Inside(t) == at[t] \in {"copy", "advance", "unlock"} /\ t \notin In(lock)

Places ==
    /\ \A t \in In(spaces) : t \in Sender /\ at[t] = "lock"
    /\ \A t \in In(items) : t \in Receiver /\ at[t] = "lock"
    /\ \A t \in In(lock) : t \in Client /\ at[t] = "copy"
    /\ \A q \in WaitQueue \ {lock, spaces, items} : In(q) = {}
    /\ owner[lock] \in Client \cup {NULL}
    /\ \A t \in Client : owner[lock] = t <=> Inside(t)
    /\ \A t \in Sender : at[t] # "advance"
    /\ \A t \in Receiver : at[t] = "advance" => received = storage[head]

(***************************************************************************)
(* The clients that have a unit; the senders among them that have filled a *)
(* slot, the receivers that have not emptied one yet.                      *)
(***************************************************************************)
Holders == {t \in Client : at[t] # "take" /\ t \notin In(spaces) \cup In(items)}
Putters == {t \in Sender : at[t] \in {"unlock", "give"}}
Getters == {t \in Receiver : at[t] \in {"lock", "copy", "advance"}
                             /\ t \notin In(spaces) \cup In(items)}

Level == count[items] + Cardinality(Putters) + Cardinality(Getters)

\* The slot n after slot i.
Slot(i, n) == IF i + n < capacity THEN i + n ELSE i + n - capacity

QueueInv ==
    /\ OneKernelInv /\ RingTypes /\ Places
    /\ count[spaces] + count[items] + Cardinality(Holders) = capacity
    /\ tail = Slot(head, Level)

(***************************************************************************)
(* A client takes a unit, and has it unless it waits.                      *)
(***************************************************************************)
LEMMA TakePlaces ==
    ASSUME QueueInv, NEW t \in Client, NEW s \in {spaces, items},
           t \in Sender => s = spaces, t \in Receiver => s = items, Take(t, s)
    PROVE  /\ OneKernelInv' /\ RingTypes' /\ Places'
           /\ UNCHANGED ringVars /\ received' = received
           /\ Putters' = Putters
           /\ t \notin Holders /\ t \notin Getters
           /\ \/ /\ count' = [count EXCEPT ![s] = @ - 1] /\ Holders' = Holders \cup {t}
                 /\ Getters' = IF s = items THEN Getters \cup {t} ELSE Getters
              \/ count' = count /\ Holders' = Holders /\ Getters' = Getters
<1>1. /\ OneKernelInv /\ InTask /\ g_current = t /\ at[t] = "take"
      /\ at' = [at EXCEPT ![t] = "lock"] /\ UNCHANGED <<ringVars, received>>
      /\ s \in Semaphore /\ os_kernel_sem_take(s) /\ UNCHANGED mutexVars
      /\ at \in [Client -> {"take", "lock", "copy", "advance", "unlock", "give"}]
  BY QueueConstants DEF Take, Step, QueueInv, RingTypes
<1>2. \A q \in WaitQueue : t \notin In(q)
  BY <1>1, QueueCaller
<1>3. /\ OneKernelInv' /\ owner' = owner /\ \A q \in WaitQueue \ {s} : In(q)' = In(q)
      /\ \/ count' = [count EXCEPT ![s] = @ - 1] /\ In(s)' = In(s)
         \/ count' = count /\ In(s)' = In(s) \cup {t}
  BY <1>1, TakeEffect
<1>4. RingTypes'
  BY <1>1 DEF QueueInv, RingTypes, ringVars
<1> t \in Receiver <=> s = items
  BY QueueConstants DEF Client
<1> t \in Sender <=> s = spaces
  BY QueueConstants DEF Client
<1>5. Places'
  <2>1. /\ \A u \in In(spaces)' : u \in Sender /\ at'[u] = "lock"
        /\ \A u \in In(items)' : u \in Receiver /\ at'[u] = "lock"
    <3>1. /\ \A u \in In(spaces)' : u \in In(spaces) \/ (u = t /\ s = spaces)
          /\ \A u \in In(items)' : u \in In(items) \/ (u = t /\ s = items)
      BY <1>3, QueueConstants
    <3> QED
      BY <1>1, <3>1, QueueConstants DEF QueueInv, Places
  <2>2. In(lock)' = In(lock) /\ \A q \in WaitQueue \ {lock, spaces, items} : In(q)' = {}
    BY <1>3, QueueConstants DEF QueueInv, Places
  <2>3. /\ owner'[lock] \in Client \cup {NULL}
        /\ \A u \in Client : owner'[lock] = u <=> at'[u] \in {"copy", "advance", "unlock"} /\ u \notin In(lock)'
        /\ \A u \in In(lock)' : u \in Client /\ at'[u] = "copy"
    BY <1>1, <1>3, <2>2 DEF QueueInv, Places, Inside
  <2>4. /\ \A u \in Sender : at'[u] # "advance"
        /\ \A u \in Receiver : at'[u] = "advance" => received' = storage'[head']
    BY <1>1, QueueConstants DEF QueueInv, Places, ringVars
  <2> QED
    BY <2>1, <2>2, <2>3, <2>4 DEF Places, Inside
<1>6. Putters' = Putters /\ t \notin Holders /\ t \notin Getters
  BY <1>1, QueueConstants DEF Putters, Holders, Getters
<1>7. CASE count' = [count EXCEPT ![s] = @ - 1] /\ In(s)' = In(s)
  <2>1. In(spaces)' = In(spaces) /\ In(items)' = In(items)
    BY <1>3, <1>7, QueueConstants
  <2>2. Holders' = Holders \cup {t}
    BY <1>1, <1>2, <2>1, QueueConstants DEF Holders
  <2>3. CASE s = items
    <3>1. Getters' = Getters \cup {t}
      BY <1>1, <1>2, <2>1, <2>3, QueueConstants DEF Getters
    <3> QED
      BY <1>1, <1>3, <1>4, <1>5, <1>6, <1>7, <2>2, <2>3, <3>1
  <2>4. CASE s # items
    <3>1. Getters' = Getters
      BY <1>1, <1>2, <2>1, <2>4, QueueConstants DEF Getters
    <3> QED
      BY <1>1, <1>3, <1>4, <1>5, <1>6, <1>7, <2>2, <2>4, <3>1
  <2> QED
    BY <2>3, <2>4
<1>8. CASE count' = count /\ In(s)' = In(s) \cup {t}
  <2>1. In(spaces)' \cup In(items)' = In(spaces) \cup In(items) \cup {t}
    BY <1>3, <1>8, QueueConstants
  <2>2. Holders' = Holders
    BY <1>1, <2>1 DEF Holders
  <2>3. Getters' = Getters
    BY <1>1, <2>1, QueueConstants DEF Getters
  <2> QED
    BY <1>1, <1>3, <1>4, <1>5, <1>6, <1>8, <2>2, <2>3
<1> QED
  BY <1>3, <1>7, <1>8

(***************************************************************************)
(* A client locks, or waits for the lock.                                  *)
(***************************************************************************)
LEMMA LockPlaces ==
    ASSUME QueueInv, NEW t \in Client, Lock(t)
    PROVE  /\ OneKernelInv' /\ RingTypes' /\ Places'
           /\ UNCHANGED <<count, ringVars, received>>
           /\ UNCHANGED <<Holders, Putters, Getters>>
<1>1. /\ OneKernelInv /\ InTask /\ g_current = t /\ at[t] = "lock"
      /\ at' = [at EXCEPT ![t] = "copy"] /\ UNCHANGED <<count, ringVars, received>>
      /\ os_kernel_mutex_lock_free(lock) \/ os_kernel_mutex_lock_contended(lock)
      /\ at \in [Client -> {"take", "lock", "copy", "advance", "unlock", "give"}]
  BY DEF Lock, Step, QueueInv, RingTypes, os_kernel_mutex_lock_free,
     os_kernel_mutex_lock_contended
<1>2. t # NULL /\ \A q \in WaitQueue : t \notin In(q)
  BY <1>1, QueueCaller
<1>3. /\ OneKernelInv' /\ \A q \in WaitQueue \ {lock} : In(q)' = In(q)
      /\ \/ owner[lock] = NULL /\ owner'[lock] = t /\ In(lock)' = In(lock)
         \/ /\ owner[lock] \notin {NULL, t} /\ owner'[lock] = owner[lock]
            /\ In(lock)' = In(lock) \cup {t}
  BY <1>1, LockEffect
<1>4. RingTypes'
  BY <1>1 DEF QueueInv, RingTypes, ringVars
<1>5. In(spaces)' = In(spaces) /\ In(items)' = In(items)
  BY <1>3, QueueConstants
<1>6. Places'
  BY <1>1, <1>2, <1>3, <1>5, QueueConstants DEF QueueInv, Places, Inside, ringVars
<1>7. UNCHANGED <<Holders, Putters, Getters>>
  BY <1>1, <1>5, QueueConstants DEF Holders, Putters, Getters
<1> QED
  BY <1>1, <1>3, <1>4, <1>6, <1>7

(***************************************************************************)
(* A client unlocks; one that waits may be inside from now on.             *)
(***************************************************************************)
LEMMA UnlockPlaces ==
    ASSUME QueueInv, NEW t \in Client, Unlock(t)
    PROVE  /\ OneKernelInv' /\ RingTypes' /\ Places'
           /\ UNCHANGED <<count, ringVars, received>>
           /\ UNCHANGED <<Holders, Putters, Getters>>
<1>1. /\ OneKernelInv /\ InTask /\ g_current = t /\ at[t] = "unlock"
      /\ at' = [at EXCEPT ![t] = "give"] /\ UNCHANGED <<count, ringVars, received>>
      /\ os_kernel_mutex_unlock(lock)
      /\ at \in [Client -> {"take", "lock", "copy", "advance", "unlock", "give"}]
  BY DEF Unlock, Step, QueueInv, RingTypes
<1>2. t # NULL /\ \A q \in WaitQueue : t \notin In(q)
  BY <1>1, QueueCaller
<1>3. /\ OneKernelInv' /\ \A q \in WaitQueue \ {lock} : In(q)' = In(q)
      /\ owner[lock] = t
      /\ \/ owner'[lock] = NULL /\ In(lock)' = In(lock) /\ In(lock) = {}
         \/ \E h \in In(lock) : owner'[lock] = h /\ In(lock)' = In(lock) \ {h}
  BY <1>1, ReleaseEffect
<1>4. RingTypes'
  BY <1>1 DEF QueueInv, RingTypes, ringVars
<1>5. In(spaces)' = In(spaces) /\ In(items)' = In(items)
  BY <1>3, QueueConstants
<1>6. Places'
  <2>1. /\ \A u \in In(spaces)' : u \in Sender /\ at'[u] = "lock"
        /\ \A u \in In(items)' : u \in Receiver /\ at'[u] = "lock"
        /\ \A q \in WaitQueue \ {lock, spaces, items} : In(q)' = {}
        /\ \A u \in Sender : at'[u] # "advance"
        /\ \A u \in Receiver : at'[u] = "advance" => received' = storage'[head']
    BY <1>1, <1>3, <1>5, QueueConstants DEF QueueInv, Places, ringVars
  <2>2. \A u \in In(lock)' : u \in Client /\ at'[u] = "copy"
    BY <1>1, <1>2, <1>3, QueueConstants DEF QueueInv, Places
  <2>3. owner'[lock] \in Client \cup {NULL}
    BY <1>3 DEF QueueInv, Places
  <2>4. ASSUME NEW u \in Client
        PROVE  owner'[lock] = u <=> at'[u] \in {"copy", "advance", "unlock"} /\ u \notin In(lock)'
    <3>1. owner[lock] = u <=> at[u] \in {"copy", "advance", "unlock"} /\ u \notin In(lock)
      BY DEF QueueInv, Places, Inside
    <3>2. u \in In(lock) => at[u] = "copy"
      BY DEF QueueInv, Places
    <3> QED
      BY <1>1, <1>2, <1>3, <3>1, <3>2, QueueConstants
  <2> QED
    BY <2>1, <2>2, <2>3, <2>4 DEF Places, Inside
<1>7. UNCHANGED <<Holders, Putters, Getters>>
  BY <1>1, <1>5, QueueConstants DEF Holders, Putters, Getters
<1> QED
  BY <1>1, <1>3, <1>4, <1>6, <1>7

(***************************************************************************)
(* A client gives its unit to the other semaphore, or to a client that     *)
(* waits there.                                                            *)
(***************************************************************************)
LEMMA GivePlaces ==
    ASSUME QueueInv, NEW t \in Client, NEW s \in {spaces, items},
           t \in Sender => s = items, t \in Receiver => s = spaces, Give(t, s)
    PROVE  /\ OneKernelInv' /\ RingTypes' /\ Places'
           /\ UNCHANGED ringVars /\ received' = received
           /\ Putters' = Putters \ {t} /\ (t \in Putters <=> s = items)
           /\ t \in Holders
           /\ \/ /\ count' = [count EXCEPT ![s] = @ + 1] /\ Holders' = Holders \ {t}
                 /\ Getters' = Getters
              \/ /\ count' = count
                 /\ \E h \in Client \ (Holders \cup Getters) :
                      /\ Holders' = (Holders \ {t}) \cup {h}
                      /\ Getters' = IF s = items THEN Getters \cup {h} ELSE Getters
<1>1. /\ OneKernelInv /\ InTask /\ g_current = t /\ at[t] = "give"
      /\ at' = [at EXCEPT ![t] = "take"] /\ UNCHANGED <<ringVars, received>>
      /\ s \in Semaphore /\ os_kernel_sem_give(s) /\ UNCHANGED mutexVars
      /\ at \in [Client -> {"take", "lock", "copy", "advance", "unlock", "give"}]
  BY QueueConstants DEF Give, Step, QueueInv, RingTypes
<1>2. \A q \in WaitQueue : t \notin In(q)
  BY <1>1, QueueCaller
<1>3. /\ OneKernelInv' /\ owner' = owner /\ \A q \in WaitQueue \ {s} : In(q)' = In(q)
      /\ \/ count' = count /\ \E h \in In(s) : In(s)' = In(s) \ {h}
         \/ count' = [count EXCEPT ![s] = @ + 1] /\ In(s)' = In(s)
  BY <1>1, GiveEffect
<1>4. RingTypes'
  BY <1>1 DEF QueueInv, RingTypes, ringVars
<1> t \in Receiver <=> s = spaces
  BY QueueConstants DEF Client
<1> t \in Sender <=> s = items
  BY QueueConstants DEF Client
<1>5. Places'
  <2>1. /\ \A u \in In(spaces)' : u \in Sender /\ at'[u] = "lock"
        /\ \A u \in In(items)' : u \in Receiver /\ at'[u] = "lock"
    <3>1. In(spaces)' \subseteq In(spaces) /\ In(items)' \subseteq In(items)
      BY <1>3, QueueConstants
    <3> QED
      BY <1>1, <1>2, <3>1, QueueConstants DEF QueueInv, Places
  <2>2. In(lock)' = In(lock) /\ \A q \in WaitQueue \ {lock, spaces, items} : In(q)' = {}
    BY <1>3, QueueConstants DEF QueueInv, Places
  <2>3. /\ owner'[lock] \in Client \cup {NULL}
        /\ \A u \in Client : owner'[lock] = u <=> at'[u] \in {"copy", "advance", "unlock"} /\ u \notin In(lock)'
        /\ \A u \in In(lock)' : u \in Client /\ at'[u] = "copy"
    BY <1>1, <1>3, <2>2 DEF QueueInv, Places, Inside
  <2>4. /\ \A u \in Sender : at'[u] # "advance"
        /\ \A u \in Receiver : at'[u] = "advance" => received' = storage'[head']
    BY <1>1, QueueConstants DEF QueueInv, Places, ringVars
  <2> QED
    BY <2>1, <2>2, <2>3, <2>4 DEF Places, Inside
<1>6. Putters' = Putters \ {t} /\ (t \in Putters <=> s = items) /\ t \in Holders
  BY <1>1, <1>2, QueueConstants DEF Putters, Holders
<1>7. CASE count' = [count EXCEPT ![s] = @ + 1] /\ In(s)' = In(s)
  <2>1. In(spaces)' = In(spaces) /\ In(items)' = In(items)
    BY <1>3, <1>7, QueueConstants
  <2>2. Holders' = Holders \ {t}
    BY <1>1, <2>1, QueueConstants DEF Holders
  <2>3. Getters' = Getters
    BY <1>1, <2>1, QueueConstants DEF Getters
  <2> QED
    BY <1>1, <1>3, <1>4, <1>5, <1>6, <1>7, <2>2, <2>3
<1>8. ASSUME count' = count, NEW h \in In(s), In(s)' = In(s) \ {h}
      PROVE  \E u \in Client \ (Holders \cup Getters) :
                /\ Holders' = (Holders \ {t}) \cup {u}
                /\ Getters' = IF s = items THEN Getters \cup {u} ELSE Getters
  <2>1. h # t /\ at[h] = "lock" /\ h \in Client /\ (h \in Receiver <=> s = items)
    BY <1>2, <1>8, QueueConstants DEF QueueInv, Places
  <2>2. h \in Client \ (Holders \cup Getters)
    BY <1>8, <2>1 DEF Holders, Getters
  <2>3. In(spaces) \cap In(items) = {}
    BY QueueConstants DEF QueueInv, Places
  <2>4. In(spaces)' \cup In(items)' = (In(spaces) \cup In(items)) \ {h}
    BY <1>3, <1>8, <2>3, QueueConstants
  <2>5. Holders' = (Holders \ {t}) \cup {h}
    BY <1>1, <2>1, <2>4 DEF Holders
  <2>6. CASE s = items
    <3>1. Getters' = Getters \cup {h}
      BY <1>1, <2>1, <2>4, <2>6, QueueConstants DEF Getters
    <3> QED
      BY <2>2, <2>5, <2>6, <3>1
  <2>7. CASE s # items
    <3>1. Getters' = Getters
      BY <1>1, <2>1, <2>4, <2>7, QueueConstants DEF Getters
    <3> QED
      BY <2>2, <2>5, <2>7, <3>1
  <2> QED
    BY <2>6, <2>7
<1> QED
  BY <1>1, <1>3, <1>4, <1>5, <1>6, <1>7, <1>8

(***************************************************************************)
(* A client that is past the lock is the only one there.                   *)
(***************************************************************************)
LEMMA AloneInside ==
    ASSUME QueueInv, InTask, NEW t \in Client, g_current = t,
           at[t] \in {"copy", "advance", "unlock"}
    PROVE  /\ \A q \in WaitQueue : t \notin In(q)
           /\ owner[lock] = t
           /\ \A u \in Client \ {t} : at[u] \notin {"advance", "unlock"}
<1>1. \A q \in WaitQueue : t \notin In(q)
  BY QueueCaller DEF QueueInv
<1>2. owner[lock] = t
  BY <1>1, QueueConstants DEF QueueInv, Places, Inside
<1>3. \A u \in Client \ {t} : at[u] \notin {"advance", "unlock"}
  BY <1>2 DEF QueueInv, Places, Inside
<1> QED
  BY <1>1, <1>2, <1>3

(***************************************************************************)
(* The steps of the owner of the lock on the ring leave the kernel alone.  *)
(***************************************************************************)
LEMMA RingKeepsKernel ==
    ASSUME QueueInv, UNCHANGED kernelVars
    PROVE  /\ OneKernelInv' /\ UNCHANGED <<owner, count>> /\ \A q \in WaitQueue : In(q)' = In(q)
<1>1. UNCHANGED schedVars /\ UNCHANGED <<mutexVars, count>>
  BY DEF kernelVars
<1>2. OneMutexInv /\ SemInv /\ OneKernelInv
  BY DEF QueueInv, OneKernelInv, OneMutexInv, MutexInv, SemInv
<1>3. OneKernelInv'
  BY <1>1, <1>2, OneSched, SchedKeepsSem DEF OneKernelInv, SemInv
<1> QED
  BY <1>1, <1>3 DEF mutexVars, schedVars, queueVars, In

(***************************************************************************)
(* A sender fills a slot.                                                  *)
(***************************************************************************)
LEMMA EnqueuePlaces ==
    ASSUME QueueInv, NEW t \in Sender, Enqueue(t)
    PROVE  /\ OneKernelInv' /\ RingTypes' /\ Places' /\ count' = count
           /\ storage' = [storage EXCEPT ![tail] = t] /\ tail' = NextSlot(tail)
           /\ UNCHANGED <<head, received>>
           /\ t \in Holders \ Putters /\ Putters' = Putters \cup {t}
           /\ UNCHANGED <<Holders, Getters>>
<1>1. /\ InTask /\ g_current = t /\ at[t] = "copy" /\ t \in Client
      /\ at' = [at EXCEPT ![t] = "unlock"] /\ UNCHANGED <<kernelVars, head, received>>
      /\ storage' = [storage EXCEPT ![tail] = t] /\ tail' = NextSlot(tail)
      /\ RingTypes
  BY QueueConstants DEF Enqueue, Step, QueueInv
<1>2. /\ \A q \in WaitQueue : t \notin In(q)
      /\ owner[lock] = t
      /\ \A u \in Client \ {t} : at[u] \notin {"advance", "unlock"}
  BY <1>1, AloneInside
<1>3. /\ OneKernelInv' /\ UNCHANGED <<owner, count>> /\ \A q \in WaitQueue : In(q)' = In(q)
  BY <1>1, RingKeepsKernel
<1>4. RingTypes'
  BY <1>1, QueueConstants DEF RingTypes, NextSlot, Message
<1>5. In(spaces)' = In(spaces) /\ In(items)' = In(items) /\ In(lock)' = In(lock)
  BY <1>3, QueueConstants
<1>6. Places'
  BY <1>1, <1>2, <1>3, <1>5, QueueConstants DEF QueueInv, RingTypes, Places, Inside
<1>7. t \in Holders \ Putters /\ Putters' = Putters \cup {t} /\ UNCHANGED <<Holders, Getters>>
  BY <1>1, <1>2, <1>5, QueueConstants DEF RingTypes, Holders, Putters, Getters
<1> QED
  BY <1>1, <1>3, <1>4, <1>6, <1>7

(***************************************************************************)
(* A receiver copies the message at head.                                  *)
(***************************************************************************)
LEMMA CopyPlaces ==
    ASSUME QueueInv, NEW t \in Receiver, DequeueCopy(t)
    PROVE  /\ OneKernelInv' /\ RingTypes' /\ Places' /\ count' = count
           /\ UNCHANGED ringVars /\ received' = storage[head]
           /\ t \in Getters
           /\ UNCHANGED <<Holders, Putters, Getters>>
<1>1. /\ InTask /\ g_current = t /\ at[t] = "copy" /\ t \in Client
      /\ at' = [at EXCEPT ![t] = "advance"] /\ UNCHANGED <<kernelVars, ringVars>>
      /\ received' = storage[head] /\ RingTypes
  BY QueueConstants DEF DequeueCopy, Step, QueueInv
<1>2. /\ \A q \in WaitQueue : t \notin In(q)
      /\ owner[lock] = t
      /\ \A u \in Client \ {t} : at[u] \notin {"advance", "unlock"}
  BY <1>1, AloneInside
<1>3. /\ OneKernelInv' /\ UNCHANGED <<owner, count>> /\ \A q \in WaitQueue : In(q)' = In(q)
  BY <1>1, RingKeepsKernel
<1>4. RingTypes'
  BY <1>1, QueueConstants DEF RingTypes, ringVars
<1>5. In(spaces)' = In(spaces) /\ In(items)' = In(items) /\ In(lock)' = In(lock)
  BY <1>3, QueueConstants
<1>6. Places'
  BY <1>1, <1>2, <1>3, <1>5, QueueConstants DEF QueueInv, RingTypes, Places, Inside, ringVars
<1>7. t \in Getters /\ UNCHANGED <<Holders, Putters, Getters>>
  BY <1>1, <1>2, <1>5, QueueConstants DEF RingTypes, Holders, Putters, Getters
<1> QED
  BY <1>1, <1>3, <1>4, <1>6, <1>7

(***************************************************************************)
(* The receiver gives the slot up.                                         *)
(***************************************************************************)
LEMMA AdvancePlaces ==
    ASSUME QueueInv, NEW t \in Receiver, DequeueAdvance(t)
    PROVE  /\ OneKernelInv' /\ RingTypes' /\ Places' /\ count' = count
           /\ UNCHANGED <<tail, storage, received>> /\ head' = NextSlot(head)
           /\ received = storage[head]
           /\ t \in Getters /\ Getters' = Getters \ {t}
           /\ UNCHANGED <<Holders, Putters>>
<1>1. /\ InTask /\ g_current = t /\ at[t] = "advance" /\ t \in Client
      /\ at' = [at EXCEPT ![t] = "unlock"] /\ UNCHANGED <<kernelVars, tail, storage, received>>
      /\ head' = NextSlot(head) /\ RingTypes
  BY QueueConstants DEF DequeueAdvance, Step, QueueInv
<1>2. /\ \A q \in WaitQueue : t \notin In(q)
      /\ owner[lock] = t
      /\ \A u \in Client \ {t} : at[u] \notin {"advance", "unlock"}
  BY <1>1, AloneInside
<1>3. /\ OneKernelInv' /\ UNCHANGED <<owner, count>> /\ \A q \in WaitQueue : In(q)' = In(q)
  BY <1>1, RingKeepsKernel
<1>4. RingTypes' /\ received = storage[head]
  BY <1>1, QueueConstants DEF QueueInv, Places, RingTypes, NextSlot
<1>5. In(spaces)' = In(spaces) /\ In(items)' = In(items) /\ In(lock)' = In(lock)
  BY <1>3, QueueConstants
<1>6. Places'
  BY <1>1, <1>2, <1>3, <1>5, QueueConstants DEF QueueInv, RingTypes, Places, Inside
<1>7. t \in Getters /\ Getters' = Getters \ {t} /\ UNCHANGED <<Holders, Putters>>
  BY <1>1, <1>2, <1>5, QueueConstants DEF RingTypes, Holders, Putters, Getters
<1> QED
  BY <1>1, <1>3, <1>4, <1>6, <1>7

(***************************************************************************)
(* Exceptions and the creation of tasks change nothing of this.            *)
(***************************************************************************)
LEMMA KernelPlaces ==
    ASSUME QueueInv, KernelStep \/ UNCHANGED queueSysVars
    PROVE  /\ OneKernelInv' /\ RingTypes' /\ Places'
           /\ UNCHANGED <<count, ringVars, received>>
           /\ UNCHANGED <<Holders, Putters, Getters>>
<1>1. /\ OneKernelInv' /\ \A q \in WaitQueue \ {g_sleep_queue} : In(q)' = In(q)
      /\ In(g_sleep_queue)' \subseteq In(g_sleep_queue)
      /\ UNCHANGED <<owner, count, ringVars, clientVars>>
  BY KernelStepEffect, RingKeepsKernel, SchedulerAssumption DEF QueueInv, queueSysVars
<1>2. In(spaces)' = In(spaces) /\ In(items)' = In(items) /\ In(lock)' = In(lock)
  BY <1>1, QueueConstants
<1>3. \A q \in WaitQueue \ {lock, spaces, items} : In(q)' = {}
  BY <1>1 DEF QueueInv, Places
<1>4. RingTypes'
  BY <1>1 DEF QueueInv, RingTypes, ringVars, clientVars
<1>5. Places'
  BY <1>1, <1>2, <1>3 DEF QueueInv, Places, Inside, ringVars, clientVars
<1>6. UNCHANGED <<Holders, Putters, Getters>>
  BY <1>1, <1>2 DEF Holders, Putters, Getters, clientVars
<1> QED
  BY <1>1, <1>4, <1>5, <1>6 DEF clientVars

-----------------------------------------------------------------------------
(* Counting units *)

(***************************************************************************)
(* The units of Putters and Getters are in use for filled slots; a client  *)
(* with any other unit has a slot to itself that is not filled.            *)
(***************************************************************************)
LEMMA LevelFacts ==
    ASSUME QueueInv
    PROVE  /\ IsFiniteSet(Holders) /\ IsFiniteSet(Putters) /\ IsFiniteSet(Getters)
           /\ Cardinality(Holders) \in Nat
           /\ Cardinality(Putters) \in Nat /\ Cardinality(Getters) \in Nat
           /\ count \in [Semaphore -> Nat] /\ count[spaces] \in Nat /\ count[items] \in Nat
           /\ Level \in 0 .. capacity
           /\ \A t \in Getters : Level >= 1
           /\ \A t \in Holders \ (Putters \cup Getters) : Level < capacity
<1>1. Holders \subseteq Client /\ Putters \subseteq Client /\ Getters \subseteq Client
  BY QueueConstants DEF Holders, Putters, Getters
<1>2. /\ IsFiniteSet(Holders) /\ IsFiniteSet(Putters) /\ IsFiniteSet(Getters)
      /\ Cardinality(Holders) \in Nat
      /\ Cardinality(Putters) \in Nat /\ Cardinality(Getters) \in Nat
  BY <1>1, QueueConstants, FS_Subset, FS_CardinalityType
<1>3. /\ count \in [Semaphore -> Nat] /\ count[spaces] \in Nat /\ count[items] \in Nat
  <2>1. count \in [Semaphore -> 0 .. MaxCount]
    BY DEF QueueInv, OneKernelInv, SemState
  <2> QED
    BY <2>1, QueueConstants
<1> DEFINE both == Putters \cup Getters
<1>4. Putters \cap Getters = {} /\ both \subseteq Holders
  <2>1. Putters \cap Getters = {}
    BY QueueConstants DEF Putters, Getters
  <2>2. \A t \in Putters : t \in Holders
    BY QueueConstants DEF Putters, Holders, QueueInv, Places
  <2>3. \A t \in Getters : t \in Holders
    BY QueueConstants DEF Getters, Holders
  <2> QED
    BY <2>1, <2>2, <2>3
<1>5. IsFiniteSet(both) /\ Cardinality(both) = Cardinality(Putters) + Cardinality(Getters)
  <2>1. IsFiniteSet(both) /\ Cardinality(both)
          = Cardinality(Putters) + Cardinality(Getters) - Cardinality(Putters \cap Getters)
    BY <1>2, FS_Union
  <2>2. Cardinality(Putters \cap Getters) = 0
    BY <1>4, FS_EmptySet
  <2> QED
    BY <1>2, <2>1, <2>2
<1>6. Cardinality(both) <= Cardinality(Holders)
  BY <1>2, <1>4, FS_Subset
<1>7. ASSUME NEW t \in Getters
      PROVE  Cardinality(Getters) >= 1
  BY <1>2, FS_EmptySet
<1>8. ASSUME NEW t \in Holders \ both
      PROVE  Cardinality(both) + 1 <= Cardinality(Holders)
  <2>1. both \cup {t} \subseteq Holders /\ Cardinality(both \cup {t}) = Cardinality(both) + 1
    BY <1>4, <1>5, FS_AddElement
  <2> QED
    BY <1>2, <2>1, FS_Subset
<1>9. count[spaces] + count[items] + Cardinality(Holders) = capacity
  BY DEF QueueInv
<1> HIDE DEF both
<1>10. Level \in 0 .. capacity
  BY <1>2, <1>3, <1>5, <1>6, <1>9, QueueConstants DEF Level
<1>11. \A t \in Getters : Level >= 1
  BY <1>2, <1>3, <1>7 DEF Level
<1>12. \A t \in Holders \ both : Level < capacity
  BY <1>2, <1>3, <1>5, <1>8, <1>9, QueueConstants DEF Level
<1> QED
  BY <1>2, <1>3, <1>10, <1>11, <1>12 DEF both

\* What a step may do to the ring and the message copied out last.
RingKept == UNCHANGED <<ringVars, received>> /\ Level' = Level
RingPut(t) ==
    /\ Level < capacity /\ Level' = Level + 1
    /\ storage' = [storage EXCEPT ![tail] = t] /\ tail' = NextSlot(tail)
    /\ UNCHANGED <<head, received>>
RingCopy ==
    /\ Level >= 1 /\ Level' = Level
    /\ received' = storage[head] /\ UNCHANGED ringVars
RingRemove ==
    /\ Level >= 1 /\ Level' = Level - 1
    /\ received = storage[head] /\ head' = NextSlot(head)
    /\ UNCHANGED <<tail, storage, received>>

UnitsKept ==
    count'[spaces] + count'[items] + Cardinality(Holders') = capacity

(***************************************************************************)
(* Steps that neither fill nor empty a slot, nor move a unit.              *)
(***************************************************************************)
LEMMA SameUnits ==
    ASSUME QueueInv, UNCHANGED count, UNCHANGED <<Holders, Putters, Getters>>
    PROVE  UnitsKept /\ Level' = Level
  BY DEF QueueInv, UnitsKept, Level

(***************************************************************************)
(* os_sem_take moves a unit from the count to the client; if that is a     *)
(* receiver, the unit goes on to stand for a filled slot.                  *)
(***************************************************************************)
LEMMA TakeUnits ==
    ASSUME QueueInv, NEW t \in Client, NEW s \in {spaces, items},
           t \in Sender => s = spaces, t \in Receiver => s = items, Take(t, s)
    PROVE  UnitsKept /\ RingKept
<1>1. /\ UNCHANGED ringVars /\ received' = received
      /\ Putters' = Putters /\ t \notin Holders /\ t \notin Getters
      /\ \/ /\ count' = [count EXCEPT ![s] = @ - 1] /\ Holders' = Holders \cup {t}
            /\ Getters' = IF s = items THEN Getters \cup {t} ELSE Getters
         \/ count' = count /\ Holders' = Holders /\ Getters' = Getters
  BY TakePlaces
<1>2. /\ IsFiniteSet(Holders) /\ IsFiniteSet(Getters)
      /\ Cardinality(Holders) \in Nat /\ Cardinality(Getters) \in Nat /\ Cardinality(Putters) \in Nat
      /\ count \in [Semaphore -> Nat] /\ count[spaces] \in Nat /\ count[items] \in Nat
      /\ count[spaces] + count[items] + Cardinality(Holders) = capacity
  BY LevelFacts DEF QueueInv
<1>3. /\ Cardinality(Holders \cup {t}) = Cardinality(Holders) + 1
      /\ Cardinality(Getters \cup {t}) = Cardinality(Getters) + 1
  BY <1>1, <1>2, FS_AddElement
<1>4. CASE count' = count /\ Holders' = Holders /\ Getters' = Getters
  BY <1>1, <1>4, SameUnits DEF RingKept
<1>5. CASE /\ count' = [count EXCEPT ![s] = @ - 1] /\ Holders' = Holders \cup {t}
           /\ Getters' = IF s = items THEN Getters \cup {t} ELSE Getters
  <2>1. CASE s = items
    <3>1. count'[items] = count[items] - 1 /\ count'[spaces] = count[spaces]
      BY <1>2, <1>5, <2>1, QueueConstants
    <3>2. Cardinality(Holders') = Cardinality(Holders) + 1
      BY <1>3, <1>5
    <3>3. Cardinality(Getters') = Cardinality(Getters) + 1
      BY <1>3, <1>5, <2>1
    <3>4. Level' = Level
      BY <1>1, <1>2, <3>1, <3>3 DEF Level
    <3>5. UnitsKept
      BY <1>2, <3>1, <3>2, QueueConstants DEF UnitsKept
    <3> QED
      BY <1>1, <3>4, <3>5 DEF RingKept
  <2>2. CASE s = spaces
    <3>1. count'[spaces] = count[spaces] - 1 /\ count'[items] = count[items]
      BY <1>2, <1>5, <2>2, QueueConstants
    <3>2. Cardinality(Holders') = Cardinality(Holders) + 1 /\ Getters' = Getters
      BY <1>3, <1>5, <2>2, QueueConstants
    <3>3. Level' = Level
      BY <1>1, <1>2, <3>1, <3>2 DEF Level
    <3>4. UnitsKept
      BY <1>2, <3>1, <3>2, QueueConstants DEF UnitsKept
    <3> QED
      BY <1>1, <3>3, <3>4 DEF RingKept
  <2> QED
    BY <2>1, <2>2
<1> QED
  BY <1>1, <1>4, <1>5

(***************************************************************************)
(* os_sem_give moves a unit from the client to the count or to a waiter.   *)
(***************************************************************************)
LEMMA GiveUnits ==
    ASSUME QueueInv, NEW t \in Client, NEW s \in {spaces, items},
           t \in Sender => s = items, t \in Receiver => s = spaces, Give(t, s)
    PROVE  UnitsKept /\ RingKept
<1> DEFINE toCount == /\ count' = [count EXCEPT ![s] = @ + 1] /\ Holders' = Holders \ {t}
                      /\ Getters' = Getters
           toTask(h) == /\ Holders' = (Holders \ {t}) \cup {h}
                        /\ Getters' = IF s = items THEN Getters \cup {h} ELSE Getters
<1>1. /\ UNCHANGED ringVars /\ received' = received
      /\ Putters' = Putters \ {t} /\ (t \in Putters <=> s = items) /\ t \in Holders
      /\ \/ toCount
         \/ count' = count /\ \E h \in Client \ (Holders \cup Getters) : toTask(h)
  BY GivePlaces
<1>2. /\ IsFiniteSet(Holders) /\ IsFiniteSet(Getters) /\ IsFiniteSet(Putters)
      /\ Cardinality(Holders) \in Nat /\ Cardinality(Getters) \in Nat /\ Cardinality(Putters) \in Nat
      /\ count \in [Semaphore -> Nat] /\ count[spaces] \in Nat /\ count[items] \in Nat
      /\ count[spaces] + count[items] + Cardinality(Holders) = capacity
  BY LevelFacts DEF QueueInv
<1>3. /\ IsFiniteSet(Holders \ {t}) /\ Cardinality(Holders \ {t}) = Cardinality(Holders) - 1
      /\ Cardinality(Putters') = IF s = items THEN Cardinality(Putters) - 1 ELSE Cardinality(Putters)
  BY <1>1, <1>2, FS_RemoveElement
<1>4. CASE toCount
  <2>1. /\ count'[items] = IF s = items THEN count[items] + 1 ELSE count[items]
        /\ count'[spaces] = IF s = items THEN count[spaces] ELSE count[spaces] + 1
    BY <1>2, <1>4, QueueConstants
  <2>2. Cardinality(Holders') = Cardinality(Holders) - 1
    BY <1>3, <1>4
  <2>3. Level' = Level
    BY <1>2, <1>3, <1>4, <2>1 DEF Level
  <2>4. UnitsKept
    BY <1>2, <2>1, <2>2, QueueConstants DEF UnitsKept
  <2> QED
    BY <1>1, <2>3, <2>4 DEF RingKept
<1>5. ASSUME count' = count, NEW h \in Client \ (Holders \cup Getters), toTask(h)
      PROVE  UnitsKept /\ RingKept
  <2>1. /\ Cardinality((Holders \ {t}) \cup {h}) = Cardinality(Holders \ {t}) + 1
        /\ Cardinality(Getters \cup {h}) = Cardinality(Getters) + 1
    BY <1>2, <1>3, FS_AddElement
  <2>2. Cardinality(Holders') = Cardinality(Holders)
    BY <1>2, <1>3, <1>5, <2>1
  <2>3. Cardinality(Getters') = IF s = items THEN Cardinality(Getters) + 1 ELSE Cardinality(Getters)
    BY <1>5, <2>1
  <2>4. Level' = Level
    BY <1>2, <1>3, <1>5, <2>3 DEF Level
  <2>5. UnitsKept
    BY <1>2, <1>5, <2>2, QueueConstants DEF UnitsKept
  <2> QED
    BY <1>1, <2>4, <2>5 DEF RingKept
<1> HIDE DEF toCount, toTask
<1> QED
  BY <1>1, <1>4, <1>5

(***************************************************************************)
(* Every step, as far as the units and the ring are concerned.             *)
(***************************************************************************)
LEMMA QueueStep ==
    ASSUME QueueInv, [QueueSysNext]_queueSysVars
    PROVE  /\ OneKernelInv' /\ RingTypes' /\ Places' /\ UnitsKept
           /\ RingKept \/ RingCopy \/ RingRemove \/ \E t \in Sender : RingPut(t)
<1> DEFINE Goal == /\ OneKernelInv' /\ RingTypes' /\ Places' /\ UnitsKept
                   /\ RingKept \/ RingCopy \/ RingRemove \/ \E t \in Sender : RingPut(t)
<1>1. ASSUME KernelStep \/ UNCHANGED queueSysVars
      PROVE  Goal
  BY <1>1, KernelPlaces, SameUnits DEF RingKept
<1>2. ASSUME NEW t \in Client, NEW s \in {spaces, items},
             t \in Sender => s = spaces, t \in Receiver => s = items, Take(t, s)
      PROVE  Goal
  BY <1>2, TakePlaces, TakeUnits
<1>3. ASSUME NEW t \in Client, Lock(t)
      PROVE  Goal
  BY <1>3, LockPlaces, SameUnits DEF RingKept
<1>4. ASSUME NEW t \in Client, Unlock(t)
      PROVE  Goal
  BY <1>4, UnlockPlaces, SameUnits DEF RingKept
<1>5. ASSUME NEW t \in Client, NEW s \in {spaces, items},
             t \in Sender => s = items, t \in Receiver => s = spaces, Give(t, s)
      PROVE  Goal
  BY <1>5, GivePlaces, GiveUnits
<1>6. ASSUME NEW t \in Sender, Enqueue(t)
      PROVE  Goal
  <2>1. /\ OneKernelInv' /\ RingTypes' /\ Places' /\ count' = count
        /\ storage' = [storage EXCEPT ![tail] = t] /\ tail' = NextSlot(tail)
        /\ UNCHANGED <<head, received>>
        /\ t \in Holders \ Putters /\ Putters' = Putters \cup {t}
        /\ UNCHANGED <<Holders, Getters>>
    BY <1>6, EnqueuePlaces
  <2>2. t \notin Getters
    BY QueueConstants DEF Getters
  <2>3. /\ Level < capacity /\ count[items] \in Nat /\ IsFiniteSet(Putters)
        /\ Cardinality(Putters) \in Nat /\ Cardinality(Getters) \in Nat
    BY <2>1, <2>2, LevelFacts
  <2>4. Cardinality(Putters') = Cardinality(Putters) + 1
    BY <2>1, <2>3, FS_AddElement
  <2>5. Level' = Level + 1
    BY <2>1, <2>3, <2>4 DEF Level
  <2>6. UnitsKept
    BY <2>1 DEF QueueInv, UnitsKept
  <2> QED
    BY <2>1, <2>3, <2>5, <2>6 DEF RingPut
<1>7. ASSUME NEW t \in Receiver, DequeueCopy(t)
      PROVE  Goal
  BY <1>7, CopyPlaces, SameUnits, LevelFacts DEF RingCopy
<1>8. ASSUME NEW t \in Receiver, DequeueAdvance(t)
      PROVE  Goal
  <2>1. /\ OneKernelInv' /\ RingTypes' /\ Places' /\ count' = count
        /\ UNCHANGED <<tail, storage, received>> /\ head' = NextSlot(head)
        /\ received = storage[head]
        /\ t \in Getters /\ Getters' = Getters \ {t}
        /\ UNCHANGED <<Holders, Putters>>
    BY <1>8, AdvancePlaces
  <2>2. /\ Level >= 1 /\ count[items] \in Nat /\ IsFiniteSet(Getters)
        /\ Cardinality(Putters) \in Nat /\ Cardinality(Getters) \in Nat
    BY <2>1, LevelFacts
  <2>3. Cardinality(Getters') = Cardinality(Getters) - 1
    BY <2>1, <2>2, FS_RemoveElement
  <2>4. Level' = Level - 1
    BY <2>1, <2>2, <2>3 DEF Level
  <2>5. UnitsKept
    BY <2>1 DEF QueueInv, UnitsKept
  <2> QED
    BY <2>1, <2>2, <2>4, <2>5 DEF RingRemove
<1> HIDE DEF Goal
<1>9. ASSUME NEW t \in Sender, os_queue_send(t)
      PROVE  Goal
  BY <1>2, <1>3, <1>4, <1>5, <1>6, <1>9, QueueConstants DEF os_queue_send
<1>10. ASSUME NEW t \in Receiver, os_queue_recv(t)
      PROVE  Goal
  BY <1>2, <1>3, <1>4, <1>5, <1>7, <1>8, <1>10, QueueConstants DEF os_queue_recv
<1>11. Goal
  BY <1>1, <1>9, <1>10 DEF QueueSysNext, ClientStep
<1> QED
  BY <1>11 DEF Goal

-----------------------------------------------------------------------------
(* The theorems *)

(***************************************************************************)
(* Slots follow one another round the ring.                                *)
(***************************************************************************)
LEMMA NextSlots ==
    ASSUME NEW i \in 0 .. capacity - 1, NEW n \in 0 .. capacity
    PROVE  /\ Slot(i, n) \in 0 .. capacity - 1
           /\ (i + n) % capacity = Slot(i, n)
           /\ n < capacity => NextSlot(Slot(i, n)) = Slot(i, n + 1)
           /\ n >= 1 => Slot(NextSlot(i), n - 1) = Slot(i, n)
<1>1. capacity \in Nat /\ capacity >= 1
  BY QueueConstants
<1>2. (i + n) % capacity = Slot(i, n)
  <2>1. CASE i + n < capacity
    BY <1>1, <2>1 DEF Slot
  <2>2. CASE i + n >= capacity
    <3>1. i + n = (i + n - capacity) + capacity * 1 /\ i + n - capacity \in 0 .. capacity - 1
      BY <1>1, <2>2
    <3> QED
      BY <1>1, <2>2, <3>1 DEF Slot
  <2> QED
    BY <1>1, <2>1, <2>2
<1> QED
  BY <1>1, <1>2 DEF Slot, NextSlot

(***************************************************************************)
(* os_queue_init establishes the invariant.                                *)
(***************************************************************************)
LEMMA QueueInit == QueueSysInit => QueueInv
<1> SUFFICES ASSUME QueueSysInit
             PROVE  QueueInv
  OBVIOUS
<1>1. /\ SchedInit /\ MutexInit /\ head = 0 /\ tail = 0 /\ received = NULL
      /\ storage = [i \in 0 .. capacity - 1 |-> NULL]
      /\ count = [s \in Semaphore |-> IF s = spaces THEN capacity ELSE 0]
      /\ at = [t \in Client |-> "take"]
  BY DEF QueueSysInit, os_queue_init
<1>2. \A q \in WaitQueue : waiters[q] = << >> /\ In(q) = {}
  BY <1>1 DEF SchedInit, In, Range
<1>3. OneKernelInv
  <2>1. count \in [Semaphore -> 0 .. MaxCount]
    BY <1>1, QueueConstants
  <2>2. NoLostWakeup
    BY <1>2, QueueConstants DEF NoLostWakeup
  <2> QED
    BY <1>1, <2>1, <2>2, OneMutexInit DEF OneKernelInv, SemState
<1>4. RingTypes
  BY <1>1, QueueConstants DEF RingTypes
<1>5. Places
  BY <1>1, <1>2, QueueConstants DEF Places, Inside, MutexInit
<1>6. Holders = {} /\ Putters = {} /\ Getters = {}
  BY <1>1, QueueConstants DEF Holders, Putters, Getters
<1>7. Cardinality(Holders) = 0 /\ Cardinality(Putters) = 0 /\ Cardinality(Getters) = 0
  BY <1>6, FS_EmptySet
<1>8. count[spaces] = capacity /\ count[items] = 0
  BY <1>1, QueueConstants
<1>9. Level = 0
  BY <1>7, <1>8 DEF Level
<1>10. tail = Slot(head, Level)
  BY <1>1, <1>9, QueueConstants DEF Slot
<1> QED
  BY <1>3, <1>4, <1>5, <1>7, <1>8, <1>10, QueueConstants DEF QueueInv

(***************************************************************************)
(* Every step keeps the indices in agreement with the units.               *)
(***************************************************************************)
LEMMA QueueStepInv ==
    ASSUME QueueInv, [QueueSysNext]_queueSysVars
    PROVE  QueueInv'
<1>1. /\ OneKernelInv' /\ RingTypes' /\ Places' /\ UnitsKept
      /\ RingKept \/ RingCopy \/ RingRemove \/ \E t \in Sender : RingPut(t)
  BY QueueStep
<1>2. /\ tail = Slot(head, Level) /\ head \in 0 .. capacity - 1 /\ Level \in 0 .. capacity
  BY LevelFacts DEF QueueInv, RingTypes
<1>3. tail' = Slot(head', Level')
  <2>1. CASE RingKept \/ RingCopy
    BY <1>2, <2>1 DEF RingKept, RingCopy, ringVars
  <2>2. CASE RingRemove
    <3>1. Level >= 1 /\ Level' = Level - 1 /\ head' = NextSlot(head) /\ tail' = tail
      BY <2>2 DEF RingRemove
    <3> QED
      BY <1>2, <3>1, NextSlots
  <2>3. ASSUME NEW t \in Sender, RingPut(t)
        PROVE  tail' = Slot(head', Level')
    <3>1. Level < capacity /\ Level' = Level + 1 /\ head' = head /\ tail' = NextSlot(tail)
      BY <2>3 DEF RingPut
    <3> QED
      BY <1>2, <3>1, NextSlots
  <2> QED
    BY <1>1, <2>1, <2>2, <2>3
<1>4. (count[spaces] + count[items] + Cardinality(Holders) = capacity)'
  BY <1>1 DEF UnitsKept
<1>5. (tail = Slot(head, Level))'
  BY <1>3 DEF Slot
<1> QED
  BY <1>1, <1>4, <1>5 DEF QueueInv

(***************************************************************************)
(* The inductive invariant of queue.c on the kernel.                       *)
(***************************************************************************)
THEOREM QueueInvariant == QueueSpec => []QueueInv
  BY QueueInit, QueueStepInv, PTL DEF QueueSpec

(***************************************************************************)
(* The state of the queue, its clients and the kernel keeps its types.     *)
(***************************************************************************)
THEOREM QueueTypeCorrect == QueueSpec => []QueueTypeOK
<1>1. QueueInv => QueueTypeOK
  BY DEF QueueInv, OneKernelInv, OneMutexInv, MutexInv, MutexState, SchedInv, SemState,
     RingTypes, QueueTypeOK, MutexTypeOK, SemTypeOK
<1> QED
  BY <1>1, QueueInvariant, PTL

(***************************************************************************)
(* Who waits for a semaphore, in terms of its wait queue.                  *)
(***************************************************************************)
LEMMA WaitingIn ==
    ASSUME QueueInv
    PROVE  \A t \in Client : Waiting(t) <=> t \in In(spaces) \cup In(items)
  BY QueueConstants DEF QueueInv, OneKernelInv, OneMutexInv, MutexInv, SchedInv, QueueDiscipline,
     Waiting, In

(***************************************************************************)
(* The number of messages, in terms of the wait queues.                    *)
(***************************************************************************)
LEMMA FilledIs ==
    ASSUME QueueInv
    PROVE  /\ Filled = Level
           /\ {t \in Client : at[t] # "take" /\ ~ Waiting(t)} = Holders
<1>1. {t \in Client : at[t] # "take" /\ ~ Waiting(t)} = Holders
  BY WaitingIn DEF Holders
<1>2. {t \in Receiver : at[t] \in {"lock", "copy", "advance"} /\ ~ Waiting(t)} = Getters
  BY WaitingIn, QueueConstants DEF Getters
<1> QED
  BY <1>1, <1>2 DEF Filled, Level, Putters

(***************************************************************************)
(* No unit is lost or doubled: one for each slot, in a semaphore or with a *)
(* client between take and give.                                           *)
(***************************************************************************)
THEOREM UnitsConservedHolds == QueueSpec => []UnitsConserved
<1>1. QueueInv => UnitsConserved
  BY FilledIs DEF QueueInv, UnitsConserved
<1> QED
  BY <1>1, QueueInvariant, PTL

(***************************************************************************)
(* Whoever works on the ring owns the lock.                                *)
(***************************************************************************)
THEOREM LockHeldInsideHolds == QueueSpec => []LockHeldInside
<1>1. QueueInv => LockHeldInside
  <2> SUFFICES ASSUME QueueInv, NEW t \in Client, Ready(t),
                      at[t] \in {"copy", "advance", "unlock"}
               PROVE  owner[lock] = t
    BY DEF LockHeldInside
  <2>1. t \notin In(lock)
    BY QueueConstants DEF QueueInv, OneKernelInv, OneMutexInv, MutexInv, SchedInv,
       QueueDiscipline, In, Ready, Blocked
  <2> QED
    BY <2>1 DEF QueueInv, Places, Inside
<1> QED
  BY <1>1, QueueInvariant, PTL

(***************************************************************************)
(* If there are both senders and receivers, they never all wait: the owner *)
(* of the lock does not, and the units of the queue cannot all be where    *)
(* nobody takes them from.                                                 *)
(***************************************************************************)
THEOREM SomeClientReadyHolds ==
    ASSUME Sender # {}, Receiver # {}
    PROVE  QueueSpec => []SomeClientReady
<1>1. QueueInv => SomeClientReady
  <2> SUFFICES ASSUME QueueInv, \A t \in Client : Created(t), \A t \in Client : ~ Ready(t)
               PROVE  FALSE
    BY DEF SomeClientReady
  <2>1. /\ state \in [Task -> {"none", "READY", "RUNNING", "BLOCKED"}]
        /\ wait_queue \in [Task -> WaitQueue \cup {NULL}]
        /\ \A q \in WaitQueue : In(q) = {t \in Task : Blocked(t) /\ wait_queue[t] = q}
        /\ \A t \in Task : Blocked(t) <=> wait_queue[t] # NULL
    BY DEF QueueInv, OneKernelInv, OneMutexInv, MutexInv, SchedInv, SchedTypeOK, QueueDiscipline,
       In
  <2>2. \A t \in Client : Blocked(t) /\ wait_queue[t] \in WaitQueue
    BY <2>1, QueueConstants DEF Created, Ready, Blocked
  <2>3. \A t \in Client : t \in In(lock) \cup In(spaces) \cup In(items)
    BY <2>1, <2>2, QueueConstants DEF QueueInv, Places
  <2>4. In(lock) = {}
    <3> SUFFICES ASSUME NEW t \in In(lock)
                 PROVE  FALSE
      OBVIOUS
    <3>1. waiters[lock] # << >>
      BY DEF In, Range
    <3>2. owner[lock] \in Task /\ owner[lock] \notin In(lock)
      BY <3>1, QueueConstants DEF QueueInv, OneKernelInv, OneMutexInv, MutexInv, MutexState,
         WaitersHaveOwner, In
    <3>3. owner[lock] \in Client /\ at[owner[lock]] \in {"copy", "advance", "unlock"}
      BY <3>2, QueueConstants DEF QueueInv, Places, Inside
    <3>4. owner[lock] \in In(spaces) \cup In(items)
      BY <2>3, <3>2, <3>3
    <3> QED
      BY <3>3, <3>4 DEF QueueInv, Places
  <2>5. Holders = {}
    BY <2>3, <2>4 DEF Holders
  <2>6. Cardinality(Holders) = 0
    BY <2>5, FS_EmptySet
  <2>7. count[spaces] \in Nat /\ count[items] \in Nat /\ count[spaces] + count[items] = capacity
    BY <2>6, LevelFacts DEF QueueInv
  <2>8. count[spaces] # 0 \/ count[items] # 0
    BY <2>7, QueueConstants
  <2>9. In(spaces) # {} /\ In(items) # {}
    BY <2>3, <2>4, QueueConstants DEF QueueInv, Places
  <2>10. waiters[spaces] # << >> /\ waiters[items] # << >>
    BY <2>9 DEF In, Range
  <2> QED
    BY <2>8, <2>10, QueueConstants DEF QueueInv, OneKernelInv, SemState, NoLostWakeup
<1> QED
  BY <1>1, QueueInvariant, PTL

-----------------------------------------------------------------------------
(* queue.c implements a bounded FIFO *)

Ring == [n \in 1 .. Level |-> storage[Slot(head, n - 1)]]

\* The refinement mapping without modular arithmetic.
RingAgrees == InRing = Ring /\ Level \in 0 .. capacity /\ RingTypes

(***************************************************************************)
(* The messages between head and tail are those of the mapping.            *)
(***************************************************************************)
LEMMA InRingIs == QueueInv => RingAgrees
<1> SUFFICES ASSUME QueueInv
             PROVE  InRing = Ring /\ Level \in 0 .. capacity /\ RingTypes
  BY DEF RingAgrees
<1>1. Filled = Level /\ Level \in 0 .. capacity /\ head \in 0 .. capacity - 1 /\ RingTypes
  BY FilledIs, LevelFacts DEF QueueInv, RingTypes
<1>2. ASSUME NEW n \in 1 .. Level
      PROVE  (head + n - 1) % capacity = Slot(head, n - 1)
  <2>1. n - 1 \in 0 .. capacity /\ head + n - 1 = head + (n - 1)
    BY <1>1, QueueConstants
  <2> QED
    BY <1>1, <2>1, NextSlots
<1>3. InRing = Ring
  BY <1>1, <1>2 DEF InRing, Ring
<1> QED
  BY <1>1, <1>3

(***************************************************************************)
(* The same after a step.                                                  *)
(***************************************************************************)
LEMMA InRingNext == QueueInv' => RingAgrees'
  BY InRingIs, PTL

(***************************************************************************)
(* The ring as a sequence: filling the slot at tail appends, giving up the *)
(* slot at head removes the first message.                                 *)
(***************************************************************************)
LEMMA RingSequence ==
    ASSUME RingTypes, Level \in 0 .. capacity
    PROVE  /\ Ring \in Seq(Message \cup {NULL}) /\ Len(Ring) = Level
           /\ Level >= 1 => Ring # << >> /\ Head(Ring) = storage[head]
<1>1. ASSUME NEW n \in 1 .. Level
      PROVE  storage[Slot(head, n - 1)] \in Message \cup {NULL}
  <2>1. n - 1 \in 0 .. capacity /\ head \in 0 .. capacity - 1
    BY QueueConstants DEF RingTypes
  <2>2. Slot(head, n - 1) \in 0 .. capacity - 1
    BY <2>1, NextSlots
  <2> QED
    BY <2>2 DEF RingTypes
<1>2. Ring \in [1 .. Level -> Message \cup {NULL}] /\ Level \in Nat
  BY <1>1, QueueConstants DEF Ring
<1>3. Ring \in Seq(Message \cup {NULL}) /\ Len(Ring) = Level
  BY <1>2
<1>4. ASSUME Level >= 1
      PROVE  Ring # << >> /\ Head(Ring) = storage[head]
  <2>1. Ring # << >> /\ Head(Ring) = Ring[1]
    BY <1>3, <1>4
  <2>2. Ring[1] = storage[Slot(head, 0)]
    BY <1>2, <1>4 DEF Ring
  <2>3. Slot(head, 0) = head
    BY QueueConstants DEF RingTypes, Slot
  <2> QED
    BY <2>1, <2>2, <2>3
<1> QED
  BY <1>3, <1>4

(***************************************************************************)
(* A sequence that goes on where another ends is the other with one more   *)
(* element.                                                                *)
(***************************************************************************)
LEMMA IsAppend ==
    ASSUME NEW S, NEW s \in Seq(S), NEW u \in Seq(S), NEW e \in S,
           Len(u) = Len(s) + 1, u[Len(s) + 1] = e,
           \A n \in 1 .. Len(s) : u[n] = s[n]
    PROVE  u = Append(s, e)
<1>1. /\ Append(s, e) \in Seq(S) /\ Len(Append(s, e)) = Len(s) + 1
      /\ \A n \in 1 .. Len(s) : Append(s, e)[n] = s[n]
      /\ Append(s, e)[Len(s) + 1] = e
  BY AppendProperties
<1>2. ASSUME NEW n \in 1 .. Len(u)
      PROVE  u[n] = Append(s, e)[n]
  <2>1. n \in 1 .. Len(s) \/ n = Len(s) + 1
    BY LenProperties
  <2> QED
    BY <1>1, <2>1
<1> QED
  BY <1>1, <1>2, SeqEqual

(***************************************************************************)
(* A sequence that starts at the second element of another is its tail.    *)
(***************************************************************************)
LEMMA IsTail ==
    ASSUME NEW S, NEW s \in Seq(S), NEW u \in Seq(S), s # << >>,
           Len(u) = Len(s) - 1,
           \A n \in 1 .. Len(s) - 1 : u[n] = s[n + 1]
    PROVE  u = Tail(s)
<1>1. /\ Tail(s) \in Seq(S) /\ Len(Tail(s)) = Len(s) - 1
      /\ \A n \in 1 .. Len(Tail(s)) : Tail(s)[n] = s[n + 1]
  BY HeadTailProperties
<1>2. \A n \in 1 .. Len(u) : u[n] = Tail(s)[n]
  BY <1>1
<1> QED
  BY <1>1, <1>2, SeqEqual

(***************************************************************************)
(* Between head and tail is a sequence of Level messages.                  *)
(***************************************************************************)
RingIsSeq == Ring \in Seq(Message \cup {NULL}) /\ Len(Ring) = Level

LEMMA RingIsSeqNow == QueueInv => RingIsSeq
  BY InRingIs, RingSequence DEF RingAgrees, RingIsSeq

(***************************************************************************)
(* The same after a step.                                                  *)
(***************************************************************************)
LEMMA RingIsSeqNext == QueueInv' => RingIsSeq'
  BY RingIsSeqNow, PTL

(***************************************************************************)
(* The steps of the ring are those of the FIFO.                            *)
(***************************************************************************)
LEMMA RingSteps ==
    ASSUME QueueInv, QueueInv'
    PROVE  /\ RingKept => UNCHANGED <<InRing, received>>
           /\ \A t \in Sender : RingPut(t) => FIFO!Put(t)
           /\ RingCopy => FIFO!Copy
           /\ RingRemove => FIFO!Remove
<1>1. /\ InRing = Ring /\ Level \in 0 .. capacity /\ RingTypes /\ tail = Slot(head, Level)
      /\ capacity \in Nat /\ capacity >= 1 /\ head \in 0 .. capacity - 1
      /\ storage \in [0 .. capacity - 1 -> Message \cup {NULL}]
  BY InRingIs, QueueConstants DEF RingAgrees, QueueInv, RingTypes
<1>2. /\ InRing' = Ring' /\ Level' \in 0 .. capacity /\ RingTypes'
  BY InRingNext DEF RingAgrees
<1>3. Ring \in Seq(Message \cup {NULL}) /\ Len(Ring) = Level
      /\ (Level >= 1 => Ring # << >> /\ Head(Ring) = storage[head])
  BY <1>1, RingSequence
<1>4. ASSUME UNCHANGED ringVars, Level' = Level
      PROVE  InRing' = InRing
  BY <1>1, <1>2, <1>4 DEF Ring, Slot, ringVars
<1>5. RingKept => UNCHANGED <<InRing, received>>
  BY <1>4 DEF RingKept
<1>6. RingCopy => FIFO!Copy
  BY <1>1, <1>3, <1>4 DEF RingCopy, FIFO!Copy
<1>7. ASSUME NEW t \in Sender, RingPut(t)
      PROVE  FIFO!Put(t)
  <2>1. /\ Level < capacity /\ Level' = Level + 1
        /\ storage' = [storage EXCEPT ![tail] = t] /\ head' = head /\ received' = received
    BY <1>7 DEF RingPut
  <2>2. tail \in 0 .. capacity - 1
    BY <1>1 DEF RingTypes
  <2>3. \A n \in 1 .. Level : Slot(head, n - 1) \in 0 .. capacity - 1 /\ Slot(head, n - 1) # tail
    BY <1>1, <2>1 DEF Slot
  <2>4. Ring' = [n \in 1 .. Level + 1 |-> storage'[Slot(head, n - 1)]]
    BY <2>1 DEF Ring, Slot
  <2>5. \A n \in 1 .. Level : Ring'[n] = Ring[n]
    BY <1>1, <2>1, <2>2, <2>3, <2>4 DEF Ring
  <2>6. Ring'[Level + 1] = t
    <3>1. Slot(head, (Level + 1) - 1) = tail
      BY <1>1 DEF Slot
    <3> QED
      BY <1>1, <2>1, <2>2, <2>4, <3>1
  <2>7. Ring' \in Seq(Message \cup {NULL}) /\ Len(Ring') = Len(Ring) + 1
    BY <1>3, <2>1, RingIsSeqNext DEF RingIsSeq
  <2>8. Ring' = Append(Ring, t)
    <3>1. t \in Message \cup {NULL}
      BY DEF Message
    <3>2. Ring'[Len(Ring) + 1] = t /\ \A n \in 1 .. Len(Ring) : Ring'[n] = Ring[n]
      BY <1>3, <2>5, <2>6
    <3> QED
      BY <1>3, <2>7, <3>1, <3>2, IsAppend
  <2> QED
    BY <1>1, <1>2, <1>3, <2>1, <2>8 DEF FIFO!Put
<1>8. RingRemove => FIFO!Remove
  <2> SUFFICES ASSUME RingRemove
               PROVE  FIFO!Remove
    OBVIOUS
  <2>1. /\ Level >= 1 /\ Level' = Level - 1 /\ head' = NextSlot(head)
        /\ storage' = storage /\ received' = received /\ received = storage[head]
    BY DEF RingRemove
  <2>2. ASSUME NEW n \in 1 .. Level - 1
        PROVE  Slot(head', n - 1) = Slot(head, (n + 1) - 1)
    <3>1. n \in 0 .. capacity /\ n >= 1 /\ (n + 1) - 1 = n
      BY <1>1
    <3> QED
      BY <1>1, <2>1, <3>1, NextSlots
  <2>3. Ring' = [n \in 1 .. Level - 1 |-> storage[Slot(head', n - 1)]]
    BY <2>1 DEF Ring, Slot
  <2>4. ASSUME NEW n \in 1 .. Level - 1
        PROVE  Ring'[n] = Ring[n + 1]
    <3>1. n + 1 \in 1 .. Level
      BY <1>1
    <3>2. Ring[n + 1] = storage[Slot(head, (n + 1) - 1)]
      BY <3>1 DEF Ring
    <3>3. Ring'[n] = storage[Slot(head', n - 1)]
      BY <2>3
    <3> QED
      BY <2>2, <3>2, <3>3
  <2>5. Ring' \in Seq(Message \cup {NULL}) /\ Len(Ring') = Len(Ring) - 1
    BY <1>3, <2>1, RingIsSeqNext DEF RingIsSeq
  <2>6. Ring' = Tail(Ring)
    <3>1. Ring # << >> /\ \A n \in 1 .. Len(Ring) - 1 : Ring'[n] = Ring[n + 1]
      BY <1>3, <2>1, <2>4
    <3> QED
      BY <1>3, <2>5, <3>1, IsTail
  <2> QED
    BY <1>1, <1>2, <1>3, <2>1, <2>6 DEF FIFO!Remove
<1> QED
  BY <1>5, <1>6, <1>7, <1>8

(***************************************************************************)
(* queue.c implements a bounded FIFO, for any number of senders and        *)
(* receivers and wherever they are preempted.                              *)
(***************************************************************************)
THEOREM QueueRefinement == QueueSpec => MessagesInOrder
<1>1. QueueSysInit => FIFO!FIFOInit
  <2> SUFFICES ASSUME QueueSysInit
               PROVE  InRing = << >>
    BY DEF FIFO!FIFOInit
  <2>1. QueueInv /\ RingAgrees
    BY QueueInit, InRingIs
  <2>2. at = [t \in Client |-> "take"] /\ count[items] = 0
    BY QueueConstants DEF QueueSysInit, os_queue_init
  <2>3. Putters = {} /\ Getters = {}
    BY <2>2, QueueConstants DEF Putters, Getters
  <2>4. Cardinality(Putters) = 0 /\ Cardinality(Getters) = 0
    BY <2>3, FS_EmptySet
  <2>5. Level = 0
    BY <2>2, <2>4 DEF Level
  <2>6. Ring \in Seq(Message \cup {NULL}) /\ Len(Ring) = 0
    BY <2>1, <2>5, RingSequence DEF RingAgrees
  <2> QED
    BY <2>1, <2>6 DEF RingAgrees
<1>2. QueueInv /\ [QueueSysNext]_queueSysVars => [FIFO!FIFONext]_<<InRing, received>>
  <2> SUFFICES ASSUME QueueInv, [QueueSysNext]_queueSysVars
               PROVE  [FIFO!FIFONext]_<<InRing, received>>
    OBVIOUS
  <2>1. QueueInv'
    BY QueueStepInv
  <2>2. RingKept \/ RingCopy \/ RingRemove \/ \E t \in Sender : RingPut(t)
    BY QueueStep
  <2>3. \/ UNCHANGED <<InRing, received>>
        \/ FIFO!Copy \/ FIFO!Remove \/ \E t \in Message : FIFO!Put(t)
    BY <2>1, <2>2, RingSteps DEF Message
  <2> QED
    BY <2>3 DEF FIFO!FIFONext
<1> QED
  BY <1>1, <1>2, QueueInvariant, PTL DEF QueueSpec, MessagesInOrder, FIFO!FIFOSpec

(***************************************************************************)
(* queue.c uses the kernel through its system calls only: what a client    *)
(* does is a call of its mutex or of its semaphores, or leaves the kernel  *)
(* alone.  With the two arguments that os_queue_init gives to os_sem_init  *)
(* among the initial counts, whatever KernelSpec guarantees therefore      *)
(* holds below the queue as well.                                          *)
(***************************************************************************)
THEOREM QueueImplementsKernel ==
    ASSUME {0, capacity} \subseteq InitialCounts
    PROVE  QueueSpec => KernelSpec
<1>1. QueueSysInit => KernelInit
  <2> SUFFICES ASSUME QueueSysInit
               PROVE  SchedInit /\ MutexInit /\ count \in [Semaphore -> InitialCounts]
    BY DEF KernelInit, SemInit
  <2> QED
    BY DEF QueueSysInit, os_queue_init
<1>2. [QueueSysNext]_queueSysVars => [KernelNext]_kernelVars
  <2> SUFFICES ASSUME [QueueSysNext]_queueSysVars
               PROVE  KernelNext \/ UNCHANGED kernelVars
    OBVIOUS
  <2>1. ASSUME NEW t, NEW s \in Semaphore, Take(t, s) \/ Give(t, s)
        PROVE  KernelNext
    BY <2>1 DEF Take, Give, SemStep, KernelNext
  <2>2. ASSUME NEW t, Lock(t) \/ Unlock(t)
        PROVE  KernelNext
    BY <2>2, QueueConstants DEF Lock, Unlock, MutexStep, KernelNext
  <2>3. ASSUME NEW t, Enqueue(t) \/ DequeueCopy(t) \/ DequeueAdvance(t)
        PROVE  UNCHANGED kernelVars
    BY <2>3 DEF Enqueue, DequeueCopy, DequeueAdvance
  <2>4. CASE ClientStep
    BY <2>1, <2>2, <2>3, <2>4, QueueConstants DEF ClientStep, os_queue_send, os_queue_recv
  <2>5. CASE KernelStep
    <3>1. SchedNext
      BY <2>5, QueueConstants DEF KernelStep, SchedNext, RunStep
    <3> QED
      BY <2>5, <3>1 DEF KernelStep, KernelNext
  <2>6. CASE UNCHANGED queueSysVars
    BY <2>6 DEF queueSysVars
  <2> QED
    BY <2>4, <2>5, <2>6 DEF QueueSysNext
<1> QED
  BY <1>1, <1>2, PTL DEF QueueSpec, KernelSpec
=============================================================================
