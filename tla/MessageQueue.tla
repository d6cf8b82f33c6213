---------------------------- MODULE MessageQueue ----------------------------
(***************************************************************************)
(* kernel/queue.c: the blocking queue of any number of senders and         *)
(* receivers, a ring buffer with a mutex and two semaphores, on the        *)
(* kernel.  os_queue_send and os_queue_recv run in the tasks: every system *)
(* call and every access to the ring is a step, and a tick or a context    *)
(* switch may come between any two of them.                                *)
(*                                                                         *)
(* What a sender does to the ring is one step, and so is os_memcpy: they   *)
(* are preemptible, but only the owner of the lock gets there              *)
(* (LockHeldInside).  The error returns are left out: take and give fail   *)
(* for a NULL argument only, lock and unlock for a caller that already is, *)
(* or is not, the owner.                                                   *)
(***************************************************************************)
EXTENDS Kernel

CONSTANTS
    Sender, Receiver,       \* tasks that send, or receive, over and over
    lock, spaces, items,    \* fields of os_queue_t
    capacity

ASSUME MessageQueueAssumption ==
    /\ Sender \cup Receiver = Task \ {Idle} /\ Sender \cap Receiver = {}
    /\ Mutex = {lock} /\ Semaphore = {spaces, items} /\ spaces # items
    /\ lock \notin Semaphore
    /\ capacity \in Nat \ {0} /\ capacity < MaxCount

VARIABLES
    head, tail, storage,
    at,         \* per task: its place in os_queue_send or os_queue_recv
    received    \* the message copied out last, by whichever receiver

ringVars == <<head, tail, storage>>
clientVars == <<at, received>>
queueSysVars == <<kernelVars, ringVars, clientVars>>

Client == Sender \cup Receiver
Message == Sender       \* a message is known by its sender

QueueTypeOK ==
    /\ MutexTypeOK /\ SemTypeOK
    /\ head \in 0 .. capacity - 1 /\ tail \in 0 .. capacity - 1
    /\ storage \in [0 .. capacity - 1 -> Message \cup {NULL}]
    /\ at \in [Client -> {"take", "lock", "copy", "advance", "unlock", "give"}]
    /\ received \in Message \cup {NULL}

os_queue_init ==
    /\ head = 0 /\ tail = 0
    /\ storage = [i \in 0 .. capacity - 1 |-> NULL]
    /\ MutexInit
    /\ count = [s \in Semaphore |-> IF s = spaces THEN capacity ELSE 0]

QueueSysInit ==
    /\ SchedInit /\ os_queue_init
    /\ at = [t \in Client |-> "take"]
    /\ received = NULL

\* Mutant: the wrap is missed.
NextSlot_late(i) == IF i = capacity THEN 0 ELSE i + 1

NextSlot(i) == IF i + 1 = capacity THEN 0 ELSE i + 1

\* The task that executes goes from one place to the next.
Step(t, from, to) ==
    /\ InTask /\ g_current = t
    /\ at[t] = from
    /\ at' = [at EXCEPT ![t] = to]

-----------------------------------------------------------------------------
(* Steps that os_queue_send and os_queue_recv share *)

Take(t, s) ==
    /\ Step(t, "take", "lock")
    /\ os_kernel_sem_take(s)
    /\ UNCHANGED <<mutexVars, ringVars, received>>

\* Mutant: no lock.
Lock_none(t) ==
    /\ Step(t, "lock", "copy")
    /\ UNCHANGED <<kernelVars, ringVars, received>>

Lock(t) ==
    /\ Step(t, "lock", "copy")
    /\ os_kernel_mutex_lock_free(lock) \/ os_kernel_mutex_lock_contended(lock)
    /\ UNCHANGED <<count, ringVars, received>>

Unlock(t) ==
    /\ Step(t, "unlock", "give")
    /\ os_kernel_mutex_unlock(lock)
    /\ UNCHANGED <<count, ringVars, received>>

\* Mutants: to the semaphore it was taken from; not at all.
Give_back(t, s) ==
    /\ Step(t, "give", "take")
    /\ os_kernel_sem_give(IF s = items THEN spaces ELSE items)
    /\ UNCHANGED <<mutexVars, ringVars, received>>
Give_none(t, s) ==
    /\ Step(t, "give", "take")
    /\ UNCHANGED <<kernelVars, ringVars, received>>

Give(t, s) ==
    /\ Step(t, "give", "take")
    /\ os_kernel_sem_give(s)
    /\ UNCHANGED <<mutexVars, ringVars, received>>

-----------------------------------------------------------------------------
Enqueue(t) ==
    /\ Step(t, "copy", "unlock")
    /\ storage' = [storage EXCEPT ![tail] = t]
    /\ tail' = NextSlot(tail)
    /\ UNCHANGED <<kernelVars, head, received>>

DequeueCopy(t) ==
    /\ Step(t, "copy", "advance")
    /\ received' = storage[head]
    /\ UNCHANGED <<kernelVars, ringVars>>

DequeueAdvance(t) ==
    /\ Step(t, "advance", "unlock")
    /\ head' = NextSlot(head)
    /\ UNCHANGED <<kernelVars, tail, storage, received>>

os_queue_send(t) ==
    Take(t, spaces) \/ Lock(t) \/ Enqueue(t) \/ Unlock(t) \/ Give(t, items)

os_queue_recv(t) ==
    Take(t, items) \/ Lock(t) \/ DequeueCopy(t) \/ DequeueAdvance(t) \/ Unlock(t) \/ Give(t, spaces)

ClientStep ==
    (\E t \in Sender : os_queue_send(t)) \/ (\E t \in Receiver : os_queue_recv(t))

(***************************************************************************)
(* os_app_main creates the clients, in any order and of any priorities but *)
(* that of the idle task.                                                  *)
(***************************************************************************)
KernelStep ==
    /\ \/ \E t \in Client, p \in Priority \ {OS_TASK_IDLE} :
              /\ pc = "boot"
              /\ os_kernel_task_create(t, p)
       \/ (\A t \in Client : Created(t)) /\ os_start
       \/ SysTick_Handler
       \/ PendSV_Handler
    /\ UNCHANGED <<mutexVars, count, ringVars, clientVars>>

QueueSysNext == ClientStep \/ KernelStep

QueueSpec == QueueSysInit /\ [][QueueSysNext]_queueSysVars

-----------------------------------------------------------------------------
(* Properties *)

Waiting(t) == wait_queue[t] \in {spaces, items}

(***************************************************************************)
(* The messages in the ring: those counted by items, and those of clients  *)
(* between a semaphore and the ring.                                       *)
(***************************************************************************)
Filled ==
    count[items]
    + Cardinality({t \in Sender : at[t] \in {"unlock", "give"}})
    + Cardinality({t \in Receiver : at[t] \in {"lock", "copy", "advance"} /\ ~ Waiting(t)})

InRing == [n \in 1 .. Filled |-> storage[(head + n - 1) % capacity]]

(***************************************************************************)
(* queue.c implements a bounded FIFO, whatever the priorities of its       *)
(* clients: the indices never disagree with the semaphores, even though    *)
(* the order in which units are taken is not the order in which the lock   *)
(* is.                                                                     *)
(***************************************************************************)
FIFO == INSTANCE BoundedFIFO WITH
    Capacity <- capacity, buffer <- InRing, out <- received

MessagesInOrder == FIFO!FIFOSpec

(***************************************************************************)
(* Units are conserved: one for each slot, counted by one of the           *)
(* semaphores or in the hands of one client that is between take and give. *)
(***************************************************************************)
UnitsConserved ==
    count[spaces] + count[items]
    + Cardinality({t \in Client : at[t] # "take" /\ ~ Waiting(t)}) = capacity

(***************************************************************************)
(* Whoever has passed os_mutex_lock and does not wait any more owns the    *)
(* lock, although the call blocks and the ownership is given by another.   *)
(***************************************************************************)
LockHeldInside ==
    \A t \in Client :
        at[t] \in {"copy", "advance", "unlock"} /\ Ready(t) => owner[lock] = t

(***************************************************************************)
(* Senders and receivers never all wait for one another.                   *)
(***************************************************************************)
SomeClientReady == (\A t \in Client : Created(t)) => \E t \in Client : Ready(t)
=============================================================================
