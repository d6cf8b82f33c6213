-------------------------------- MODULE Mutex --------------------------------
(***************************************************************************)
(* kernel/mutex.c: mutexes with priority inheritance, on the scheduler.    *)
(*                                                                         *)
(* A mutex's waiters list is the wait queue of the same name.  The mutexes *)
(* a task owns form a singly linked list: owned_mutexes in the TCB, then   *)
(* next_mutex in each mutex, so a mutex can be on one list at a time.      *)
(*                                                                         *)
(* os_task_block_locked only makes PendSV pending: it returns, and         *)
(* os_kernel_mutex_lock runs to its end within the same SVC.  What the     *)
(* code says happens when the "task is no longer blocked" is therefore     *)
(* part of the action that blocks it.                                      *)
(***************************************************************************)
EXTENDS Scheduler

CONSTANTS
    Mutex,
    MaxHeld     \* how many mutexes a task of the application holds at a time

ASSUME MutexAssumption ==
    /\ Mutex \subseteq WaitQueue \ {g_sleep_queue}
    /\ IsFiniteSet(Mutex)
    /\ MaxHeld \in Nat

VARIABLES
    owner,
    next_mutex,
    owned_mutexes, blocked_on      \* fields of the TCB

mutexVars == <<owner, next_mutex, owned_mutexes, blocked_on>>
mutexSysVars == <<schedVars, mutexVars>>

MutexOrNull == Mutex \cup {NULL}

MutexTypeOK ==
    /\ SchedTypeOK
    /\ owner \in [Mutex -> TaskOrNull]
    /\ next_mutex \in [Mutex -> MutexOrNull]
    /\ owned_mutexes \in [Task -> MutexOrNull]
    /\ blocked_on \in [Task -> MutexOrNull]

(***************************************************************************)
(* os_mutex_init, called for every mutex before the scheduler starts.  It  *)
(* leaves next_mutex alone, which is written before it is first read.      *)
(***************************************************************************)
MutexInit ==
    /\ owner = [m \in Mutex |-> NULL]
    /\ next_mutex = [m \in Mutex |-> NULL]
    /\ owned_mutexes = [t \in Task |-> NULL]
    /\ blocked_on = [t \in Task |-> NULL]

Held(t) == {m \in Mutex : owner[m] = t}

-----------------------------------------------------------------------------
(* The list of owned mutexes *)

(***************************************************************************)
(* The n-th pointer met when following next from first, NULL once the end  *)
(* is reached.  A walk of more than |Mutex| steps goes round a cycle.      *)
(***************************************************************************)
Walk(first, next) ==
    LET at[n \in Nat] == IF n = 0 THEN first
                         ELSE IF at[n - 1] = NULL THEN NULL ELSE next[at[n - 1]]
    IN  [n \in 0 .. Cardinality(Mutex) |-> at[n]]

OnList(first, next) == Range(Walk(first, next)) \ {NULL}
Cyclic(first, next) == NULL \notin Range(Walk(first, next))

os_mutex_add_to_owned(t, m) ==
    /\ next_mutex' = [next_mutex EXCEPT ![m] = owned_mutexes[t]]
    /\ owned_mutexes' = [owned_mutexes EXCEPT ![t] = m]

(***************************************************************************)
(* The two pointer maps after os_mutex_remove_from_owned(t, m).           *)
(***************************************************************************)
RemoveLoops(t, m) ==
    Cyclic(owned_mutexes[t], next_mutex) /\ m \notin OnList(owned_mutexes[t], next_mutex)

\* Mutant: the mutex is not unlinked.
os_mutex_remove_from_owned_none(t, m) == [owned |-> owned_mutexes, next |-> next_mutex]

os_mutex_remove_from_owned(t, m) ==
    LET walk == Walk(owned_mutexes[t], next_mutex)
        first(n) == walk[n] = m /\ \A k \in 0 .. n - 1 : walk[k] # m
        before == {walk[n - 1] : n \in {k \in DOMAIN walk \ {0} : first(k)}}
        cleared == [next_mutex EXCEPT ![m] = NULL]
    IN  IF m \notin OnList(owned_mutexes[t], next_mutex)
          THEN [owned |-> owned_mutexes, next |-> next_mutex]
        ELSE IF owned_mutexes[t] = m
          THEN [owned |-> [owned_mutexes EXCEPT ![t] = next_mutex[m]], next |-> cleared]
        ELSE [owned |-> owned_mutexes,
              next |-> [k \in Mutex |-> IF k \in before THEN next_mutex[m] ELSE cleared[k]]]

\* Mutant: the inherited priority is kept.
os_mutex_recompute_priority_keep(t, list) == priority[t]

os_mutex_recompute_priority(t, list) ==
    LET urgent == {priority[Head(waiters[m])] : m \in {k \in list : waiters[k] # << >>}}
                    \cup {base_priority[t]}
    IN  CHOOSE p \in urgent : \A q \in urgent : p <= q

-----------------------------------------------------------------------------
(***************************************************************************)
(* The tasks that the inheritance loop raises to the priority of the       *)
(* current task: the owner, and as long as the task raised is itself       *)
(* blocked_on a mutex, that mutex's owner.                                 *)
(***************************************************************************)
\* Mutants: no inheritance; only an owner that is ready inherits.
Raised_none(m) == {}
Raised_ready(m) ==
    {o \in Task : o = owner[m] /\ ~ Blocked(o) /\ priority[g_current] < priority[o]}

Raised(m) ==
    LET outranked(o) == o # NULL /\ priority[g_current] < priority[o]
        chain[n \in Nat] ==
            IF n = 0 THEN owner[m]
            ELSE LET o == chain[n - 1]
                 IN  IF outranked(o) /\ Blocked(o) /\ blocked_on[o] # NULL
                       THEN owner[blocked_on[o]] ELSE NULL
    IN  {o \in Task : outranked(o) /\ \E n \in 0 .. Cardinality(Task) : chain[n] = o}

(***************************************************************************)
(* A free mutex is taken.  (One the caller owns already makes the call     *)
(* return -1 with nothing changed.)                                        *)
(***************************************************************************)
os_kernel_mutex_lock_free(m) ==
    /\ InTask
    /\ Cardinality(Held(g_current)) < MaxHeld
    /\ owner[m] = NULL
    /\ owner' = [owner EXCEPT ![m] = g_current]
    /\ os_mutex_add_to_owned(g_current, m)
    /\ UNCHANGED <<blocked_on, schedVars>>

(***************************************************************************)
(* A mutex of another task: inheritance, then the caller blocks, and       *)
(* already links the mutex into its own list.  At most one raised task is  *)
(* ready, the last of the chain.                                           *)
(***************************************************************************)
os_kernel_mutex_lock_contended(m) ==
    LET me == g_current
        raised == Raised(m)
        ready == {o \in raised : ~ Blocked(o)}
        prio == [t \in Task |-> IF t \in raised THEN priority[me] ELSE priority[t]]
        rd == IF ready = {} THEN g_priorities
              ELSE SetPriorityReady(g_priorities, CHOOSE o \in ready : TRUE, priority[me])
        raisedIn(q) == {o \in raised : Blocked(o) /\ wait_queue[o] = q}
        wt == [q \in WaitQueue |->
                 IF raisedIn(q) = {} THEN waiters[q]
                 ELSE SetPriorityWaiting(waiters, CHOOSE o \in raisedIn(q) : TRUE, prio)[q]]
    IN  /\ InTask
        /\ Cardinality(Held(me)) < MaxHeld
        /\ owner[m] \notin {NULL, me}
        /\ priority' = prio
        /\ os_task_block_locked(m, OS_WAIT_FOREVER, TRUE, rd, wt, prio)
        /\ blocked_on' = [blocked_on EXCEPT ![me] = NULL]
        /\ os_mutex_add_to_owned(me, m)
        /\ UNCHANGED <<owner, base_priority, switchVars, g_tick>>

(***************************************************************************)
(* Ownership passes to the task that os_task_wake_one_locked returns.      *)
(***************************************************************************)
\* Mutants: the woken task is not made the owner; the last waiter is.
NextOwner_free(m) == NULL
NextOwner_last(m) ==
    IF waiters[m] # << >> THEN waiters[m][Len(waiters[m])] ELSE NULL

NextOwner(m) == IF waiters[m] # << >> THEN Head(waiters[m]) ELSE NULL

(***************************************************************************)
(* Unlock by the owner (any other caller gets -1).  A walk of a cyclic     *)
(* list never ends, with interrupts masked: the system is hung.            *)
(***************************************************************************)
os_kernel_mutex_unlock(m) ==
    LET me == g_current
        removed == os_mutex_remove_from_owned(me, m)
        p == os_mutex_recompute_priority(me, OnList(removed.owned[me], removed.next))
        prio == [priority EXCEPT ![me] = p]
        rd == SetPriorityReady(g_priorities, me, p)
        loops == RemoveLoops(me, m) \/ Cyclic(removed.owned[me], removed.next)
    IN  /\ InTask
        /\ owner[m] = me
        /\ IF loops
             THEN /\ pc' = "hung"
                  /\ UNCHANGED <<mutexVars, tcbVars, queueVars, sp, g_current,
                                 g_first_switch, psp, r_next, g_next, g_tick, pendsv>>
             ELSE /\ owned_mutexes' = removed.owned
                  /\ next_mutex' = removed.next
                  /\ priority' = prio
                  /\ owner' = [owner EXCEPT ![m] = NextOwner(m)]
                  /\ IF waiters[m] # << >>
                       THEN os_task_wake_one_locked(m, rd, prio)
                       ELSE /\ g_priorities' = rd
                            /\ UNCHANGED <<state, wait_queue, wake_tick, waiters,
                                           g_timeout_queue, g_next, pendsv>>
                  /\ UNCHANGED <<blocked_on, base_priority, switchVars, g_tick>>

MutexStep(m) ==
    \/ os_kernel_mutex_lock_free(m)
    \/ os_kernel_mutex_lock_contended(m)
    \/ os_kernel_mutex_unlock(m)

MutexSysInit == SchedInit /\ MutexInit

MutexSysNext ==
    \/ SchedNext /\ UNCHANGED mutexVars
    \/ \E m \in Mutex : MutexStep(m)

MutexSpec == MutexSysInit /\ [][MutexSysNext]_mutexSysVars

-----------------------------------------------------------------------------
(* Properties *)

(***************************************************************************)
(* Hand-over: a mutex with waiters has an owner, which is not one of them; *)
(* os_task_wake_one_locked and the assignment of the owner leave no mutex  *)
(* whose waiters nobody will wake.                                         *)
(***************************************************************************)
WaitersHaveOwner ==
    \A m \in Mutex : waiters[m] # << >> =>
        owner[m] \in Task /\ owner[m] \notin Range(waiters[m])

(***************************************************************************)
(* task.h: owned_mutexes is the "pointer to the mutexes that this task     *)
(* owns": for a task that can run, the list holds the mutexes it owns and  *)
(* no other.                                                               *)
(***************************************************************************)
OwnedListExact ==
    \A t \in Task : Ready(t) =>
        /\ ~ Cyclic(owned_mutexes[t], next_mutex)
        /\ OnList(owned_mutexes[t], next_mutex) = Held(t)

(***************************************************************************)
(* Inheritance is exact: a task runs at the most urgent of its base        *)
(* priority and the priorities of those who wait for its mutexes; nothing  *)
(* is left over from mutexes it has released.                              *)
(***************************************************************************)
Inherited(t) ==
    UNION {{priority[w] : w \in Range(waiters[m])} : m \in Held(t)}

InheritanceExact ==
    \A t \in Task : Created(t) =>
        /\ priority[t] \in Inherited(t) \cup {base_priority[t]}
        /\ \A p \in Inherited(t) \cup {base_priority[t]} : priority[t] <= p

(***************************************************************************)
(* mutex.c: "go through chain of blocked tasks to update each priority":   *)
(* whoever makes a task wait, directly or through a chain of mutexes, is   *)
(* at least as urgent as that task.                                        *)
(***************************************************************************)
ChainInheritance ==
    \A m \in Mutex : \A w \in Range(waiters[m]) :
        owner[m] # NULL => priority[owner[m]] <= priority[w]

(***************************************************************************)
(* The order in which os_kernel_mutex_unlock hands the mutex over is that  *)
(* of the waiters' current priorities.                                     *)
(***************************************************************************)
WaitersSorted ==
    \A m \in Mutex : \A i, j \in DOMAIN waiters[m] :
        i < j => priority[waiters[m][i]] <= priority[waiters[m][j]]

(***************************************************************************)
(* No unbounded priority inversion (pi_test.c): while the owner of a mutex *)
(* is ready, the scheduler never picks a task less urgent than one that    *)
(* waits for the mutex.                                                    *)
(***************************************************************************)
NoPriorityInversion ==
    \A m \in Mutex : \A w \in Range(waiters[m]) :
        owner[m] \in Task /\ Ready(owner[m]) => priority[g_next] <= priority[w]

(***************************************************************************)
(* The list walks of mutex.c, which run with interrupts masked, end.       *)
(***************************************************************************)
KernelNeverHangs == pc # "hung"

(***************************************************************************)
(* A mutex changes hands only through os_kernel_mutex_unlock by its owner, *)
(* and then to the head of its waiters; it is never taken from a task that *)
(* is in its critical section.                                             *)
(***************************************************************************)
HandOverToHead ==
    [][\A m \in Mutex : owner[m] # NULL /\ owner'[m] # owner[m] =>
         /\ owner[m] = g_current
         /\ IF waiters[m] = << >> THEN owner'[m] = NULL
            ELSE owner'[m] = Head(waiters[m]) /\ state'[owner'[m]] = "READY"]_mutexSysVars
=============================================================================
