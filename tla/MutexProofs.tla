----------------------------- MODULE MutexProofs -----------------------------
(***************************************************************************)
(* mutex.c on the scheduler of SchedulerProofs, for any number of tasks,   *)
(* priorities and mutexes.                                                 *)
(***************************************************************************)
EXTENDS Mutex, SchedulerProofs

-----------------------------------------------------------------------------
(* The list of owned mutexes *)

Follow(next, x) == IF x = NULL THEN NULL ELSE next[x]

\* g is the beginning, up to position k, of the walk from first.
WalkTo(first, next, k, g) ==
    /\ g \in [0 .. k -> MutexOrNull]
    /\ g[0] = first
    /\ \A n \in 1 .. k : g[n] = Follow(next, g[n - 1])

(***************************************************************************)
(* A walk can be as long as one likes.                                     *)
(***************************************************************************)
LEMMA WalkExists ==
    ASSUME NEW first \in MutexOrNull, NEW next \in [Mutex -> MutexOrNull]
    PROVE  \A k \in Nat : \E g : WalkTo(first, next, k, g)
<1> DEFINE S == {k \in Nat : \E g : WalkTo(first, next, k, g)}
<1>1. \A x \in MutexOrNull : Follow(next, x) \in MutexOrNull
  BY DEF MutexOrNull, Follow
<1>2. 0 \in S
  <2>1. WalkTo(first, next, 0, [n \in 0 .. 0 |-> first])
    BY DEF WalkTo
  <2> QED
    BY <2>1
<1>3. ASSUME NEW k \in Nat, k \in S
      PROVE  k + 1 \in S
  <2>1. PICK g : WalkTo(first, next, k, g)
    BY <1>3
  <2> DEFINE h == [n \in 0 .. k + 1 |-> IF n = k + 1 THEN Follow(next, g[k]) ELSE g[n]]
  <2>2. g[k] \in MutexOrNull /\ \A n \in 0 .. k : g[n] \in MutexOrNull
    BY <2>1 DEF WalkTo
  <2>3. h \in [0 .. k + 1 -> MutexOrNull] /\ h[0] = first
    BY <1>1, <2>1, <2>2 DEF WalkTo
  <2>4. ASSUME NEW n \in 1 .. k + 1
        PROVE  h[n] = Follow(next, h[n - 1])
    <3>1. CASE n = k + 1
      BY <3>1
    <3>2. CASE n \in 1 .. k
      <4>1. h[n] = g[n] /\ h[n - 1] = g[n - 1]
        BY <3>2
      <4> QED
        BY <2>1, <3>2, <4>1 DEF WalkTo
    <3> QED
      BY <3>1, <3>2
  <2> HIDE DEF h
  <2>5. WalkTo(first, next, k + 1, h)
    BY <2>3, <2>4 DEF WalkTo
  <2> QED
    BY <2>5
<1> HIDE DEF S
<1>4. \A k \in Nat : k \in S
  BY <1>2, <1>3, SetInduction
<1> QED
  BY <1>4 DEF S

(***************************************************************************)
(* Two walks agree as far as both go.                                      *)
(***************************************************************************)
LEMMA WalkUnique ==
    ASSUME NEW first, NEW next, NEW k \in Nat, NEW l \in Nat, k <= l,
           NEW g, WalkTo(first, next, k, g), NEW h, WalkTo(first, next, l, h)
    PROVE  \A n \in 0 .. k : g[n] = h[n]
<1> DEFINE S == {n \in Nat : n \in 0 .. k => g[n] = h[n]}
<1>1. 0 \in S
  BY DEF WalkTo
<1>2. ASSUME NEW n \in Nat, n \in S
      PROVE  n + 1 \in S
  <2> SUFFICES ASSUME n + 1 \in 0 .. k
               PROVE  g[n + 1] = h[n + 1]
    OBVIOUS
  <2>1. n + 1 \in 1 .. k /\ n + 1 \in 1 .. l /\ (n + 1) - 1 = n /\ g[n] = h[n]
    BY <1>2
  <2> QED
    BY <2>1 DEF WalkTo
<1> HIDE DEF S
<1>3. \A n \in Nat : n \in S
  BY <1>1, <1>2, SetInduction
<1> QED
  BY <1>3 DEF S

(***************************************************************************)
(* What the loops of mutex.c over the list of owned mutexes visit.         *)
(***************************************************************************)
LEMMA WalkFacts ==
    ASSUME NEW first \in MutexOrNull, NEW next \in [Mutex -> MutexOrNull]
    PROVE  WalkTo(first, next, Cardinality(Mutex), Walk(first, next))
<1> DEFINE IsWalk(f) == f = [n \in Nat |-> IF n = 0 THEN first
                               ELSE IF f[n - 1] = NULL THEN NULL ELSE next[f[n - 1]]]
           at == CHOOSE f : IsWalk(f)
           upTo(k) == CHOOSE g : WalkTo(first, next, k, g)
           f0 == [n \in Nat |-> upTo(n)[n]]
<1>1. \A k \in Nat : WalkTo(first, next, k, upTo(k))
  BY WalkExists
<1> HIDE DEF upTo
<1>2. f0[0] = first
  BY <1>1 DEF WalkTo
<1>3. ASSUME NEW n \in Nat \ {0}
      PROVE  f0[n] = Follow(next, f0[n - 1])
  <2>1. n - 1 \in Nat /\ n - 1 <= n /\ n \in 1 .. n /\ n - 1 \in 0 .. n - 1
    OBVIOUS
  <2>2. WalkTo(first, next, n - 1, upTo(n - 1)) /\ WalkTo(first, next, n, upTo(n))
    BY <1>1, <2>1
  <2>3. upTo(n - 1)[n - 1] = upTo(n)[n - 1]
    BY <2>1, <2>2, WalkUnique
  <2>4. upTo(n)[n] = Follow(next, upTo(n)[n - 1])
    BY <2>1, <2>2 DEF WalkTo
  <2> QED
    BY <2>1, <2>3, <2>4
<1> HIDE DEF f0
<1>4. IsWalk(f0)
  <2>1. f0 = [n \in Nat |-> f0[n]]
    BY DEF f0
  <2>2. \A n \in Nat : f0[n] = IF n = 0 THEN first
                               ELSE IF f0[n - 1] = NULL THEN NULL ELSE next[f0[n - 1]]
    BY <1>2, <1>3 DEF Follow
  <2> QED
    BY <2>1, <2>2
<1>5. IsWalk(at)
  BY <1>4
<1>6. Walk(first, next) = [n \in 0 .. Cardinality(Mutex) |-> at[n]]
  BY DEF Walk
<1> HIDE DEF at
<1>7. at[0] = first /\ \A n \in Nat \ {0} : at[n] = Follow(next, at[n - 1])
  BY <1>5 DEF Follow
<1>8. \A n \in Nat : at[n] \in MutexOrNull
  <2> DEFINE S == {n \in Nat : at[n] \in MutexOrNull}
  <2>1. 0 \in S
    BY <1>7
  <2>2. ASSUME NEW n \in Nat, n \in S
        PROVE  n + 1 \in S
    <3>1. at[n + 1] = Follow(next, at[n]) /\ at[n] \in MutexOrNull
      BY <1>7, <2>2
    <3> QED
      BY <3>1 DEF Follow, MutexOrNull
  <2> HIDE DEF S
  <2>3. \A n \in Nat : n \in S
    BY <2>1, <2>2, SetInduction
  <2> QED
    BY <2>3 DEF S
<1>9. Cardinality(Mutex) \in Nat
  BY MutexAssumption, FS_CardinalityType
<1> DEFINE c == Cardinality(Mutex)
           w == Walk(first, next)
<1>10. w \in [0 .. c -> MutexOrNull] /\ \A n \in 0 .. c : w[n] = at[n]
  BY <1>6, <1>8, <1>9
<1> HIDE DEF c, w
<1>11. w[0] = first /\ \A n \in 1 .. c : w[n] = Follow(next, w[n - 1])
  <2>1. c \in Nat
    BY <1>9 DEF c
  <2> QED
    BY <1>7, <1>10, <2>1
<1> QED
  BY <1>10, <1>11 DEF WalkTo, c, w

(***************************************************************************)
(* The list holds mutexes, whatever its links.                             *)
(***************************************************************************)
LEMMA OnListType ==
    ASSUME NEW first \in MutexOrNull, NEW next \in [Mutex -> MutexOrNull]
    PROVE  OnList(first, next) \subseteq Mutex
<1> DEFINE c == Cardinality(Mutex)
           w == Walk(first, next)
<1>1. w \in [0 .. c -> MutexOrNull]
  BY WalkFacts DEF WalkTo
<1>2. OnList(first, next) = Range(w) \ {NULL}
  BY DEF OnList
<1> HIDE DEF c, w
<1>3. Range(w) \subseteq MutexOrNull
  BY <1>1 DEF Range
<1> QED
  BY <1>2, <1>3 DEF MutexOrNull

(***************************************************************************)
(* While no mutex is linked to another, a list holds its first mutex only, *)
(* and it ends.                                                            *)
(***************************************************************************)
LEMMA FlatList ==
    ASSUME NEW first \in MutexOrNull, NEW next \in [Mutex -> MutexOrNull],
           \A m \in Mutex : next[m] = NULL
    PROVE  OnList(first, next) = {first} \ {NULL} /\ ~ Cyclic(first, next)
<1> DEFINE c == Cardinality(Mutex)
           w == Walk(first, next)
<1>1. /\ w \in [0 .. c -> MutexOrNull] /\ w[0] = first
      /\ \A n \in 1 .. c : w[n] = Follow(next, w[n - 1])
  BY WalkFacts DEF WalkTo
<1>2. OnList(first, next) = Range(w) \ {NULL} /\ (Cyclic(first, next) <=> NULL \notin Range(w))
  BY DEF OnList, Cyclic
<1>3. c \in Nat /\ (c = 0 => Mutex = {})
  BY MutexAssumption, FS_CardinalityType, FS_EmptySet
<1> HIDE DEF c, w
<1>4. \A n \in 1 .. c : w[n] = NULL
  <2> SUFFICES ASSUME NEW n \in 1 .. c
               PROVE  w[n] = NULL
    OBVIOUS
  <2>1. n - 1 \in 0 .. c
    BY <1>3
  <2>2. w[n - 1] \in MutexOrNull
    BY <1>1, <2>1
  <2> QED
    BY <1>1, <2>2 DEF Follow, MutexOrNull
<1>5. DOMAIN w = 0 .. c /\ 0 \in 0 .. c
  BY <1>1, <1>3
<1>6. \A n \in 0 .. c : w[n] = IF n = 0 THEN first ELSE NULL
  BY <1>1, <1>3, <1>4
<1>7. first \in Range(w) /\ Range(w) \subseteq {first, NULL}
  BY <1>5, <1>6 DEF Range
<1>8. NULL \in Range(w)
  <2>1. CASE first = NULL
    BY <1>7, <2>1
  <2>2. CASE first # NULL
    <3>1. 1 \in 0 .. c /\ w[1] = NULL
      BY <1>3, <1>6, <2>2 DEF MutexOrNull
    <3> QED
      BY <1>5, <3>1 DEF Range
  <2> QED
    BY <2>1, <2>2
<1> QED
  BY <1>2, <1>7, <1>8

-----------------------------------------------------------------------------
(* Inheritance *)

(***************************************************************************)
(* os_kernel_mutex_lock clears blocked_on before the caller is switched    *)
(* out, so that the inheritance loop never gets past the owner itself.     *)
(***************************************************************************)
LEMMA RaisedIsOwner ==
    ASSUME NEW m, owner[m] \in TaskOrNull, \A t \in Task : blocked_on[t] = NULL
    PROVE  Raised(m) = {o \in Task : o = owner[m] /\ priority[g_current] < priority[o]}
<1> DEFINE outranked(o) == o # NULL /\ priority[g_current] < priority[o]
           next(o) == IF outranked(o) /\ Blocked(o) /\ blocked_on[o] # NULL
                        THEN owner[blocked_on[o]] ELSE NULL
           IsChain(f) == f = [n \in Nat |-> IF n = 0 THEN owner[m] ELSE next(f[n - 1])]
           chain == CHOOSE f : IsChain(f)
           f0 == [n \in Nat |-> IF n = 0 THEN owner[m] ELSE NULL]
<1>1. Raised(m) = {o \in Task : outranked(o) /\ \E n \in 0 .. Cardinality(Task) : chain[n] = o}
  BY DEF Raised
<1>2. next(owner[m]) = NULL /\ next(NULL) = NULL
  BY DEF TaskOrNull
<1> HIDE DEF next
<1>3. IsChain(f0)
  <2>1. ASSUME NEW n \in Nat
        PROVE  f0[n] = IF n = 0 THEN owner[m] ELSE next(f0[n - 1])
    <3>1. CASE n = 0
      BY <3>1
    <3>2. CASE n # 0
      <4>1. n - 1 \in Nat /\ f0[n] = NULL /\ f0[n - 1] \in {owner[m], NULL}
        BY <3>2
      <4> QED
        BY <1>2, <3>2, <4>1
    <3> QED
      BY <3>1, <3>2
  <2> QED
    BY <2>1
<1>4. IsChain(chain)
  BY <1>3
<1> HIDE DEF chain
<1>5. chain[0] = owner[m] /\ \A n \in Nat : chain[n + 1] = next(chain[n])
  BY <1>4
<1>6. \A n \in Nat : chain[n + 1] = NULL
  <2> DEFINE S == {n \in Nat : chain[n + 1] = NULL}
  <2>1. 0 \in S
    <3>1. chain[0 + 1] = NULL
      BY <1>2, <1>5
    <3> QED
      BY <3>1
  <2>2. ASSUME NEW n \in Nat, n \in S
        PROVE  n + 1 \in S
    <3>1. chain[(n + 1) + 1] = next(chain[n + 1]) /\ chain[n + 1] = NULL
      BY <1>5, <2>2
    <3> QED
      BY <1>2, <3>1
  <2> HIDE DEF S
  <2>3. \A n \in Nat : n \in S
    BY <2>1, <2>2, SetInduction
  <2> QED
    BY <2>3 DEF S
<1>7. Cardinality(Task) \in Nat
  BY SchedulerAssumption, FS_CardinalityType
<1>8. ASSUME NEW o \in Task
      PROVE  (\E n \in 0 .. Cardinality(Task) : chain[n] = o) <=> o = owner[m]
  <2>1. \A n \in Nat : n # 0 => chain[n] = NULL
    <3> SUFFICES ASSUME NEW n \in Nat, n # 0
                 PROVE  chain[n] = NULL
      OBVIOUS
    <3>1. n - 1 \in Nat /\ (n - 1) + 1 = n
      OBVIOUS
    <3> QED
      BY <1>6, <3>1
  <2>2. o # NULL
    BY SchedulerAssumption
  <2>3. 0 \in 0 .. Cardinality(Task) /\ \A n \in 0 .. Cardinality(Task) : n \in Nat
    BY <1>7
  <2> QED
    BY <1>5, <2>1, <2>2, <2>3
<1>9. \A o \in Task : outranked(o) <=> priority[g_current] < priority[o]
  BY SchedulerAssumption
<1> HIDE DEF outranked
<1> QED
  BY <1>1, <1>8, <1>9

-----------------------------------------------------------------------------
(* os_task_set_priority *)

(***************************************************************************)
(* On a task that can run: it is moved to the ready queue of its new       *)
(* priority.                                                               *)
(***************************************************************************)
LEMMA SetReadyFacts ==
    ASSUME priority \in [Task -> Priority],
           NEW rd \in [Priority -> Seq(Task)], ReadyQueuesOK(state, priority, rd),
           NEW t \in Task, NEW p \in Priority
    PROVE  /\ SetPriorityReady(rd, t, p) \in [Priority -> Seq(Task)]
           /\ ReadyQueuesOK(state, [priority EXCEPT ![t] = p], SetPriorityReady(rd, t, p))
<1> DEFINE prio == [priority EXCEPT ![t] = p]
           new == SetPriorityReady(rd, t, p)
           old == priority[t]
<1>1. \A x \in Priority : IsInjective(rd[x])
        /\ Range(rd[x]) = {u \in Task : IsReady(state, u) /\ priority[u] = x}
  BY DEF ReadyQueuesOK
<1>2. \A u \in Task : prio[u] = IF u = t THEN p ELSE priority[u]
  OBVIOUS
<1>3. CASE ~ IsReady(state, t)
  <2>1. new = rd
    BY <1>3 DEF SetPriorityReady, IsReady
  <2>2. \A x \in Priority : {u \in Task : IsReady(state, u) /\ priority[u] = x}
                              = {u \in Task : IsReady(state, u) /\ prio[u] = x}
    BY <1>2, <1>3
  <2> HIDE DEF prio, new
  <2> QED
    BY <1>1, <2>1, <2>2 DEF ReadyQueuesOK, prio, new
<1>4. CASE IsReady(state, t)
  <2> DEFINE removed == [rd EXCEPT ![old] = os_task_queue_remove(@, t)]
  <2>1. new = [removed EXCEPT ![p] = os_task_queue_add(@, t)]
    BY <1>4 DEF SetPriorityReady, IsReady
  <2>2. old \in Priority /\ rd[old] \in Seq(Task) /\ t \in Range(rd[old])
    BY <1>1, <1>4
  <2>3. /\ os_task_queue_remove(rd[old], t) \in Seq(Task)
        /\ Range(os_task_queue_remove(rd[old], t)) = Range(rd[old]) \ {t}
        /\ IsInjective(os_task_queue_remove(rd[old], t))
    BY <1>1, <2>2, RemoveFacts
  <2>4. removed \in [Priority -> Seq(Task)]
    BY <2>2, <2>3
  <2>5. ASSUME NEW x \in Priority
        PROVE  IsInjective(removed[x]) /\ Range(removed[x]) = Range(rd[x]) \ {t}
    <3>1. CASE x = old
      BY <2>3, <3>1
    <3>2. CASE x # old
      BY <1>1, <3>2
    <3> QED
      BY <3>1, <3>2
  <2> HIDE DEF removed
  <2>6. removed[p] \in Seq(Task) /\ t \notin Range(removed[p]) /\ IsInjective(removed[p])
    BY <2>4, <2>5
  <2>7. /\ os_task_queue_add(removed[p], t) \in Seq(Task)
        /\ Range(os_task_queue_add(removed[p], t)) = Range(removed[p]) \cup {t}
        /\ IsInjective(os_task_queue_add(removed[p], t))
    BY <2>6, AddFacts
  <2>8. new \in [Priority -> Seq(Task)]
    BY <2>1, <2>4, <2>7
  <2>9. ASSUME NEW x \in Priority
        PROVE  /\ IsInjective(new[x])
               /\ Range(new[x]) = {u \in Task : IsReady(state, u) /\ prio[u] = x}
    <3> HIDE DEF prio
    <3>1. CASE x = p
      <4>1. new[x] = os_task_queue_add(removed[p], t)
        BY <2>1, <2>4, <3>1
      <4>2. Range(new[x]) = (Range(rd[x]) \ {t}) \cup {t}
        BY <2>5, <2>7, <3>1, <4>1
      <4> QED
        BY <1>1, <1>2, <1>4, <2>7, <3>1, <4>1, <4>2
    <3>2. CASE x # p
      <4>1. new[x] = removed[x]
        BY <2>1, <2>4, <3>2
      <4>2. Range(new[x]) = Range(rd[x]) \ {t}
        BY <2>5, <4>1
      <4> QED
        BY <1>1, <1>2, <2>5, <3>2, <4>1, <4>2
    <3> QED
      BY <3>1, <3>2
  <2> HIDE DEF prio, new
  <2>10. ReadyQueuesOK(state, prio, new)
    BY <2>9 DEF ReadyQueuesOK
  <2> QED
    BY <2>8, <2>10 DEF prio, new
<1> QED
  BY <1>3, <1>4

(***************************************************************************)
(* On a blocked task: it moves to another place of the queue it waits in.  *)
(***************************************************************************)
LEMMA SetWaitingFacts ==
    ASSUME waiters \in [WaitQueue -> Seq(Task)], WaitQueuesOK(state, wait_queue, waiters),
           NEW o \in Task, Blocked(o), NEW q \in WaitQueue, wait_queue[o] = q, NEW prio
    PROVE  LET u == SetPriorityWaiting(waiters, o, prio)[q]
           IN  u \in Seq(Task) /\ IsInjective(u) /\ Range(u) = Range(waiters[q])
<1> DEFINE r == os_task_queue_remove(waiters[q], o)
<1>1. /\ waiters[q] \in Seq(Task) /\ IsInjective(waiters[q]) /\ o \in Range(waiters[q])
  BY DEF WaitQueuesOK, Blocked
<1>2. r \in Seq(Task) /\ Range(r) = Range(waiters[q]) \ {o} /\ IsInjective(r)
  BY <1>1, RemoveFacts
<1>3. q # NULL
  BY SchedulerAssumption
<1>4. SetPriorityWaiting(waiters, o, prio)[q] = os_task_queue_insert_by_priority(r, o, prio)
  BY <1>3 DEF SetPriorityWaiting
<1> HIDE DEF r
<1>5. o \notin Range(r)
  BY <1>2
<1> DEFINE u == os_task_queue_insert_by_priority(r, o, prio)
<1>6. u \in Seq(Task) /\ Range(u) = Range(r) \cup {o} /\ IsInjective(u)
  BY <1>2, <1>5, InsertByPriorityFacts
<1> HIDE DEF u
<1>7. Range(u) = Range(waiters[q])
  BY <1>1, <1>2, <1>6
<1> QED
  BY <1>4, <1>6, <1>7 DEF u

-----------------------------------------------------------------------------
(* The inductive invariant, for tasks that hold any number of mutexes *)

(***************************************************************************)
(* blocked_on is NULL whenever no system call is executing: see            *)
(* RaisedIsOwner.                                                          *)
(***************************************************************************)
MutexState ==
    /\ owner \in [Mutex -> TaskOrNull]
    /\ next_mutex \in [Mutex -> MutexOrNull]
    /\ owned_mutexes \in [Task -> MutexOrNull]
    /\ blocked_on \in [Task -> MutexOrNull]
    /\ \A t \in Task : blocked_on[t] = NULL
    /\ WaitersHaveOwner

MutexInv == SchedInv /\ SleepersWait /\ MutexState

\* What os_kernel_mutex_lock has computed when it blocks its caller.
RaisedPriorities(m) ==
    [t \in Task |-> IF t \in Raised(m) THEN priority[g_current] ELSE priority[t]]

RaisedReady(m) ==
    LET ready == {o \in Raised(m) : ~ Blocked(o)}
    IN  IF ready = {} THEN g_priorities
        ELSE SetPriorityReady(g_priorities, CHOOSE o \in ready : TRUE, priority[g_current])

RaisedWaiters(m) ==
    LET raisedIn(q) == {o \in Raised(m) : Blocked(o) /\ wait_queue[o] = q}
    IN  [q \in WaitQueue |->
           IF raisedIn(q) = {} THEN waiters[q]
           ELSE SetPriorityWaiting(waiters, CHOOSE o \in raisedIn(q) : TRUE, RaisedPriorities(m))[q]]

(***************************************************************************)
(* Inheritance raises the owner, and moves it in its ready or wait queue.  *)
(***************************************************************************)
LEMMA RaiseFacts ==
    ASSUME MutexInv, InTask, NEW m \in Mutex
    PROVE  /\ RaisedPriorities(m) \in [Task -> Priority]
           /\ RaisedReady(m) \in [Priority -> Seq(Task)]
           /\ RaisedWaiters(m) \in [WaitQueue -> Seq(Task)]
           /\ ReadyQueuesOK(state, RaisedPriorities(m), RaisedReady(m))
           /\ WaitQueuesOK(state, wait_queue, RaisedWaiters(m))
           /\ \A t \in Task : RaisedPriorities(m)[t] =
                IF t = owner[m] /\ priority[g_current] < priority[t]
                  THEN priority[g_current] ELSE priority[t]
           /\ \A q \in WaitQueue :
                /\ Range(RaisedWaiters(m)[q]) = Range(waiters[q])
                /\ owner[m] \notin Range(waiters[q]) => RaisedWaiters(m)[q] = waiters[q]
<1> DEFINE o == owner[m]
           p == priority[g_current]
           prio == RaisedPriorities(m)
<1>1. /\ owner[m] \in TaskOrNull /\ (\A t \in Task : blocked_on[t] = NULL)
      /\ g_current \in Task
      /\ priority \in [Task -> Priority] /\ p \in Priority
      /\ g_priorities \in [Priority -> Seq(Task)] /\ waiters \in [WaitQueue -> Seq(Task)]
      /\ ReadyQueuesOK(state, priority, g_priorities) /\ WaitQueuesOK(state, wait_queue, waiters)
  <2>1. g_current \in Task /\ priority \in [Task -> Priority]
    BY DEF MutexInv, SchedInv, SchedTypeOK, InTask, OnlyReadyTasksRun
  <2> QED
    BY <2>1, QueueDisciplineParts DEF MutexInv, MutexState, SchedInv, SchedTypeOK
<1>2. Raised(m) = {x \in Task : x = o /\ p < priority[x]}
  BY <1>1, RaisedIsOwner
<1>3. /\ prio \in [Task -> Priority]
      /\ \A t \in Task : prio[t] = IF t = o /\ p < priority[t] THEN p ELSE priority[t]
  BY <1>1, <1>2 DEF RaisedPriorities
<1>4. \A q \in WaitQueue : Range(waiters[q]) = {t \in Task : Blocked(t) /\ wait_queue[t] = q}
  BY <1>1 DEF WaitQueuesOK, Blocked
<1>5. RaisedReady(m) \in [Priority -> Seq(Task)] /\ ReadyQueuesOK(state, prio, RaisedReady(m))
  <2>1. CASE {x \in Raised(m) : ~ Blocked(x)} = {}
    <3>1. RaisedReady(m) = g_priorities
      BY <2>1 DEF RaisedReady
    <3>2. \A t \in Task : IsReady(state, t) => prio[t] = priority[t]
      BY <1>2, <1>3, <2>1 DEF IsReady, Blocked
    <3> HIDE DEF prio
    <3>3. \A x \in Priority : {t \in Task : IsReady(state, t) /\ prio[t] = x}
                                = {t \in Task : IsReady(state, t) /\ priority[t] = x}
      BY <3>2
    <3> QED
      BY <1>1, <3>1, <3>3 DEF ReadyQueuesOK
  <2>2. CASE {x \in Raised(m) : ~ Blocked(x)} # {}
    <3>1. o \in Task /\ p < priority[o] /\ {x \in Raised(m) : ~ Blocked(x)} = {o}
      BY <1>2, <2>2
    <3>2. RaisedReady(m) = SetPriorityReady(g_priorities, o, p)
      BY <3>1 DEF RaisedReady
    <3>3. prio = [priority EXCEPT ![o] = p]
      BY <1>1, <1>3, <3>1
    <3>4. p \in Priority
      BY <1>1
    <3> HIDE DEF prio, o, p
    <3>5. /\ SetPriorityReady(g_priorities, o, p) \in [Priority -> Seq(Task)]
          /\ ReadyQueuesOK(state, [priority EXCEPT ![o] = p], SetPriorityReady(g_priorities, o, p))
      BY <1>1, <3>1, <3>4, SetReadyFacts
    <3> QED
      BY <3>2, <3>3, <3>5
  <2> QED
    BY <2>1, <2>2
<1>6. ASSUME NEW q \in WaitQueue
      PROVE  LET w == RaisedWaiters(m)[q]
             IN  /\ w \in Seq(Task) /\ IsInjective(w) /\ Range(w) = Range(waiters[q])
                 /\ o \notin Range(waiters[q]) => w = waiters[q]
  <2> DEFINE In == {x \in Raised(m) : Blocked(x) /\ wait_queue[x] = q}
             w == RaisedWaiters(m)[q]
  <2>1. w = IF In = {} THEN waiters[q] ELSE SetPriorityWaiting(waiters, CHOOSE x \in In : TRUE, prio)[q]
    BY DEF RaisedWaiters
  <2>2. CASE In = {}
    BY <1>1, <2>1, <2>2 DEF WaitQueuesOK
  <2>3. CASE In # {}
    <3>1. o \in Task /\ Blocked(o) /\ wait_queue[o] = q /\ In = {o}
      BY <1>2, <2>3
    <3>2. w = SetPriorityWaiting(waiters, o, prio)[q]
      BY <2>1, <3>1
    <3>3. o \in Range(waiters[q])
      BY <1>4, <3>1
    <3> HIDE DEF prio, o, w, In
    <3>4. w \in Seq(Task) /\ IsInjective(w) /\ Range(w) = Range(waiters[q])
      BY <1>1, <3>1, <3>2, SetWaitingFacts
    <3> QED
      BY <3>3, <3>4 DEF w
  <2> QED
    BY <2>2, <2>3
<1>7. RaisedWaiters(m) \in [WaitQueue -> Seq(Task)]
  <2>1. RaisedWaiters(m) = [q \in WaitQueue |-> RaisedWaiters(m)[q]]
    BY DEF RaisedWaiters
  <2> QED
    BY <1>6, <2>1
<1>8. WaitQueuesOK(state, wait_queue, RaisedWaiters(m))
  BY <1>1, <1>6 DEF WaitQueuesOK
<1> QED
  BY <1>3, <1>5, <1>6, <1>7, <1>8

(***************************************************************************)
(* What os_kernel_mutex_lock and os_kernel_mutex_unlock find.              *)
(***************************************************************************)
LEMMA MutexCaller ==
    ASSUME MutexInv, InTask
    PROVE  /\ g_current \in Task /\ state[g_current] = "RUNNING" /\ pc = "thread"
           /\ \A q \in WaitQueue : g_current \notin Range(waiters[q])
           /\ Mutex \subseteq WaitQueue \ {g_sleep_queue} /\ NULL \notin Mutex
           /\ priority \in [Task -> Priority] /\ base_priority \in [Task -> Priority]
           /\ g_priorities \in [Priority -> Seq(Task)] /\ waiters \in [WaitQueue -> Seq(Task)]
           /\ ReadyQueuesOK(state, priority, g_priorities)
           /\ WaitQueuesOK(state, wait_queue, waiters)
           /\ \A q \in WaitQueue : IsInjective(waiters[q]) /\ Range(waiters[q]) \subseteq Task
<1>1. g_current \in Task /\ state[g_current] = "RUNNING" /\ pc = "thread"
  BY DEF MutexInv, SchedInv, InTask, OnlyReadyTasksRun
<1>2. Mutex \subseteq WaitQueue \ {g_sleep_queue} /\ NULL \notin Mutex
  BY MutexAssumption, SchedulerAssumption
<1>3. /\ priority \in [Task -> Priority] /\ base_priority \in [Task -> Priority]
      /\ g_priorities \in [Priority -> Seq(Task)] /\ waiters \in [WaitQueue -> Seq(Task)]
      /\ ReadyQueuesOK(state, priority, g_priorities) /\ WaitQueuesOK(state, wait_queue, waiters)
  BY QueueDisciplineParts DEF MutexInv, SchedInv, SchedTypeOK
<1>4. \A q \in WaitQueue : /\ IsInjective(waiters[q])
                           /\ Range(waiters[q]) = {t \in Task : state[t] = "BLOCKED" /\ wait_queue[t] = q}
  BY <1>3 DEF WaitQueuesOK
<1>5. \A q \in WaitQueue : /\ g_current \notin Range(waiters[q])
                           /\ IsInjective(waiters[q]) /\ Range(waiters[q]) \subseteq Task
  BY <1>1, <1>4
<1> QED
  BY <1>1, <1>2, <1>3, <1>5

(***************************************************************************)
(* A free mutex is taken: the scheduler is not involved.                   *)
(***************************************************************************)
LEMMA FreeEffect ==
    ASSUME MutexInv, NEW m \in Mutex, os_kernel_mutex_lock_free(m)
    PROVE  MutexInv' /\ waiters[m] = << >> /\ UNCHANGED schedVars
<1>1. /\ InTask /\ UNCHANGED schedVars /\ owner[m] = NULL
      /\ owner' = [owner EXCEPT ![m] = g_current]
      /\ next_mutex' = [next_mutex EXCEPT ![m] = owned_mutexes[g_current]]
      /\ owned_mutexes' = [owned_mutexes EXCEPT ![g_current] = m]
      /\ blocked_on' = blocked_on
  BY DEF os_kernel_mutex_lock_free, os_mutex_add_to_owned
<1>2. SchedInv' /\ SleepersWait'
  BY <1>1, SchedStep, SleepStep DEF MutexInv
<1>3. g_current \in Task /\ waiters' = waiters
  BY <1>1, MutexCaller DEF schedVars, queueVars
<1>4. waiters[m] = << >>
  BY <1>1, SchedulerAssumption DEF MutexInv, MutexState, WaitersHaveOwner
<1>5. WaitersHaveOwner'
  BY <1>1, <1>3, <1>4 DEF MutexInv, MutexState, WaitersHaveOwner
<1>6. MutexState'
  BY <1>1, <1>3, <1>5 DEF MutexInv, MutexState, MutexOrNull, TaskOrNull
<1> QED
  BY <1>1, <1>2, <1>4, <1>6 DEF MutexInv

(***************************************************************************)
(* The mutex of another task: the owner inherits, the caller waits.        *)
(***************************************************************************)
LEMMA ContendedEffect ==
    ASSUME MutexInv, NEW m \in Mutex, os_kernel_mutex_lock_contended(m)
    PROVE  /\ MutexInv'
           /\ owner[m] \in Task /\ owner[m] # g_current
           /\ owner' = owner /\ base_priority' = base_priority
           /\ next_mutex' = [next_mutex EXCEPT ![m] = owned_mutexes[g_current]]
           /\ owned_mutexes' = [owned_mutexes EXCEPT ![g_current] = m]
           /\ state' = [state EXCEPT ![g_current] = "BLOCKED"]
           /\ priority' = RaisedPriorities(m)
           /\ waiters'[m] = os_task_queue_insert_by_priority(waiters[m], g_current, priority')
           /\ Range(waiters'[m]) = Range(waiters[m]) \cup {g_current}
           /\ \A q \in WaitQueue \ {m} :
                /\ Range(waiters'[q]) = Range(waiters[q])
                /\ owner[m] \notin Range(waiters[q]) => waiters'[q] = waiters[q]
           /\ g_next' = os_schedule(g_priorities')
<1> DEFINE me == g_current
           prio == RaisedPriorities(m)
           rd == RaisedReady(m)
           wt == RaisedWaiters(m)
<1>1. /\ InTask /\ owner[m] \notin {NULL, me}
      /\ priority' = prio
      /\ os_task_block_locked(m, OS_WAIT_FOREVER, TRUE, rd, wt, prio)
      /\ blocked_on' = [blocked_on EXCEPT ![me] = NULL]
      /\ next_mutex' = [next_mutex EXCEPT ![m] = owned_mutexes[me]]
      /\ owned_mutexes' = [owned_mutexes EXCEPT ![me] = m]
      /\ owner' = owner
      /\ UNCHANGED <<base_priority, switchVars, g_tick>>
  BY DEF os_kernel_mutex_lock_contended, os_mutex_add_to_owned, RaisedPriorities, RaisedReady,
     RaisedWaiters
<1>2. /\ me \in Task /\ m \in WaitQueue \ {g_sleep_queue}
      /\ \A q \in WaitQueue : me \notin Range(waiters[q])
      /\ waiters \in [WaitQueue -> Seq(Task)]
  BY <1>1, MutexCaller
<1>3. /\ prio \in [Task -> Priority] /\ rd \in [Priority -> Seq(Task)]
      /\ wt \in [WaitQueue -> Seq(Task)]
      /\ ReadyQueuesOK(state, prio, rd) /\ WaitQueuesOK(state, wait_queue, wt)
      /\ \A q \in WaitQueue :
           /\ Range(wt[q]) = Range(waiters[q])
           /\ owner[m] \notin Range(waiters[q]) => wt[q] = waiters[q]
  BY <1>1, RaiseFacts
<1>4. g_next' = os_schedule(g_priorities')
  BY <1>1 DEF os_task_block_locked, ScheduleAndPend
<1> HIDE DEF prio, rd, wt
<1>5. /\ SchedInv' /\ SleepersWait'
      /\ state' = [state EXCEPT ![me] = "BLOCKED"]
      /\ waiters' = [wt EXCEPT ![m] = os_task_queue_insert_by_priority(@, me, prio)]
  <2>1. SchedInv /\ SleepersWait
    BY DEF MutexInv
  <2>2. m \in WaitQueue \ {g_sleep_queue}
    BY <1>2
  <2>3. SchedInv' /\ SleepersWait' /\ state' = [state EXCEPT ![me] = "BLOCKED"]
    BY <1>1, <1>3, <2>1, <2>2, BlockForever
  <2>4. waiters' = [wt EXCEPT ![m] = os_task_queue_insert_by_priority(@, me, prio)]
    BY <1>1 DEF os_task_block_locked
  <2> QED
    BY <2>3, <2>4
<1>6. owner[m] \in Task /\ owner[m] # me
  BY <1>1 DEF MutexInv, MutexState, TaskOrNull
<1>7. owner[m] \notin Range(waiters[m])
  <2>1. Range(<< >>) = {}
    BY DEF Range
  <2> QED
    BY <2>1 DEF MutexInv, MutexState, WaitersHaveOwner
<1>8. wt[m] = waiters[m] /\ waiters[m] \in Seq(Task)
  BY <1>2, <1>3, <1>7
<1>9. /\ waiters'[m] = os_task_queue_insert_by_priority(waiters[m], me, prio)
      /\ \A q \in WaitQueue \ {m} : waiters'[q] = wt[q]
  BY <1>2, <1>3, <1>5, <1>8
<1>10. Range(waiters'[m]) = Range(waiters[m]) \cup {me}
  BY <1>2, <1>8, <1>9, InsertByPriorityFacts
<1>11. \A q \in WaitQueue \ {m} : /\ Range(waiters'[q]) = Range(waiters[q])
                                  /\ owner[m] \notin Range(waiters[q]) => waiters'[q] = waiters[q]
  BY <1>3, <1>9
<1>12. WaitersHaveOwner'
  <2> SUFFICES ASSUME NEW k \in Mutex, waiters'[k] # << >>
               PROVE  owner[k] \in Task /\ owner[k] \notin Range(waiters'[k])
    BY <1>1 DEF WaitersHaveOwner
  <2>1. CASE k = m
    BY <1>6, <1>7, <1>10, <2>1
  <2>2. CASE k # m
    <3>1. k \in WaitQueue \ {m} /\ Range(waiters'[k]) = Range(waiters[k])
      <4>1. k \in WaitQueue \ {m}
        BY <2>2, MutexAssumption
      <4> QED
        BY <1>11, <4>1
    <3>2. waiters'[k] \in Seq(Task)
      BY <1>5, <3>1 DEF SchedInv, SchedTypeOK
    <3>3. Range(waiters'[k]) # {}
      BY <3>2, PopFacts
    <3>4. waiters[k] # << >>
      BY <3>1, <3>3 DEF Range
    <3> QED
      BY <3>1, <3>4 DEF MutexInv, MutexState, WaitersHaveOwner
  <2> QED
    BY <2>1, <2>2
<1>13. MutexState'
  BY <1>1, <1>2, <1>12 DEF MutexInv, MutexState, MutexOrNull, TaskOrNull
<1>14. MutexInv'
  BY <1>5, <1>13 DEF MutexInv
<1>15. waiters'[m] = os_task_queue_insert_by_priority(waiters[m], me, priority')
  BY <1>1, <1>9
<1>16. priority' = RaisedPriorities(m)
  BY <1>1 DEF prio
<1> QED
  BY <1>1, <1>4, <1>5, <1>6, <1>10, <1>11, <1>14, <1>15, <1>16

(***************************************************************************)
(* os_mutex_recompute_priority returns a priority; the base priority, if   *)
(* there are no mutexes left.                                              *)
(***************************************************************************)
LEMMA RecomputeFacts ==
    ASSUME MutexInv, InTask, NEW t \in Task, NEW list \in SUBSET Mutex
    PROVE  /\ os_mutex_recompute_priority(t, list) \in Priority
           /\ list = {} => os_mutex_recompute_priority(t, list) = base_priority[t]
<1> DEFINE inherited == {priority[Head(waiters[k])] : k \in {x \in list : waiters[x] # << >>}}
           urgent == inherited \cup {base_priority[t]}
<1>1. /\ Mutex \subseteq WaitQueue /\ priority \in [Task -> Priority]
      /\ base_priority \in [Task -> Priority] /\ waiters \in [WaitQueue -> Seq(Task)]
  BY MutexCaller
<1>2. \A k \in Mutex : waiters[k] # << >> => Head(waiters[k]) \in Task
  <2> SUFFICES ASSUME NEW k \in Mutex, waiters[k] # << >>
               PROVE  Head(waiters[k]) \in Task
    OBVIOUS
  <2>1. waiters[k] \in Seq(Task)
    BY <1>1
  <2> QED
    BY <2>1, PopFacts
<1>3. inherited \subseteq Priority
  BY <1>1, <1>2
<1>4. urgent \in SUBSET Priority /\ urgent # {}
  BY <1>1, <1>3
<1>5. os_mutex_recompute_priority(t, list) = CHOOSE p \in urgent : \A q \in urgent : p <= q
  BY DEF os_mutex_recompute_priority
<1>6. list = {} => urgent = {base_priority[t]}
  OBVIOUS
<1> HIDE DEF urgent
<1>7. OS_TASK_IDLE \in Nat /\ Priority = 0 .. OS_TASK_IDLE
  BY SchedulerAssumption DEF Priority, OS_TASK_IDLE
<1>8. \E p \in urgent : \A q \in urgent : p <= q
  BY <1>4, <1>7, LeastElement
<1>9. os_mutex_recompute_priority(t, list) \in urgent
  BY <1>5, <1>8
<1> QED
  BY <1>4, <1>6, <1>9

(***************************************************************************)
(* os_mutex_remove_from_owned writes pointers to mutexes.                  *)
(***************************************************************************)
LEMMA RemovedType ==
    ASSUME MutexState, NEW t \in Task, NEW m \in Mutex
    PROVE  /\ os_mutex_remove_from_owned(t, m).owned \in [Task -> MutexOrNull]
           /\ os_mutex_remove_from_owned(t, m).next \in [Mutex -> MutexOrNull]
<1> DEFINE walk == Walk(owned_mutexes[t], next_mutex)
           first(n) == walk[n] = m /\ \A k \in 0 .. n - 1 : walk[k] # m
           before == {walk[n - 1] : n \in {k \in DOMAIN walk \ {0} : first(k)}}
           cleared == [next_mutex EXCEPT ![m] = NULL]
           head == [owned |-> [owned_mutexes EXCEPT ![t] = next_mutex[m]], next |-> cleared]
           inner == [owned |-> owned_mutexes,
              next |-> [k \in Mutex |-> IF k \in before THEN next_mutex[m] ELSE cleared[k]]]
           same == [owned |-> owned_mutexes, next |-> next_mutex]
<1>1. os_mutex_remove_from_owned(t, m) \in {head, inner, same}
  BY DEF os_mutex_remove_from_owned
<1>2. owned_mutexes \in [Task -> MutexOrNull] /\ next_mutex \in [Mutex -> MutexOrNull]
  BY DEF MutexState
<1> HIDE DEF before
<1>3. cleared \in [Mutex -> MutexOrNull]
  BY <1>2 DEF MutexOrNull
<1>4. head.owned \in [Task -> MutexOrNull] /\ head.next \in [Mutex -> MutexOrNull]
  BY <1>2, <1>3
<1>5. inner.owned \in [Task -> MutexOrNull] /\ inner.next \in [Mutex -> MutexOrNull]
  BY <1>2, <1>3
<1>6. same.owned \in [Task -> MutexOrNull] /\ same.next \in [Mutex -> MutexOrNull]
  BY <1>2
<1> HIDE DEF head, inner, same
<1> QED
  BY <1>1, <1>4, <1>5, <1>6

(***************************************************************************)
(* An unlock that does not hang: the owner gets the priority that is left  *)
(* to it, and the mutex goes to the first of the waiters.                  *)
(***************************************************************************)
LEMMA UnlockEffect ==
    ASSUME MutexInv, NEW m \in Mutex, os_kernel_mutex_unlock(m), pc' # "hung"
    PROVE  LET removed == os_mutex_remove_from_owned(g_current, m)
               list == OnList(removed.owned[g_current], removed.next)
           IN  /\ MutexInv'
               /\ owner[m] = g_current /\ base_priority' = base_priority
               /\ owned_mutexes' = removed.owned /\ next_mutex' = removed.next
               /\ priority' = [priority EXCEPT ![g_current] =
                                 os_mutex_recompute_priority(g_current, list)]
               /\ owner' = [owner EXCEPT ![m] = NextOwner(m)]
               /\ waiters[m] # << >> =>
                    /\ Head(waiters[m]) \in Task
                    /\ state' = [state EXCEPT ![Head(waiters[m])] = "READY"]
                    /\ waiters' = [waiters EXCEPT ![m] = Tail(@)]
                    /\ g_next' = os_schedule(g_priorities')
               /\ waiters[m] = << >> => UNCHANGED <<state, waiters, g_next>>
<1> DEFINE me == g_current
           removed == os_mutex_remove_from_owned(me, m)
           list == OnList(removed.owned[me], removed.next)
           p == os_mutex_recompute_priority(me, list)
           prio == [priority EXCEPT ![me] = p]
           rd == SetPriorityReady(g_priorities, me, p)
<1>1. InTask /\ owner[m] = me
  BY DEF os_kernel_mutex_unlock
<1>2. /\ me \in Task /\ pc = "thread" /\ m \in WaitQueue \ {g_sleep_queue}
      /\ priority \in [Task -> Priority] /\ g_priorities \in [Priority -> Seq(Task)]
      /\ waiters \in [WaitQueue -> Seq(Task)] /\ IsInjective(waiters[m])
      /\ ReadyQueuesOK(state, priority, g_priorities)
      /\ WaitQueuesOK(state, wait_queue, waiters)
  BY <1>1, MutexCaller
<1>3. /\ owned_mutexes' = removed.owned /\ next_mutex' = removed.next
      /\ priority' = prio
      /\ owner' = [owner EXCEPT ![m] = NextOwner(m)]
      /\ waiters[m] # << >> => os_task_wake_one_locked(m, rd, prio)
      /\ waiters[m] = << >> =>
           g_priorities' = rd /\ UNCHANGED <<state, wait_queue, wake_tick, waiters,
                                             g_timeout_queue, g_next, pendsv>>
      /\ UNCHANGED <<blocked_on, base_priority, switchVars, g_tick>>
  BY DEF os_kernel_mutex_unlock
<1>4. /\ removed.owned \in [Task -> MutexOrNull] /\ removed.next \in [Mutex -> MutexOrNull]
  BY <1>2, RemovedType DEF MutexInv
<1> HIDE DEF removed
<1>5. list \in SUBSET Mutex
  BY <1>2, <1>4, OnListType
<1> HIDE DEF list
<1>6. p \in Priority
  BY <1>1, <1>2, <1>5, RecomputeFacts
<1> HIDE DEF p
<1>7. prio \in [Task -> Priority]
  BY <1>2, <1>6
<1>8. rd \in [Priority -> Seq(Task)] /\ ReadyQueuesOK(state, prio, rd)
  BY <1>2, <1>6, SetReadyFacts
<1> HIDE DEF prio, rd
<1>9. CASE waiters[m] # << >>
  <2>1. SchedInv /\ SleepersWait
    BY DEF MutexInv
  <2>2. /\ SchedInv' /\ SleepersWait' /\ Head(waiters[m]) \in Task
        /\ state' = [state EXCEPT ![Head(waiters[m])] = "READY"]
        /\ waiters' = [waiters EXCEPT ![m] = Tail(@)]
    BY <1>1, <1>2, <1>3, <1>7, <1>8, <1>9, <2>1, WakeHead
  <2>3. g_next' = os_schedule(g_priorities')
    BY <1>3, <1>9 DEF os_task_wake_one_locked, ScheduleAndPend
  <2>4. NextOwner(m) = Head(waiters[m])
    BY <1>9 DEF NextOwner
  <2>5. waiters[m] \in Seq(Task) /\ Head(waiters[m]) \notin Range(Tail(waiters[m]))
    BY <1>2, <1>9, PopFacts
  <2>6. WaitersHaveOwner'
    BY <1>2, <1>3, <2>2, <2>4, <2>5 DEF MutexInv, MutexState, WaitersHaveOwner
  <2>7. MutexState'
    BY <1>2, <1>3, <1>4, <2>2, <2>4, <2>6 DEF MutexInv, MutexState, TaskOrNull
  <2>8. MutexInv'
    BY <2>2, <2>7 DEF MutexInv
  <2> QED
    BY <1>1, <1>3, <1>9, <2>2, <2>3, <2>8 DEF prio, p, list, removed
<1>10. CASE waiters[m] = << >>
  <2>1. UNCHANGED <<state, wait_queue, wake_tick, waiters, g_timeout_queue, g_next, pendsv>>
        /\ g_priorities' = rd
    BY <1>3, <1>10
  <2>2. SchedTypeOK'
    BY <1>3, <1>7, <1>8, <2>1 DEF MutexInv, SchedInv, SchedTypeOK, switchVars
  <2>3. TimeoutsOK(state, g_timeout_queue)
    BY QueueDisciplineParts DEF MutexInv, SchedInv
  <2>4. QueueDiscipline'
    BY <1>2, <1>3, <1>8, <2>1, <2>3, QueueDisciplineNext
  <2>5. ContextIntegrity' /\ OnlyReadyTasksRun' /\ SwitchControl'
    BY <1>3, <2>1 DEF MutexInv, SchedInv, ContextIntegrity, OnlyReadyTasksRun, SwitchControl,
       Created, Ready, switchVars
  <2>6. SleepersWait'
    BY <2>1 DEF MutexInv, SleepersWait
  <2>7. NextOwner(m) = NULL
    BY <1>10 DEF NextOwner
  <2>8. WaitersHaveOwner'
    BY <1>2, <1>3, <1>10, <2>1, <2>7 DEF MutexInv, MutexState, WaitersHaveOwner
  <2>9. MutexState'
    BY <1>2, <1>3, <1>4, <2>7, <2>8 DEF MutexInv, MutexState, TaskOrNull
  <2>10. MutexInv'
    BY <2>2, <2>4, <2>5, <2>6, <2>9 DEF MutexInv, SchedInv
  <2> QED
    BY <1>1, <1>3, <1>10, <2>1, <2>10 DEF prio, p, list, removed
<1> QED
  BY <1>9, <1>10

(***************************************************************************)
(* An unlock that walks round a cycle of its list changes nothing more.    *)
(***************************************************************************)
LEMMA UnlockHangs ==
    ASSUME MutexInv, NEW m \in Mutex, os_kernel_mutex_unlock(m), pc' = "hung"
    PROVE  UNCHANGED <<mutexVars, tcbVars, queueVars, sp, g_current, g_first_switch, psp,
                       r_next, g_next, g_tick, pendsv>>
<1>1. pc # pc'
  BY DEF os_kernel_mutex_unlock, InTask
<1> QED
  BY <1>1 DEF os_kernel_mutex_unlock, switchVars

(***************************************************************************)
(* What HandOverToHead says of one mutex and one step.                     *)
(***************************************************************************)
HandOver(m) ==
    owner[m] # NULL /\ owner'[m] # owner[m] =>
        /\ owner[m] = g_current
        /\ IF waiters[m] = << >> THEN owner'[m] = NULL
           ELSE owner'[m] = Head(waiters[m]) /\ state'[owner'[m]] = "READY"

(***************************************************************************)
(* Every call of mutex.c that does not hang keeps the invariant, whatever  *)
(* the number of mutexes held; it hands the mutex to the first waiter, and *)
(* at most reorders the queues of semaphores.                              *)
(***************************************************************************)
LEMMA MutexStepInv ==
    ASSUME MutexInv, NEW m \in Mutex, MutexStep(m), pc' # "hung"
    PROVE  /\ MutexInv'
           /\ \A k \in Mutex : HandOver(k)
           /\ \A q \in WaitQueue \ Mutex : Range(waiters'[q]) = Range(waiters[q])
<1> DEFINE Goal == /\ MutexInv'
                   /\ \A k \in Mutex : HandOver(k)
                   /\ \A q \in WaitQueue \ Mutex : Range(waiters'[q]) = Range(waiters[q])
<1>1. owner \in [Mutex -> TaskOrNull] /\ waiters \in [WaitQueue -> Seq(Task)]
      /\ state \in [Task -> {"none", "READY", "RUNNING", "BLOCKED"}]
  BY DEF MutexInv, MutexState, SchedInv, SchedTypeOK
<1>2. CASE os_kernel_mutex_lock_free(m)
  <2>1. MutexInv' /\ UNCHANGED schedVars
    BY <1>2, FreeEffect
  <2>2. waiters' = waiters /\ owner[m] = NULL /\ owner' = [owner EXCEPT ![m] = g_current]
    BY <1>2, <2>1 DEF schedVars, queueVars, os_kernel_mutex_lock_free
  <2> QED
    BY <1>1, <2>1, <2>2 DEF HandOver
<1>3. CASE os_kernel_mutex_lock_contended(m)
  <2>1. MutexInv' /\ owner' = owner
        /\ \A q \in WaitQueue \ {m} : Range(waiters'[q]) = Range(waiters[q])
    BY <1>3, ContendedEffect
  <2> QED
    BY <2>1 DEF HandOver
<1>4. CASE os_kernel_mutex_unlock(m)
  <2>1. /\ MutexInv' /\ owner[m] = g_current
        /\ owner' = [owner EXCEPT ![m] = NextOwner(m)]
        /\ waiters[m] # << >> =>
             /\ Head(waiters[m]) \in Task
             /\ state' = [state EXCEPT ![Head(waiters[m])] = "READY"]
             /\ waiters' = [waiters EXCEPT ![m] = Tail(@)]
        /\ waiters[m] = << >> => UNCHANGED <<state, waiters, g_next>>
    BY <1>4, UnlockEffect
  <2>2. CASE waiters[m] = << >>
    <3>1. waiters' = waiters /\ NextOwner(m) = NULL
      BY <2>1, <2>2 DEF NextOwner
    <3> QED
      BY <1>1, <2>1, <2>2, <3>1 DEF HandOver
  <2>3. CASE waiters[m] # << >>
    <3>1. /\ NextOwner(m) = Head(waiters[m]) /\ Head(waiters[m]) \in Task
          /\ state'[Head(waiters[m])] = "READY"
          /\ \A q \in WaitQueue \ {m} : waiters'[q] = waiters[q]
      BY <1>1, <2>1, <2>3 DEF NextOwner
    <3>2. \A k \in Mutex : HandOver(k)
      BY <1>1, <2>1, <2>3, <3>1 DEF HandOver
    <3> QED
      BY <2>1, <3>1, <3>2
  <2> QED
    BY <2>2, <2>3
<1> QED
  BY <1>2, <1>3, <1>4 DEF MutexStep

(***************************************************************************)
(* The scheduler leaves the mutexes and their waiters alone.               *)
(***************************************************************************)
LEMMA SchedKeepsMutex ==
    ASSUME MutexInv, [SchedNext]_schedVars, UNCHANGED mutexVars
    PROVE  MutexInv' /\ \A m \in Mutex : waiters'[m] = waiters[m] /\ HandOver(m)
<1>1. SchedInv' /\ SleepersWait' /\ \A q \in WaitQueue \ {g_sleep_queue} : waiters'[q] = waiters[q]
  BY SchedStep, SleepStep DEF MutexInv
<1>2. \A m \in Mutex : waiters'[m] = waiters[m]
  BY <1>1, MutexAssumption
<1>3. MutexState'
  BY <1>2 DEF MutexInv, MutexState, mutexVars, WaitersHaveOwner
<1> QED
  BY <1>1, <1>2, <1>3 DEF MutexInv, HandOver, mutexVars

-----------------------------------------------------------------------------
(* One mutex at a time *)

OneMutexAtATime == MaxHeld <= 1

(***************************************************************************)
(* No mutex is linked to another; a task that waits for a mutex has it on  *)
(* its list already and owns none; any other task has on its list the      *)
(* mutex it owns.                                                          *)
(***************************************************************************)
OwnedLists ==
    /\ \A m \in Mutex : next_mutex[m] = NULL
    /\ \A m \in Mutex : \A t \in Range(waiters[m]) :
          owned_mutexes[t] = m /\ \A k \in Mutex : owner[k] # t
    /\ \A t \in Task : (\A m \in Mutex : t \notin Range(waiters[m])) =>
          \A m \in Mutex : owner[m] = t <=> owned_mutexes[t] = m
    /\ \A m \in Mutex : owner[m] \in Task => Created(owner[m])

(***************************************************************************)
(* The inductive invariant: the exact priorities need the order of the     *)
(* waiters, both need the lists.                                           *)
(***************************************************************************)
OneMutexInv ==
    MutexInv /\ OwnedLists /\ WaitersSorted /\ InheritanceExact /\ NextMostUrgent

(***************************************************************************)
(* A task that may lock another mutex holds none.                          *)
(***************************************************************************)
LEMMA HoldsNone ==
    ASSUME OneMutexAtATime, NEW t, Cardinality(Held(t)) < MaxHeld
    PROVE  \A m \in Mutex : owner[m] # t
<1>1. IsFiniteSet(Held(t))
  <2>1. Held(t) \subseteq Mutex
    BY DEF Held
  <2> QED
    BY <2>1, MutexAssumption, FS_Subset
<1>2. Cardinality(Held(t)) \in Nat /\ (Cardinality(Held(t)) = 0 => Held(t) = {})
  BY <1>1, FS_CardinalityType, FS_EmptySet
<1>3. Held(t) = {}
  BY <1>2, MutexAssumption DEF OneMutexAtATime
<1> QED
  BY <1>3 DEF Held

(***************************************************************************)
(* Priorities of a task are exact if it owns nothing that is waited for    *)
(* and has its base priority, and conversely.                              *)
(***************************************************************************)
Exact(t) ==
    /\ priority[t] \in Inherited(t) \cup {base_priority[t]}
    /\ \A p \in Inherited(t) \cup {base_priority[t]} : priority[t] <= p

(***************************************************************************)
(* Elements of Inherited.                                                  *)
(***************************************************************************)
LEMMA InheritedFacts ==
    ASSUME NEW t, NEW p
    PROVE  p \in Inherited(t) <=>
             \E m \in Mutex : owner[m] = t /\ \E w \in Range(waiters[m]) : p = priority[w]
  BY DEF Inherited, Held

(***************************************************************************)
(* The same after a step.                                                  *)
(***************************************************************************)
LEMMA InheritedNext ==
    ASSUME NEW t, NEW p
    PROVE  p \in Inherited(t)' <=>
             \E m \in Mutex : owner'[m] = t /\ \E w \in Range(waiters'[m]) : p = priority'[w]
  BY DEF Inherited, Held

(***************************************************************************)
(* A task with nothing to inherit has its base priority.                   *)
(***************************************************************************)
LEMMA ExactBase ==
    ASSUME NEW t, Inherited(t)' = {}, priority'[t] = base_priority'[t], priority'[t] \in Int
    PROVE  Exact(t)'
<1>1. priority'[t] <= base_priority'[t]
  OBVIOUS
<1> QED
  BY <1>1 DEF Exact

(***************************************************************************)
(* Exactness is kept by a step that changes neither the mutexes of a task, *)
(* nor who waits for them, nor the priorities involved.                    *)
(***************************************************************************)
LEMMA ExactKept ==
    ASSUME NEW t, Exact(t), priority'[t] = priority[t], base_priority'[t] = base_priority[t],
           \A m \in Mutex : owner'[m] = t <=> owner[m] = t,
           \A m \in Mutex : owner[m] = t =>
             /\ Range(waiters'[m]) = Range(waiters[m])
             /\ \A w \in Range(waiters[m]) : priority'[w] = priority[w]
    PROVE  Exact(t)'
<1>1. \A p : p \in Inherited(t)' <=> p \in Inherited(t)
  BY InheritedFacts, InheritedNext
<1>2. Inherited(t)' = Inherited(t)
  BY <1>1
<1> QED
  BY <1>2 DEF Exact

(***************************************************************************)
(* Before the scheduler starts, all mutexes are free.                      *)
(***************************************************************************)
LEMMA OneMutexInit == SchedInit /\ MutexInit => OneMutexInv
<1> SUFFICES ASSUME SchedInit, MutexInit
             PROVE  OneMutexInv
  OBVIOUS
<1>1. SchedInv /\ SleepersWait /\ NextMostUrgent
  BY SchedInitInv, SleepInit, FirstMostUrgent
<1>2. \A m \in Mutex : waiters[m] = << >> /\ Range(waiters[m]) = {}
  BY MutexAssumption DEF SchedInit, Range
<1>3. MutexState
  BY <1>2 DEF MutexInit, MutexState, TaskOrNull, MutexOrNull, WaitersHaveOwner
<1>4. NULL \notin Task /\ NULL \notin Mutex
  BY SchedulerAssumption, MutexAssumption
<1>5. OwnedLists
  BY <1>2, <1>4 DEF MutexInit, OwnedLists
<1>6. WaitersSorted
  BY <1>2 DEF WaitersSorted
<1>7. InheritanceExact
  <2> SUFFICES ASSUME NEW t \in Task
               PROVE  Exact(t)
    BY DEF InheritanceExact, Exact
  <2>1. Inherited(t) = {}
    BY <1>2, InheritedFacts
  <2>2. priority[t] = base_priority[t] /\ priority[t] \in Int
    BY SchedulerAssumption DEF SchedInit, OS_TASK_IDLE
  <2> QED
    BY <2>1, <2>2 DEF Exact
<1> QED
  BY <1>1, <1>3, <1>5, <1>6, <1>7 DEF MutexInv, OneMutexInv

(***************************************************************************)
(* The facts of OneMutexInv that every step uses.                          *)
(***************************************************************************)
LEMMA OneMutexFacts ==
    ASSUME OneMutexInv
    PROVE  /\ \A m \in Mutex : waiters[m] \in Seq(Task) /\ Sorted(waiters[m], priority)
           /\ \A m \in Mutex : \A t \in Range(waiters[m]) :
                /\ t \in Task /\ Created(t) /\ Blocked(t)
                /\ owned_mutexes[t] = m /\ \A k \in Mutex : owner[k] # t
           /\ \A t \in Task : Created(t) => Exact(t)
           /\ Mutex \subseteq WaitQueue
           /\ owner \in [Mutex -> TaskOrNull] /\ next_mutex \in [Mutex -> MutexOrNull]
           /\ owned_mutexes \in [Task -> MutexOrNull]
           /\ priority \in [Task -> Priority] /\ base_priority \in [Task -> Priority]
           /\ state \in [Task -> {"none", "READY", "RUNNING", "BLOCKED"}]
           /\ waiters \in [WaitQueue -> Seq(Task)]
<1>1. Mutex \subseteq WaitQueue
  BY MutexAssumption
<1>2. /\ owner \in [Mutex -> TaskOrNull] /\ next_mutex \in [Mutex -> MutexOrNull]
      /\ owned_mutexes \in [Task -> MutexOrNull]
      /\ priority \in [Task -> Priority] /\ base_priority \in [Task -> Priority]
      /\ state \in [Task -> {"none", "READY", "RUNNING", "BLOCKED"}]
      /\ waiters \in [WaitQueue -> Seq(Task)]
  BY DEF OneMutexInv, MutexInv, MutexState, SchedInv, SchedTypeOK
<1>3. \A q \in WaitQueue : Range(waiters[q]) = {t \in Task : Blocked(t) /\ wait_queue[t] = q}
  BY DEF OneMutexInv, MutexInv, SchedInv, QueueDiscipline
<1>4. \A m \in Mutex : Sorted(waiters[m], priority)
  BY DEF OneMutexInv, WaitersSorted, Sorted
<1>5. \A m \in Mutex : \A t \in Range(waiters[m]) :
         /\ t \in Task /\ Created(t) /\ Blocked(t)
         /\ owned_mutexes[t] = m /\ \A k \in Mutex : owner[k] # t
  BY <1>1, <1>3 DEF OneMutexInv, OwnedLists, Created, Blocked
<1>6. \A t \in Task : Created(t) => Exact(t)
  BY DEF OneMutexInv, InheritanceExact, Exact
<1> QED
  BY <1>1, <1>2, <1>4, <1>5, <1>6

(***************************************************************************)
(* The parts of the invariant, as they are proved.                         *)
(***************************************************************************)
LEMMA OneMutexParts ==
    ASSUME MutexInv', OwnedLists', NextMostUrgent',
           \A m \in Mutex : Sorted(waiters'[m], priority'),
           \A t \in Task : Created(t)' => Exact(t)'
    PROVE  OneMutexInv'
<1>1. WaitersSorted'
  BY DEF WaitersSorted, Sorted
<1>2. InheritanceExact'
  BY DEF InheritanceExact, Exact
<1> QED
  BY <1>1, <1>2 DEF OneMutexInv

(***************************************************************************)
(* A scheduler step: priorities and waiters stay.                          *)
(***************************************************************************)
LEMMA OneSched ==
    ASSUME OneMutexInv, [SchedNext]_schedVars, UNCHANGED mutexVars
    PROVE  OneMutexInv'
<1>1. MutexInv' /\ \A m \in Mutex : waiters'[m] = waiters[m]
  BY SchedKeepsMutex DEF OneMutexInv
<1>2. /\ NextMostUrgent'
      /\ \A t \in Task : Created(t) => /\ Created(t)' /\ priority'[t] = priority[t]
                                       /\ base_priority'[t] = base_priority[t]
      /\ \A t \in Task : ~ Created(t) /\ Created(t)' => priority'[t] = base_priority'[t]
  BY PriorityStep DEF OneMutexInv, MutexInv
<1>3. UNCHANGED <<owner, next_mutex, owned_mutexes>>
  BY DEF mutexVars
<1>4. OwnedLists'
  BY <1>1, <1>2, <1>3 DEF OneMutexInv, OwnedLists
<1>5. \A m \in Mutex : \A w \in Range(waiters[m]) : priority'[w] = priority[w]
  BY <1>2, OneMutexFacts
<1>6. \A m \in Mutex : Sorted(waiters'[m], priority')
  <2> SUFFICES ASSUME NEW m \in Mutex
               PROVE  Sorted(waiters[m], priority')
    BY <1>1
  <2>1. Sorted(waiters[m], priority) /\ \A w \in Range(waiters[m]) : priority[w] = priority'[w]
    BY <1>5, OneMutexFacts
  <2> QED
    BY <2>1, SameOrder
<1>7. ASSUME NEW t \in Task, Created(t)'
      PROVE  Exact(t)'
  <2>1. CASE Created(t)
    <3>1. Exact(t)
      BY <2>1, OneMutexFacts
    <3> QED
      BY <1>1, <1>2, <1>3, <1>5, <2>1, <3>1, ExactKept
  <2>2. CASE ~ Created(t)
    <3>1. \A m \in Mutex : owner'[m] # t
      BY <1>3, <2>2 DEF OneMutexInv, OwnedLists
    <3>2. Inherited(t)' = {}
      BY <3>1, InheritedNext
    <3>3. priority'[t] = base_priority'[t] /\ priority'[t] \in Priority
      BY <1>1, <1>2, <1>7, <2>2 DEF MutexInv, SchedInv, SchedTypeOK
    <3>4. Priority \subseteq Int
      BY DEF Priority
    <3> QED
      BY <3>2, <3>3, <3>4, ExactBase
  <2> QED
    BY <2>1, <2>2
<1> QED
  BY <1>1, <1>2, <1>4, <1>6, <1>7, OneMutexParts

(***************************************************************************)
(* A free mutex is taken by a task that holds none.                        *)
(***************************************************************************)
LEMMA OneFree ==
    ASSUME OneMutexInv, \A k \in Mutex : owner[k] # g_current,
           NEW m \in Mutex, os_kernel_mutex_lock_free(m)
    PROVE  OneMutexInv'
<1> DEFINE me == g_current
<1>1. /\ InTask /\ owner[m] = NULL /\ UNCHANGED schedVars
      /\ owner' = [owner EXCEPT ![m] = me]
      /\ next_mutex' = [next_mutex EXCEPT ![m] = owned_mutexes[me]]
      /\ owned_mutexes' = [owned_mutexes EXCEPT ![me] = m]
  BY DEF os_kernel_mutex_lock_free, os_mutex_add_to_owned
<1>2. MutexInv' /\ waiters[m] = << >>
  BY FreeEffect DEF OneMutexInv
<1>3. /\ me \in Task /\ me # NULL /\ Created(me)
      /\ \A k \in Mutex : me \notin Range(waiters[k])
  BY <1>1, MutexCaller, MutexAssumption, SchedulerAssumption DEF OneMutexInv, Created
<1>4. \A k \in Mutex : owner[k] # me
  OBVIOUS
<1>5. owned_mutexes[me] = NULL
  BY <1>3, <1>4, OneMutexFacts DEF OneMutexInv, OwnedLists, MutexOrNull
<1>6. UNCHANGED <<state, priority, base_priority, waiters, g_next>>
  BY <1>1 DEF schedVars, tcbVars, queueVars
<1>7. /\ \A k \in Mutex : owner'[k] = IF k = m THEN me ELSE owner[k]
      /\ \A k \in Mutex : next_mutex'[k] = NULL
      /\ \A t \in Task : owned_mutexes'[t] = IF t = me THEN m ELSE owned_mutexes[t]
  BY <1>1, <1>3, <1>5, OneMutexFacts DEF OneMutexInv, OwnedLists
<1>8. OwnedLists'
  <2>1. ASSUME NEW k \in Mutex, NEW t \in Range(waiters[k])
        PROVE  owned_mutexes'[t] = k /\ \A j \in Mutex : owner'[j] # t
    <3>1. t \in Task /\ owned_mutexes[t] = k /\ \A j \in Mutex : owner[j] # t
      BY OneMutexFacts
    <3>2. t # me
      BY <1>3
    <3> QED
      BY <1>7, <3>1, <3>2
  <2>2. ASSUME NEW t \in Task, \A k \in Mutex : t \notin Range(waiters[k]), NEW k \in Mutex
        PROVE  owner'[k] = t <=> owned_mutexes'[t] = k
    <3>1. owner[k] = t <=> owned_mutexes[t] = k
      BY <2>2 DEF OneMutexInv, OwnedLists
    <3>2. owner[m] # t
      BY <1>1, SchedulerAssumption
    <3> QED
      BY <1>4, <1>7, <3>1, <3>2
  <2>3. \A k \in Mutex : owner'[k] \in Task => Created(owner[k])'
    BY <1>3, <1>6, <1>7 DEF OneMutexInv, OwnedLists, Created
  <2> QED
    BY <1>6, <1>7, <2>1, <2>2, <2>3 DEF OwnedLists
<1>9. ASSUME NEW t \in Task, Created(t)'
      PROVE  Exact(t)'
  <2>1. Exact(t)
    BY <1>6, <1>9, OneMutexFacts DEF Created
  <2>2. \A p : p \in Inherited(t)' <=> p \in Inherited(t)
    <3>1. Range(waiters[m]) = {}
      BY <1>2 DEF Range
    <3> QED
      BY <1>1, <1>4, <1>6, <1>7, <3>1, InheritedFacts, InheritedNext, SchedulerAssumption
  <2>3. Inherited(t)' = Inherited(t)
    BY <2>2
  <2> QED
    BY <1>6, <2>1, <2>3 DEF Exact
<1>10. \A k \in Mutex : Sorted(waiters'[k], priority')
  BY <1>6, OneMutexFacts
<1>11. NextMostUrgent'
  BY <1>6 DEF OneMutexInv, NextMostUrgent, Ready
<1> QED
  BY <1>2, <1>8, <1>9, <1>10, <1>11, OneMutexParts

(***************************************************************************)
(* A contended mutex: its owner, which waits for no mutex itself, inherits *)
(* the priority of the caller.                                             *)
(***************************************************************************)
LEMMA OneContended ==
    ASSUME OneMutexInv, \A k \in Mutex : owner[k] # g_current,
           NEW m \in Mutex, os_kernel_mutex_lock_contended(m)
    PROVE  OneMutexInv'
<1> DEFINE me == g_current
           o == owner[m]
<1>1. /\ MutexInv' /\ o \in Task /\ o # me
      /\ owner' = owner /\ base_priority' = base_priority
      /\ next_mutex' = [next_mutex EXCEPT ![m] = owned_mutexes[me]]
      /\ owned_mutexes' = [owned_mutexes EXCEPT ![me] = m]
      /\ state' = [state EXCEPT ![me] = "BLOCKED"]
      /\ waiters'[m] = os_task_queue_insert_by_priority(waiters[m], me, priority')
      /\ Range(waiters'[m]) = Range(waiters[m]) \cup {me}
      /\ \A q \in WaitQueue \ {m} : o \notin Range(waiters[q]) => waiters'[q] = waiters[q]
      /\ g_next' = os_schedule(g_priorities')
  BY ContendedEffect DEF OneMutexInv
<1>2. InTask /\ priority' = RaisedPriorities(m)
  BY DEF os_kernel_mutex_lock_contended, RaisedPriorities
<1>3. /\ priority' \in [Task -> Priority]
      /\ \A t \in Task : priority'[t] =
            IF t = o /\ priority[me] < priority[t] THEN priority[me] ELSE priority[t]
  BY <1>2, RaiseFacts DEF OneMutexInv
<1>4. /\ me \in Task /\ Created(me)
      /\ \A k \in Mutex : me \notin Range(waiters[k])
  BY <1>2, MutexCaller, MutexAssumption DEF OneMutexInv, Created
<1>5. \A k \in Mutex : owner[k] # me
  OBVIOUS
<1>6. owned_mutexes[me] = NULL
  BY <1>4, <1>5, OneMutexFacts DEF OneMutexInv, OwnedLists, MutexOrNull
<1>7. /\ \A k \in Mutex : next_mutex'[k] = NULL
      /\ \A t \in Task : owned_mutexes'[t] = IF t = me THEN m ELSE owned_mutexes[t]
      /\ \A t \in Task : Created(t)' <=> Created(t)
  BY <1>1, <1>4, <1>6, OneMutexFacts DEF OneMutexInv, OwnedLists, Created
<1>8. \A k \in Mutex : o \notin Range(waiters[k])
  <2> SUFFICES ASSUME NEW k \in Mutex, o \in Range(waiters[k])
               PROVE  FALSE
    OBVIOUS
  <2>1. \A j \in Mutex : owner[j] # o
    BY OneMutexFacts
  <2> QED
    BY <2>1
<1>9. \A k \in Mutex \ {m} : waiters'[k] = waiters[k]
  BY <1>1, <1>8, MutexAssumption
<1>10. \A k \in Mutex : \A w \in Range(waiters[k]) : w \in Task /\ w # o /\ priority'[w] = priority[w]
  BY <1>3, <1>8, OneMutexFacts
<1>11. OwnedLists'
  <2>1. ASSUME NEW k \in Mutex, NEW t \in Range(waiters'[k])
        PROVE  owned_mutexes'[t] = k /\ \A j \in Mutex : owner'[j] # t
    <3>1. CASE t = me
      <4>1. k = m
        BY <1>4, <1>9, <2>1, <3>1
      <4> QED
        BY <1>1, <1>4, <1>5, <1>7, <3>1, <4>1
    <3>2. CASE t # me
      <4>1. t \in Range(waiters[k])
        BY <1>1, <1>9, <2>1, <3>2
      <4>2. t \in Task /\ owned_mutexes[t] = k /\ \A j \in Mutex : owner[j] # t
        BY <4>1, OneMutexFacts
      <4> QED
        BY <1>1, <1>7, <3>2, <4>2
    <3> QED
      BY <3>1, <3>2
  <2>2. ASSUME NEW t \in Task, \A k \in Mutex : t \notin Range(waiters'[k]), NEW k \in Mutex
        PROVE  owner'[k] = t <=> owned_mutexes'[t] = k
    <3>1. t # me
      BY <1>1, <2>2
    <3>2. \A j \in Mutex : t \notin Range(waiters[j])
      BY <1>1, <1>9, <2>2
    <3>3. owner[k] = t <=> owned_mutexes[t] = k
      BY <3>2 DEF OneMutexInv, OwnedLists
    <3> QED
      BY <1>1, <1>7, <3>1, <3>3
  <2>3. \A k \in Mutex : owner'[k] \in Task => Created(owner[k])'
    BY <1>1, <1>7 DEF OneMutexInv, OwnedLists
  <2> QED
    BY <1>7, <2>1, <2>2, <2>3 DEF OwnedLists
<1>12. ASSUME NEW k \in Mutex
       PROVE  Sorted(waiters'[k], priority')
  <2>1. Sorted(waiters[k], priority) /\ waiters[k] \in Seq(Task)
        /\ \A w \in Range(waiters[k]) : priority[w] = priority'[w]
    BY <1>10, OneMutexFacts
  <2>2. Sorted(waiters[k], priority')
    BY <2>1, SameOrder
  <2>3. CASE k # m
    BY <1>9, <2>2, <2>3
  <2>4. CASE k = m
    <3>1. priority' \in [Task -> Int]
      BY <1>3 DEF Priority
    <3> QED
      BY <1>1, <1>4, <2>1, <2>2, <2>4, <3>1, InsertByPrioritySorted
  <2> QED
    BY <2>3, <2>4
<1>13. ASSUME NEW t \in Task, Created(t)'
       PROVE  Exact(t)'
  <2>1. Exact(t)
    BY <1>7, <1>13, OneMutexFacts
  <2>2. CASE t # o
    <3>1. priority'[t] = priority[t] /\ base_priority'[t] = base_priority[t]
      BY <1>1, <1>3, <2>2
    <3>2. \A k \in Mutex : owner[k] = t =>
            /\ Range(waiters'[k]) = Range(waiters[k])
            /\ \A w \in Range(waiters[k]) : priority'[w] = priority[w]
      BY <1>9, <1>10, <2>2
    <3> QED
      BY <1>1, <2>1, <3>1, <3>2, ExactKept
  <2>3. CASE t = o
    <3> DEFINE x == priority[me]
               y == priority[t]
    <3>1. priority'[me] = x /\ priority'[t] = (IF x < y THEN x ELSE y)
          /\ base_priority'[t] = base_priority[t]
      BY <1>1, <1>3, <1>4, <2>3
    <3>2. x \in Int /\ y \in Int /\ base_priority[t] \in Int /\ priority \in [Task -> Int]
      BY <1>1, <1>4, OneMutexFacts DEF Priority
    <3>3. \A k \in Mutex : owner[k] = t => k = m
      <4>1. \A k \in Mutex : owner[k] = t <=> owned_mutexes[t] = k
        BY <1>8, <2>3 DEF OneMutexInv, OwnedLists
      <4> QED
        BY <2>3, <4>1
    <3>4. \A p : p \in Inherited(t)' <=> p \in Inherited(t) \cup {x}
      <4>1. \A p : p \in Inherited(t) <=> \E w \in Range(waiters[m]) : p = priority[w]
        BY <2>3, <3>3, InheritedFacts
      <4>2. \A p : p \in Inherited(t)' <=> \E w \in Range(waiters'[m]) : p = priority'[w]
        BY <1>1, <2>3, <3>3, InheritedNext
      <4>3. ASSUME NEW p
            PROVE  (\E w \in Range(waiters'[m]) : p = priority'[w]) <=>
                      (\E w \in Range(waiters[m]) : p = priority[w]) \/ p = x
        BY <1>1, <1>10, <3>1
      <4> QED
        BY <4>1, <4>2, <4>3
    <3>5. /\ y \in Inherited(t) \cup {base_priority[t]}
          /\ \A p \in Inherited(t) \cup {base_priority[t]} : y <= p
      BY <2>1, <2>3 DEF Exact
    <3>6. \A p \in Inherited(t) : p \in Int
      <4>1. \A k \in Mutex : \A w \in Range(waiters[k]) : priority[w] \in Int
        BY <3>2, OneMutexFacts
      <4> QED
        BY <4>1, InheritedFacts
    <3> HIDE DEF x, y
    <3>7. priority'[t] \in Inherited(t)' \cup {base_priority'[t]}
      BY <3>1, <3>4, <3>5
    <3>8. \A p \in Inherited(t)' \cup {base_priority'[t]} : priority'[t] <= p
      <4> SUFFICES ASSUME NEW p \in Inherited(t) \cup {base_priority[t], x}
                   PROVE  priority'[t] <= p
        BY <3>1, <3>4
      <4>1. CASE p = x
        BY <3>1, <3>2, <4>1
      <4>2. CASE p \in Inherited(t) \cup {base_priority[t]}
        <5>1. p \in Int /\ y <= p
          BY <3>2, <3>5, <3>6, <4>2
        <5> QED
          BY <3>1, <3>2, <5>1
      <4> QED
        BY <4>1, <4>2
    <3> QED
      BY <3>7, <3>8 DEF Exact
  <2> QED
    BY <2>2, <2>3
<1>14. NextMostUrgent'
  BY <1>1, ScheduledMostUrgent DEF MutexInv
<1> QED
  BY <1>1, <1>11, <1>12, <1>13, <1>14, OneMutexParts

(***************************************************************************)
(* os_kernel_mutex_unlock finds the mutex at the head of its caller's      *)
(* list, and nothing behind it: the walks end.                             *)
(***************************************************************************)
LEMMA UnlockEnds ==
    ASSUME OneMutexInv, NEW m \in Mutex, os_kernel_mutex_unlock(m)
    PROVE  LET removed == os_mutex_remove_from_owned(g_current, m)
           IN  /\ pc' # "hung"
               /\ g_current \in Task /\ owned_mutexes[g_current] = m
               /\ removed.owned = [owned_mutexes EXCEPT ![g_current] = NULL]
               /\ \A k \in Mutex : removed.next[k] = NULL
               /\ OnList(removed.owned[g_current], removed.next) = {}
<1> DEFINE me == g_current
           removed == os_mutex_remove_from_owned(me, m)
<1>1. InTask /\ owner[m] = me
  BY DEF os_kernel_mutex_unlock
<1>2. /\ me \in Task /\ pc = "thread" /\ NULL \notin Mutex
      /\ \A k \in Mutex : me \notin Range(waiters[k])
  BY <1>1, MutexCaller, MutexAssumption DEF OneMutexInv
<1>3. owned_mutexes[me] = m
  BY <1>1, <1>2 DEF OneMutexInv, OwnedLists
<1>4. /\ next_mutex \in [Mutex -> MutexOrNull] /\ owned_mutexes \in [Task -> MutexOrNull]
      /\ \A k \in Mutex : next_mutex[k] = NULL
  BY OneMutexFacts DEF OneMutexInv, OwnedLists
<1>5. OnList(m, next_mutex) = {m} \ {NULL} /\ ~ Cyclic(m, next_mutex)
  BY <1>4, FlatList DEF MutexOrNull
<1>6. removed = [owned |-> [owned_mutexes EXCEPT ![me] = next_mutex[m]],
                 next |-> [next_mutex EXCEPT ![m] = NULL]]
  BY <1>2, <1>3, <1>5 DEF os_mutex_remove_from_owned
<1>7. /\ removed.owned = [owned_mutexes EXCEPT ![me] = NULL]
      /\ removed.next \in [Mutex -> MutexOrNull]
      /\ \A k \in Mutex : removed.next[k] = NULL
      /\ removed.owned[me] = NULL
  <2>1. /\ removed.owned = [owned_mutexes EXCEPT ![me] = next_mutex[m]]
        /\ removed.next = [next_mutex EXCEPT ![m] = NULL] /\ next_mutex[m] = NULL
    BY <1>4, <1>6
  <2> HIDE DEF removed
  <2> QED
    BY <1>2, <1>4, <2>1 DEF MutexOrNull
<1> HIDE DEF removed
<1>8. OnList(NULL, removed.next) = {} /\ ~ Cyclic(NULL, removed.next)
  BY <1>7, FlatList DEF MutexOrNull
<1>9. ~ RemoveLoops(me, m)
  BY <1>3, <1>5 DEF RemoveLoops
<1>10. pc' = pc
  <2>1. ~ (RemoveLoops(me, m) \/ Cyclic(removed.owned[me], removed.next))
    BY <1>7, <1>8, <1>9
  <2> QED
    BY <2>1 DEF os_kernel_mutex_unlock, removed, switchVars
<1> QED
  BY <1>2, <1>3, <1>7, <1>8, <1>10 DEF removed

(***************************************************************************)
(* The unlocking task is back at its base priority, and the head of the    *)
(* waiters, as the most urgent of them, owes nothing to the others.        *)
(***************************************************************************)
LEMMA OneUnlock ==
    ASSUME OneMutexInv, NEW m \in Mutex, os_kernel_mutex_unlock(m)
    PROVE  OneMutexInv' /\ pc' # "hung"
<1> DEFINE me == g_current
           h == Head(waiters[m])
           removed == os_mutex_remove_from_owned(me, m)
           list == OnList(removed.owned[me], removed.next)
<1>1. /\ pc' # "hung" /\ me \in Task /\ owned_mutexes[me] = m
      /\ removed.owned = [owned_mutexes EXCEPT ![me] = NULL]
      /\ \A k \in Mutex : removed.next[k] = NULL
      /\ list = {}
  BY UnlockEnds
<1>2. /\ MutexInv' /\ owner[m] = me /\ base_priority' = base_priority
      /\ owned_mutexes' = removed.owned /\ next_mutex' = removed.next
      /\ priority' = [priority EXCEPT ![me] = os_mutex_recompute_priority(me, list)]
      /\ owner' = [owner EXCEPT ![m] = NextOwner(m)]
      /\ waiters[m] # << >> =>
           /\ Head(waiters[m]) \in Task
           /\ state' = [state EXCEPT ![Head(waiters[m])] = "READY"]
           /\ waiters' = [waiters EXCEPT ![m] = Tail(@)]
           /\ g_next' = os_schedule(g_priorities')
      /\ waiters[m] = << >> => UNCHANGED <<state, waiters, g_next>>
  BY <1>1, UnlockEffect DEF OneMutexInv
<1> HIDE DEF removed, list
<1>3. InTask /\ MutexInv
  BY DEF os_kernel_mutex_unlock, OneMutexInv
<1>4. os_mutex_recompute_priority(me, list) = base_priority[me]
  BY <1>1, <1>3, RecomputeFacts
<1>5. /\ owner \in [Mutex -> TaskOrNull] /\ owned_mutexes \in [Task -> MutexOrNull]
      /\ priority \in [Task -> Priority] /\ base_priority \in [Task -> Priority]
      /\ state \in [Task -> {"none", "READY", "RUNNING", "BLOCKED"}]
      /\ waiters \in [WaitQueue -> Seq(Task)] /\ Mutex \subseteq WaitQueue
      /\ NULL \notin Mutex /\ NULL \notin Task /\ Priority \subseteq Int
  BY OneMutexFacts, MutexAssumption, SchedulerAssumption DEF Priority
<1>6. /\ \A t \in Task : priority'[t] = IF t = me THEN base_priority[me] ELSE priority[t]
      /\ \A t \in Task : owned_mutexes'[t] = IF t = me THEN NULL ELSE owned_mutexes[t]
      /\ \A k \in Mutex : next_mutex'[k] = NULL
      /\ \A k \in Mutex : owner'[k] = IF k = m THEN NextOwner(m) ELSE owner[k]
  BY <1>1, <1>2, <1>4, <1>5
<1>7. \A k \in Mutex : me \notin Range(waiters[k])
  BY <1>3, <1>5, MutexCaller
<1>8. \A k \in Mutex : owner[k] = me => k = m
  <2>1. \A k \in Mutex : owner[k] = me <=> owned_mutexes[me] = k
    BY <1>1, <1>7 DEF OneMutexInv, OwnedLists
  <2> QED
    BY <1>1, <2>1
<1>9. \A k \in Mutex : \A w \in Range(waiters[k]) : w \in Task /\ w # me /\ priority'[w] = priority[w]
  BY <1>6, <1>7, OneMutexFacts
<1>10. \A k \in Mutex : Sorted(waiters[k], priority')
  <2> SUFFICES ASSUME NEW k \in Mutex
               PROVE  Sorted(waiters[k], priority')
    OBVIOUS
  <2>1. Sorted(waiters[k], priority) /\ \A w \in Range(waiters[k]) : priority[w] = priority'[w]
    BY <1>9, OneMutexFacts
  <2> QED
    BY <2>1, SameOrder
<1>11. CASE waiters[m] = << >>
  <2>1. UNCHANGED <<state, waiters, g_next>> /\ NextOwner(m) = NULL /\ Range(waiters[m]) = {}
    BY <1>2, <1>11 DEF NextOwner, Range
  <2>2. priority'[me] = priority[me]
    <3>1. Created(me) /\ Exact(me)
      <4>1. Created(me)
        BY <1>3, MutexCaller DEF Created
      <4> QED
        BY <1>1, <4>1, OneMutexFacts
    <3>2. Inherited(me) = {}
      BY <1>8, <2>1, InheritedFacts
    <3> QED
      BY <1>1, <1>6, <3>1, <3>2 DEF Exact
  <2>3. \A t \in Task : priority'[t] = priority[t]
    BY <1>6, <2>2
  <2>4. OwnedLists'
    <3>1. ASSUME NEW k \in Mutex, NEW t \in Range(waiters'[k])
          PROVE  owned_mutexes'[t] = k /\ \A j \in Mutex : owner'[j] # t
      <4>1. t \in Range(waiters[k])
        BY <2>1, <3>1
      <4>2. t \in Task /\ t # me /\ owned_mutexes[t] = k /\ \A j \in Mutex : owner[j] # t
        BY <1>9, <4>1, OneMutexFacts
      <4> QED
        BY <1>5, <1>6, <2>1, <4>2
    <3>2. ASSUME NEW t \in Task, \A k \in Mutex : t \notin Range(waiters'[k]), NEW k \in Mutex
          PROVE  owner'[k] = t <=> owned_mutexes'[t] = k
      <4>1. owner[k] = t <=> owned_mutexes[t] = k
        BY <2>1, <3>2 DEF OneMutexInv, OwnedLists
      <4> QED
        BY <1>1, <1>2, <1>5, <1>6, <1>8, <2>1, <4>1
    <3>3. \A k \in Mutex : owner'[k] \in Task => Created(owner[k])'
      BY <1>5, <1>6, <2>1 DEF OneMutexInv, OwnedLists, Created
    <3> QED
      BY <1>6, <3>1, <3>2, <3>3 DEF OwnedLists
  <2>5. ASSUME NEW t \in Task, Created(t)'
        PROVE  Exact(t)'
    <3>1. Exact(t)
      BY <2>1, <2>5, OneMutexFacts DEF Created
    <3>2. \A p : p \in Inherited(t)' <=> p \in Inherited(t)
      <4>1. ASSUME NEW k \in Mutex, NEW p
            PROVE  (owner'[k] = t /\ \E w \in Range(waiters'[k]) : p = priority'[w])
                     <=> (owner[k] = t /\ \E w \in Range(waiters[k]) : p = priority[w])
        <5>1. CASE k = m
          BY <2>1, <5>1
        <5>2. CASE k # m
          BY <1>6, <1>9, <2>1, <5>2
        <5> QED
          BY <5>1, <5>2
      <4> QED
        BY <4>1, InheritedFacts, InheritedNext
    <3>3. Inherited(t)' = Inherited(t)
      BY <3>2
    <3> QED
      BY <1>2, <2>3, <3>1, <3>3 DEF Exact
  <2>6. NextMostUrgent'
    <3>1. g_next \in Task
      BY <1>3 DEF MutexInv, SchedInv, SwitchControl
    <3> QED
      BY <2>1, <2>3, <3>1 DEF OneMutexInv, NextMostUrgent, Ready
  <2>7. \A k \in Mutex : Sorted(waiters'[k], priority')
    BY <1>10, <2>1
  <2> QED
    BY <1>1, <1>2, <2>4, <2>5, <2>6, <2>7, OneMutexParts
<1>12. CASE waiters[m] # << >>
  <2>1. /\ h \in Task /\ NextOwner(m) = h
        /\ state' = [state EXCEPT ![h] = "READY"]
        /\ waiters' = [waiters EXCEPT ![m] = Tail(@)]
        /\ g_next' = os_schedule(g_priorities')
    BY <1>2, <1>12 DEF NextOwner
  <2>2. waiters[m] \in Seq(Task) /\ IsInjective(waiters[m])
    BY <1>3, <1>5, MutexCaller
  <2>3. /\ h \in Range(waiters[m]) /\ Range(waiters[m]) = Range(Tail(waiters[m])) \cup {h}
        /\ h \notin Range(Tail(waiters[m]))
    BY <1>12, <2>2, PopFacts
  <2>4. /\ waiters'[m] = Tail(waiters[m]) /\ \A k \in Mutex \ {m} : waiters'[k] = waiters[k]
    BY <1>5, <2>1
  <2>5. /\ h # me /\ owned_mutexes[h] = m /\ Created(h) /\ \A k \in Mutex : owner[k] # h
    BY <1>9, <2>3, OneMutexFacts
  <2>6. Sorted(Tail(waiters[m]), priority')
        /\ \A w \in Range(Tail(waiters[m])) : priority'[h] <= priority'[w]
    BY <1>10, <1>12, <2>2, TailSorted
  <2>7. \A t \in Task : Created(t)' <=> Created(t)
    BY <1>5, <2>1, <2>5 DEF Created
  <2> HIDE DEF h
  <2>8. \A k \in Mutex : \A t \in Range(waiters'[k]) : t \in Range(waiters[k]) /\ t # h
    <3> SUFFICES ASSUME NEW k \in Mutex, NEW t \in Range(waiters'[k])
                 PROVE  t \in Range(waiters[k]) /\ t # h
      OBVIOUS
    <3>1. CASE k = m
      BY <2>3, <2>4, <3>1
    <3>2. CASE k # m
      <4>1. t \in Range(waiters[k])
        BY <2>4, <3>2
      <4>2. owned_mutexes[t] = k
        BY <4>1, OneMutexFacts
      <4> QED
        BY <2>5, <3>2, <4>1, <4>2
    <3> QED
      BY <3>1, <3>2
  <2>9. OwnedLists'
    <3>1. ASSUME NEW k \in Mutex, NEW t \in Range(waiters'[k])
          PROVE  owned_mutexes'[t] = k /\ \A j \in Mutex : owner'[j] # t
      <4>1. t \in Range(waiters[k]) /\ t # h
        BY <2>8, <3>1
      <4>2. t \in Task /\ t # me /\ owned_mutexes[t] = k /\ \A j \in Mutex : owner[j] # t
        BY <1>9, <4>1, OneMutexFacts
      <4> QED
        BY <1>6, <2>1, <4>1, <4>2
    <3>2. ASSUME NEW t \in Task, \A k \in Mutex : t \notin Range(waiters'[k]), NEW k \in Mutex
          PROVE  owner'[k] = t <=> owned_mutexes'[t] = k
      <4>1. CASE t = me
        BY <1>5, <1>6, <1>8, <2>1, <2>5, <4>1
      <4>2. CASE t = h
        BY <1>6, <2>1, <2>5, <4>2
      <4>3. CASE t # me /\ t # h
        <5>1. \A j \in Mutex : t \notin Range(waiters[j])
          BY <2>3, <2>4, <3>2, <4>3
        <5>2. owner[k] = t <=> owned_mutexes[t] = k
          BY <5>1 DEF OneMutexInv, OwnedLists
        <5> QED
          BY <1>2, <1>6, <2>1, <4>3, <5>2
      <4> QED
        BY <4>1, <4>2, <4>3
    <3>3. ASSUME NEW k \in Mutex, owner'[k] \in Task
          PROVE  Created(owner[k])'
      <4>1. CASE k = m
        BY <1>5, <1>6, <2>1, <4>1 DEF Created
      <4>2. CASE k # m
        <5>1. owner'[k] = owner[k] /\ Created(owner[k])
          BY <1>6, <3>3, <4>2 DEF OneMutexInv, OwnedLists
        <5> QED
          BY <1>5, <2>1, <3>3, <5>1 DEF Created
      <4> QED
        BY <4>1, <4>2
    <3> QED
      BY <1>6, <3>1, <3>2, <3>3 DEF OwnedLists
  <2>10. ASSUME NEW t \in Task, Created(t)'
         PROVE  Exact(t)'
    <3>1. Exact(t)
      BY <2>7, <2>10, OneMutexFacts
    <3>2. CASE t = me
      <4>1. \A k \in Mutex : owner'[k] # me
        BY <1>6, <1>8, <2>1, <2>5
      <4>2. Inherited(t)' = {}
        BY <3>2, <4>1, InheritedNext
      <4>3. priority'[t] = base_priority'[t] /\ priority'[t] \in Int
        BY <1>2, <1>5, <1>6, <3>2
      <4> QED
        BY <4>2, <4>3, ExactBase
    <3>3. CASE t = h
      <4>1. Inherited(t) = {}
        BY <2>5, <3>3, InheritedFacts
      <4>2. priority[t] = base_priority[t]
        BY <3>1, <4>1 DEF Exact
      <4>3. priority'[t] = base_priority'[t] /\ priority'[t] \in Int
        BY <1>2, <1>5, <1>6, <2>5, <3>3, <4>2
      <4>4. \A k \in Mutex : owner'[k] = t => k = m
        BY <1>6, <2>5, <3>3
      <4>5. \A p \in Inherited(t)' : priority'[t] <= p
        <5> SUFFICES ASSUME NEW p, p \in Inherited(t)'
                     PROVE  priority'[t] <= p
          OBVIOUS
        <5>1. \E w \in Range(waiters'[m]) : p = priority'[w]
          BY <4>4, InheritedNext
        <5> QED
          BY <2>4, <2>6, <3>3, <5>1
      <4>6. priority'[t] <= base_priority'[t]
        BY <4>3
      <4> QED
        BY <4>3, <4>5, <4>6 DEF Exact
    <3>4. CASE t # me /\ t # h
      <4>1. priority'[t] = priority[t] /\ base_priority'[t] = base_priority[t]
        BY <1>2, <1>6, <3>4
      <4>2. \A k \in Mutex : owner'[k] = t <=> owner[k] = t
        BY <1>2, <1>6, <2>1, <3>4
      <4>3. \A k \in Mutex : owner[k] = t =>
              /\ Range(waiters'[k]) = Range(waiters[k])
              /\ \A w \in Range(waiters[k]) : priority'[w] = priority[w]
        BY <1>2, <1>9, <2>4, <3>4
      <4> QED
        BY <3>1, <4>1, <4>2, <4>3, ExactKept
    <3> QED
      BY <3>2, <3>3, <3>4
  <2>11. \A k \in Mutex : Sorted(waiters'[k], priority')
    BY <1>10, <2>4, <2>6
  <2>12. NextMostUrgent'
    BY <1>2, <2>1, ScheduledMostUrgent DEF MutexInv
  <2> QED
    BY <1>1, <1>2, <2>9, <2>10, <2>11, <2>12, OneMutexParts
<1> QED
  BY <1>1, <1>11, <1>12

(***************************************************************************)
(* What OneMutexInv says of the lists, of the walks and of inversion.      *)
(***************************************************************************)
LEMMA OneMutexResults ==
    ASSUME OneMutexInv
    PROVE  /\ OwnedListExact /\ InheritanceExact /\ WaitersSorted
           /\ NoPriorityInversion /\ KernelNeverHangs
<1>1. KernelNeverHangs
  BY DEF OneMutexInv, MutexInv, SchedInv, SwitchControl, KernelNeverHangs
<1>2. OwnedListExact
  <2> SUFFICES ASSUME NEW t \in Task, Ready(t)
               PROVE  /\ ~ Cyclic(owned_mutexes[t], next_mutex)
                      /\ OnList(owned_mutexes[t], next_mutex) = Held(t)
    BY DEF OwnedListExact
  <2>1. \A m \in Mutex : t \notin Range(waiters[m])
    BY OneMutexFacts DEF Ready, Blocked
  <2>2. \A m \in Mutex : owner[m] = t <=> owned_mutexes[t] = m
    BY <2>1 DEF OneMutexInv, OwnedLists
  <2>3. owned_mutexes[t] \in MutexOrNull /\ next_mutex \in [Mutex -> MutexOrNull]
        /\ \A m \in Mutex : next_mutex[m] = NULL
    BY OneMutexFacts DEF OneMutexInv, OwnedLists
  <2>4. /\ ~ Cyclic(owned_mutexes[t], next_mutex)
        /\ OnList(owned_mutexes[t], next_mutex) = {owned_mutexes[t]} \ {NULL}
    BY <2>3, FlatList
  <2>5. NULL \notin Mutex
    BY MutexAssumption, SchedulerAssumption
  <2>6. {owned_mutexes[t]} \ {NULL} = Held(t)
    BY <2>2, <2>3, <2>5 DEF Held, MutexOrNull
  <2> QED
    BY <2>4, <2>6
<1>3. NoPriorityInversion
  <2> SUFFICES ASSUME NEW m \in Mutex, NEW w \in Range(waiters[m]),
                      owner[m] \in Task, Ready(owner[m])
               PROVE  priority[g_next] <= priority[w]
    BY DEF NoPriorityInversion
  <2> DEFINE o == owner[m]
  <2>1. priority[g_next] <= priority[o]
    BY DEF OneMutexInv, NextMostUrgent
  <2>2. Exact(o)
    BY OneMutexFacts DEF Ready, Created
  <2>3. priority[w] \in Inherited(o)
    BY InheritedFacts
  <2>4. priority[o] <= priority[w]
    BY <2>2, <2>3 DEF Exact
  <2>5. priority[g_next] \in Int /\ priority[o] \in Int /\ priority[w] \in Int
    <3>1. g_next \in Task
      BY DEF OneMutexInv, MutexInv, SchedInv, SwitchControl
    <3> QED
      BY <3>1, OneMutexFacts DEF Priority
  <2> QED
    BY <2>1, <2>4, <2>5
<1> QED
  BY <1>1, <1>2, <1>3 DEF OneMutexInv
=============================================================================
