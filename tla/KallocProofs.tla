---------------------------- MODULE KallocProofs ----------------------------
(***************************************************************************)
(* The pools of kalloc.c neither leak nor give out a block twice, and      *)
(* os_task_create hands the scheduler a TCB that is not in use, for pools  *)
(* of any size.                                                            *)
(***************************************************************************)
EXTENDS Kalloc, SchedulerProofs

-----------------------------------------------------------------------------
(* mempool.c *)

(***************************************************************************)
(* A pool of n blocks.                                                     *)
(***************************************************************************)
Pool(n) == [block_count : {n}, free_list : Seq(0 .. n - 1), free_count : Int]

(***************************************************************************)
(* os_mempool_init: all blocks are free, the last one is handed out first. *)
(***************************************************************************)
LEMMA PoolInit ==
    ASSUME NEW n \in Nat \ {0}
    PROVE  LET pool == os_mempool_init(n)
           IN  /\ pool \in Pool(n) /\ PoolOK(pool)
               /\ Range(pool.free_list) = 0 .. n - 1
               /\ pool.free_list # << >> /\ Head(pool.free_list) = n - 1
<1> DEFINE s == [i \in 1 .. n |-> n - i]
<1>1. s \in Seq(0 .. n - 1) /\ Len(s) = n /\ DOMAIN s = 1 .. n
  <2>1. \A i \in 1 .. n : n - i \in 0 .. n - 1
    OBVIOUS
  <2> QED
    BY <2>1
<1>2. \A i \in 1 .. n : s[i] = n - i
  OBVIOUS
<1>3. os_mempool_init(n) = [block_count |-> n, free_list |-> s, free_count |-> n]
  BY DEF os_mempool_init
<1> HIDE DEF s
<1>4. IsInjective(s)
  <2> SUFFICES ASSUME NEW i \in 1 .. n, NEW j \in 1 .. n, s[i] = s[j]
               PROVE  i = j
    BY <1>1 DEF IsInjective
  <2> QED
    BY <1>2
<1>5. Range(s) = 0 .. n - 1
  <2>1. ASSUME NEW b \in 0 .. n - 1 PROVE b \in Range(s)
    <3>1. n - b \in 1 .. n /\ n - (n - b) = b
      OBVIOUS
    <3>2. s[n - b] = b
      BY <1>2, <3>1
    <3> QED
      BY <1>1, <3>1, <3>2 DEF Range
  <2>2. Range(s) \subseteq 0 .. n - 1
    BY <1>1 DEF Range
  <2> QED
    BY <2>1, <2>2
<1>6. s # << >> /\ Head(s) = n - 1
  <2>1. Head(s) = s[1] /\ s # << >>
    BY <1>1
  <2> QED
    BY <1>2, <2>1
<1> QED
  BY <1>1, <1>3, <1>4, <1>5, <1>6 DEF Pool, PoolOK

(***************************************************************************)
(* os_mempool_alloc fails only when no block is free, and otherwise takes  *)
(* the block it returns out of the free list; os_mempool_free of that      *)
(* block undoes it.                                                        *)
(***************************************************************************)
LEMMA PoolAlloc ==
    ASSUME NEW n \in Nat \ {0}, NULL \notin 0 .. n - 1, NEW pool \in Pool(n), PoolOK(pool)
    PROVE  LET mem == os_mempool_alloc(pool, NULL)
           IN  /\ mem.ptr = NULL => mem.pool = pool
               /\ mem.ptr = NULL <=> pool.free_list = << >>
               /\ mem.ptr # NULL =>
                    /\ mem.ptr \in Range(pool.free_list) /\ mem.ptr \in 0 .. n - 1
                    /\ mem.pool \in Pool(n) /\ PoolOK(mem.pool)
                    /\ Range(mem.pool.free_list) = Range(pool.free_list) \ {mem.ptr}
                    /\ os_mempool_free(mem.pool, mem.ptr) = pool
<1> DEFINE s == pool.free_list
           c == pool.free_count
           mem == os_mempool_alloc(pool, NULL)
<1>1. /\ s \in Seq(0 .. n - 1) /\ c \in Int /\ IsInjective(s) /\ c = Len(s)
      /\ pool = [block_count |-> n, free_list |-> s, free_count |-> c]
  BY DEF Pool, PoolOK
<1>2. CASE s = << >>
  BY <1>2 DEF os_mempool_alloc
<1>3. CASE s # << >>
  <2> DEFINE b == Head(s)
             u == Tail(s)
             rest == [block_count |-> n, free_list |-> u, free_count |-> c - 1]
  <2>1. mem.ptr = b /\ mem.pool = rest
    <3>1. mem = [ptr |-> b, pool |-> [pool EXCEPT !.free_list = Tail(@), !.free_count = @ - 1]]
      BY <1>3 DEF os_mempool_alloc
    <3>2. [pool EXCEPT !.free_list = Tail(@), !.free_count = @ - 1] = rest
      <4> DEFINE e == [pool EXCEPT !.free_list = Tail(@), !.free_count = @ - 1]
      <4>1. u \in Seq(0 .. n - 1) /\ c - 1 \in Int
        BY <1>1, <1>3
      <4>2. e \in Pool(n) /\ e.free_list = u /\ e.free_count = c - 1
        <5>1. pool \in [block_count : {n}, free_list : Seq(0 .. n - 1), free_count : Int]
          BY DEF Pool
        <5>2. e = [pool EXCEPT !.free_list = u, !.free_count = c - 1]
          OBVIOUS
        <5> HIDE DEF e, u, c, s
        <5>3. e \in [block_count : {n}, free_list : Seq(0 .. n - 1), free_count : Int]
          BY <4>1, <5>1, <5>2
        <5> QED
          BY <5>1, <5>2, <5>3 DEF Pool
      <4> HIDE DEF e
      <4>3. e = rest
        BY <4>2 DEF Pool
      <4> QED
        BY <4>3 DEF e
    <3> QED
      BY <3>1, <3>2
  <2>2. /\ b \in 0 .. n - 1 /\ b \in Range(s) /\ u \in Seq(0 .. n - 1)
        /\ Range(s) = Range(u) \cup {b} /\ IsInjective(u) /\ b \notin Range(u)
    BY <1>1, <1>3, PopFacts
  <2>3. Len(u) = c - 1 /\ <<b>> \o u = s
    <3>1. Len(u) = Len(s) - 1
      BY <1>1, <1>3
    <3>2. <<b>> \o u = s
      BY <1>1, <1>3
    <3> QED
      BY <1>1, <3>1, <3>2
  <2>4. os_mempool_free(rest, b) = pool
    <3>1. rest.block_count = n /\ rest.free_list = u /\ rest.free_count = c - 1
      OBVIOUS
    <3>2. os_mempool_free(rest, b) = [rest EXCEPT !.free_list = <<b>> \o @, !.free_count = @ + 1]
      BY <2>2, <3>1 DEF os_mempool_free
    <3>3. (c - 1) + 1 = c
      BY <1>1
    <3> QED
      BY <1>1, <2>3, <3>1, <3>2, <3>3
  <2>5. rest \in Pool(n) /\ PoolOK(rest)
    BY <1>1, <2>2, <2>3 DEF Pool, PoolOK
  <2>6. mem.ptr # NULL
    BY <2>1, <2>2
  <2>7. Range(rest.free_list) = Range(s) \ {b}
    BY <2>2
  <2> HIDE DEF b, u, rest
  <2> QED
    BY <1>3, <2>1, <2>2, <2>4, <2>5, <2>6, <2>7
<1> QED
  BY <1>2, <1>3

-----------------------------------------------------------------------------
(* os_task_create *)

StackBlock == 0 .. OS_TASK_STACK_COUNT - 1

PoolTypes ==
    /\ g_kernel_object_pool \in Pool(OS_KERNEL_OBJECT_COUNT)
    /\ g_user_stack_pool \in Pool(OS_TASK_STACK_COUNT)
    /\ stack_mem \in [Task -> StackBlock \cup {NULL}]

(***************************************************************************)
(* PoolsExact needs the invariant of the scheduler: which tasks exist.     *)
(***************************************************************************)
KallocInv == SchedInv /\ PoolTypes /\ PoolsExact

(***************************************************************************)
(* What the assumptions say of the two pools.                              *)
(***************************************************************************)
LEMMA PoolSizes ==
    /\ OS_KERNEL_OBJECT_COUNT \in Nat \ {0} /\ OS_TASK_STACK_COUNT \in Nat \ {0}
    /\ Task = 0 .. OS_KERNEL_OBJECT_COUNT - 1 /\ NULL \notin Task
    /\ Idle = OS_KERNEL_OBJECT_COUNT - 1
    /\ NULL \notin StackBlock
  BY KallocAssumption, SchedulerAssumption DEF StackBlock

(***************************************************************************)
(* os_kernel_task_create gets a TCB that is not in use and a free stack    *)
(* and takes both out of their pools, or it fails and leaves both pools as *)
(* they were.                                                              *)
(***************************************************************************)
LEMMA TaskMemoryFacts ==
    ASSUME KallocInv, NEW words
    PROVE  LET mem == TaskMemory(words)
           IN  \/ /\ mem.tcb = NULL
                  /\ mem.objs = g_kernel_object_pool /\ mem.stks = g_user_stack_pool
               \/ /\ mem.tcb \in Task /\ ~ Created(mem.tcb)
                  /\ mem.stack \in StackBlock
                  /\ mem.stack \in Range(g_user_stack_pool.free_list)
                  /\ mem.objs \in Pool(OS_KERNEL_OBJECT_COUNT) /\ PoolOK(mem.objs)
                  /\ mem.stks \in Pool(OS_TASK_STACK_COUNT) /\ PoolOK(mem.stks)
                  /\ Range(mem.objs.free_list)
                       = Range(g_kernel_object_pool.free_list) \ {mem.tcb}
                  /\ Range(mem.stks.free_list)
                       = Range(g_user_stack_pool.free_list) \ {mem.stack}
<1> DEFINE objs == g_kernel_object_pool
           stks == g_user_stack_pool
           obj == os_mempool_alloc(objs, NULL)
           stk == os_mempool_alloc(stks, NULL)
           mem == TaskMemory(words)
<1>1. /\ objs \in Pool(OS_KERNEL_OBJECT_COUNT) /\ PoolOK(objs)
      /\ stks \in Pool(OS_TASK_STACK_COUNT) /\ PoolOK(stks)
      /\ Range(objs.free_list) = {t \in Task : ~ Created(t)}
  BY DEF KallocInv, PoolTypes, PoolsExact
<1>2. /\ obj.ptr # NULL =>
           /\ obj.ptr \in Range(objs.free_list) /\ obj.ptr \in Task
           /\ obj.pool \in Pool(OS_KERNEL_OBJECT_COUNT) /\ PoolOK(obj.pool)
           /\ Range(obj.pool.free_list) = Range(objs.free_list) \ {obj.ptr}
           /\ os_mempool_free(obj.pool, obj.ptr) = objs
  BY <1>1, PoolSizes, PoolAlloc
<1>3. /\ stk.ptr # NULL =>
           /\ stk.ptr \in Range(stks.free_list) /\ stk.ptr \in StackBlock
           /\ stk.pool \in Pool(OS_TASK_STACK_COUNT) /\ PoolOK(stk.pool)
           /\ Range(stk.pool.free_list) = Range(stks.free_list) \ {stk.ptr}
  BY <1>1, PoolSizes, PoolAlloc DEF StackBlock
<1> DEFINE got == os_kstack_alloc(stks, words)
<1>4. got.ptr = NULL \/ got = stk
  BY DEF os_kstack_alloc
<1>5. mem = IF obj.ptr = NULL
              THEN [tcb |-> NULL, stack |-> NULL, objs |-> objs, stks |-> stks]
            ELSE IF got.ptr = NULL
              THEN [tcb |-> NULL, stack |-> NULL,
                    objs |-> os_mempool_free(obj.pool, obj.ptr), stks |-> stks]
            ELSE [tcb |-> obj.ptr, stack |-> got.ptr, objs |-> obj.pool, stks |-> got.pool]
  BY DEF TaskMemory, os_kobj_alloc, os_kobj_free
<1> HIDE DEF obj, stk, got, mem
<1>6. CASE obj.ptr = NULL \/ got.ptr = NULL
  <2>1. mem.tcb = NULL /\ mem.objs = objs /\ mem.stks = stks
    BY <1>2, <1>5, <1>6
  <2> QED
    BY <2>1 DEF mem
<1>7. CASE obj.ptr # NULL /\ got.ptr # NULL
  <2>1. mem.tcb = obj.ptr /\ mem.stack = stk.ptr /\ mem.objs = obj.pool /\ mem.stks = stk.pool
        /\ stk.ptr # NULL
    BY <1>4, <1>5, <1>7
  <2>2. mem.tcb \in Task /\ ~ Created(mem.tcb)
    BY <1>1, <1>2, <1>7, <2>1
  <2> QED
    BY <1>2, <1>3, <1>7, <2>1, <2>2 DEF mem
<1> QED
  BY <1>6, <1>7

(***************************************************************************)
(* Only the creation of a task makes a task exist.                         *)
(***************************************************************************)
LEMMA RunCreated ==
    ASSUME SchedInv, RunStep
    PROVE  \A t \in Task : Created(t)' <=> Created(t)
<1> USE DEF SchedInv
<1>1. CASE os_start \/ os_kernel_yield
  BY <1>1 DEF os_start, os_kernel_yield, tcbVars, Created
<1>2. ASSUME NEW ticks \in Delays, os_kernel_delay_ticks(ticks)
      PROVE  \A t \in Task : Created(t)' <=> Created(t)
  <2>1. CASE os_kernel_yield
    BY <1>1, <2>1
  <2>2. CASE ~ os_kernel_yield
    <3>1. pc = "thread" /\ state' = [state EXCEPT ![g_current] = "BLOCKED"]
      BY <1>2, <2>2 DEF os_kernel_delay_ticks, os_task_block_locked, InTask
    <3>2. g_current \in Task /\ Created(g_current)
      BY <3>1 DEF SwitchControl
    <3> QED
      BY <3>1, <3>2 DEF Created, SchedTypeOK
  <2> QED
    BY <2>1, <2>2
<1>3. CASE SysTick_Handler
  <2>1. \A t \in Task : state'[t] = state[t] \/ (state[t] = "BLOCKED" /\ state'[t] = "READY")
    BY <1>3, TickStep
  <2> QED
    BY <2>1 DEF Created
<1>4. CASE PendSV_Handler
  <2>1. CASE PendSV_Save \/ os_commit_switch_load \/ PendSV_Restore
    BY <2>1 DEF PendSV_Save, os_commit_switch_load, PendSV_Restore, tcbVars, Created
  <2>2. CASE os_commit_switch_demote
    BY <2>2 DEF os_commit_switch_demote, Created, SchedTypeOK
  <2>3. CASE os_commit_switch_store
    <3>1. r_next \in Task /\ Ready(r_next) /\ state' = [state EXCEPT ![r_next] = "RUNNING"]
      BY <2>3 DEF os_commit_switch_store, SwitchControl
    <3> QED
      BY <3>1 DEF Created, Ready, SchedTypeOK
  <2> QED
    BY <1>4, <2>1, <2>2, <2>3 DEF PendSV_Handler
<1> QED
  BY <1>1, <1>2, <1>3, <1>4 DEF RunStep

(***************************************************************************)
(* A step of the system is a step of the scheduling core, or leaves it     *)
(* alone: the TCB that os_task_create fills in is not in use.              *)
(***************************************************************************)
LEMMA KallocSimulates ==
    ASSUME KallocInv, [KallocNext]_kallocVars
    PROVE  [SchedNext]_schedVars
<1>1. ASSUME NEW p \in Priority, NEW words \in StackWords, os_task_create(p, words)
      PROVE  [SchedNext]_schedVars
  <2> DEFINE mem == TaskMemory(words)
  <2>1. CASE mem.tcb = NULL
    BY <1>1, <2>1 DEF os_task_create
  <2>2. CASE mem.tcb # NULL
    <3>1. mem.tcb \in Task /\ ~ Created(mem.tcb)
      BY <2>2, TaskMemoryFacts
    <3>2. os_kernel_task_create(mem.tcb, p)
      BY <1>1, <2>2, <3>1 DEF os_task_create, os_kernel_task_create
    <3> QED
      BY <3>1, <3>2 DEF SchedNext
  <2> QED
    BY <2>1, <2>2
<1>2. CASE RunStep
  BY <1>2 DEF SchedNext
<1>3. CASE UNCHANGED kallocVars
  BY <1>3 DEF kallocVars
<1> QED
  BY <1>1, <1>2, <1>3 DEF KallocNext

(***************************************************************************)
(* os_boot_main leaves the pools without the two blocks of the idle task.  *)
(***************************************************************************)
LEMMA KallocInitInv == KallocInit => KallocInv
<1> SUFFICES ASSUME KallocInit PROVE KallocInv
  OBVIOUS
<1> DEFINE m == OS_KERNEL_OBJECT_COUNT
           k == OS_TASK_STACK_COUNT
           objs == os_mempool_init(m)
           stks == os_mempool_init(k)
           obj == os_mempool_alloc(objs, NULL)
           stk == os_mempool_alloc(stks, NULL)
<1>1. /\ SchedInv
      /\ state = [t \in Task |-> IF t = Idle THEN "READY" ELSE "none"]
      /\ g_kernel_object_pool = obj.pool /\ g_user_stack_pool = stk.pool
      /\ stack_mem = [t \in Task |-> IF t = Idle THEN stk.ptr ELSE NULL]
  BY SchedInitInv DEF KallocInit, SchedInit, os_kalloc_init
<1>2. /\ objs \in Pool(m) /\ PoolOK(objs) /\ Range(objs.free_list) = Task
      /\ objs.free_list # << >> /\ Head(objs.free_list) = Idle
  BY PoolSizes, PoolInit
<1>3. /\ stks \in Pool(k) /\ PoolOK(stks) /\ Range(stks.free_list) = StackBlock
      /\ stks.free_list # << >>
  BY PoolSizes, PoolInit DEF StackBlock
<1>4. /\ obj.ptr = Idle /\ obj.pool \in Pool(m) /\ PoolOK(obj.pool)
      /\ Range(obj.pool.free_list) = Task \ {Idle}
  <2>1. obj.ptr = Idle
    BY <1>2 DEF os_mempool_alloc
  <2>2. /\ obj.ptr # NULL /\ obj.pool \in Pool(m) /\ PoolOK(obj.pool)
        /\ Range(obj.pool.free_list) = Range(objs.free_list) \ {obj.ptr}
    BY <1>2, PoolSizes, PoolAlloc
  <2> QED
    BY <1>2, <2>1, <2>2
<1>5. /\ stk.ptr \in StackBlock /\ stk.pool \in Pool(k) /\ PoolOK(stk.pool)
      /\ Range(stk.pool.free_list) = StackBlock \ {stk.ptr}
  BY <1>3, PoolSizes, PoolAlloc DEF StackBlock
<1> HIDE DEF obj, stk, m, k
<1>6. Idle \in Task /\ \A t \in Task : Created(t) <=> t = Idle
  BY <1>1, SchedulerAssumption DEF Created
<1>7. PoolTypes
  BY <1>1, <1>4, <1>5 DEF PoolTypes, m, k
<1>8. stack_mem[Idle] = stk.ptr /\ {stack_mem[t] : t \in {u \in Task : Created(u)}} = {stk.ptr}
  BY <1>1, <1>6
<1>9. PoolsExact
  BY <1>1, <1>4, <1>5, <1>6, <1>8 DEF PoolsExact, StackBlock
<1> QED
  BY <1>1, <1>7, <1>9 DEF KallocInv

(***************************************************************************)
(* The inductive step.                                                     *)
(***************************************************************************)
LEMMA KallocInvStep ==
    ASSUME KallocInv, [KallocNext]_kallocVars
    PROVE  KallocInv'
<1>1. SchedInv'
  BY KallocSimulates, SchedStep DEF KallocInv
<1>2. PoolTypes /\ PoolsExact /\ SchedInv
  BY DEF KallocInv
<1>3. CASE UNCHANGED poolVars /\ \A t \in Task : Created(t)' <=> Created(t)
  <2>1. {t \in Task : ~ Created(t)}' = {t \in Task : ~ Created(t)}
    BY <1>3
  <2>2. {u \in Task : Created(u)}' = {u \in Task : Created(u)}
    BY <1>3
  <2>3. UNCHANGED {stack_mem[t] : t \in {u \in Task : Created(u)}}
    BY <1>3, <2>2 DEF poolVars
  <2>4. PoolTypes'
    BY <1>2, <1>3 DEF PoolTypes, poolVars
  <2>5. PoolsExact'
    BY <1>2, <1>3, <2>1, <2>3 DEF PoolsExact, poolVars, PoolOK
  <2> QED
    BY <1>1, <2>4, <2>5 DEF KallocInv
<1>4. ASSUME NEW p \in Priority, NEW words \in StackWords, os_task_create(p, words)
      PROVE  KallocInv'
  <2> DEFINE mem == TaskMemory(words)
             tcb == mem.tcb
             stack == mem.stack
  <2>1. g_kernel_object_pool' = mem.objs /\ g_user_stack_pool' = mem.stks
    BY <1>4 DEF os_task_create
  <2>2. CASE tcb = NULL
    <3>1. mem.objs = g_kernel_object_pool /\ mem.stks = g_user_stack_pool
      BY <2>2, PoolSizes, TaskMemoryFacts
    <3>2. UNCHANGED <<schedVars, stack_mem>>
      BY <1>4, <2>2 DEF os_task_create
    <3> QED
      BY <1>3, <2>1, <3>1, <3>2 DEF poolVars, schedVars, tcbVars, Created
  <2>3. CASE tcb # NULL
    <3>1. /\ tcb \in Task /\ ~ Created(tcb)
          /\ stack \in StackBlock
          /\ stack \in Range(g_user_stack_pool.free_list)
          /\ mem.objs \in Pool(OS_KERNEL_OBJECT_COUNT) /\ PoolOK(mem.objs)
          /\ mem.stks \in Pool(OS_TASK_STACK_COUNT) /\ PoolOK(mem.stks)
          /\ Range(mem.objs.free_list) = Range(g_kernel_object_pool.free_list) \ {tcb}
          /\ Range(mem.stks.free_list) = Range(g_user_stack_pool.free_list) \ {stack}
      BY <2>3, TaskMemoryFacts
    <3>2. /\ state' = [state EXCEPT ![tcb] = "READY"]
          /\ stack_mem' = [stack_mem EXCEPT ![tcb] = stack]
      BY <1>4, <2>3 DEF os_task_create, os_task_create_internal
    <3> HIDE DEF mem, tcb, stack
    <3>3. \A t \in Task : Created(t)' <=> Created(t) \/ t = tcb
      BY <1>2, <3>1, <3>2 DEF Created, SchedInv, SchedTypeOK
    <3>4. \A t \in Task : stack_mem'[t] = IF t = tcb THEN stack ELSE stack_mem[t]
      BY <1>2, <3>1, <3>2 DEF PoolTypes
    <3>5. PoolTypes'
      BY <1>2, <2>1, <3>1, <3>2 DEF PoolTypes
    <3>6. Range(g_kernel_object_pool.free_list)' = {t \in Task : ~ Created(t)}'
      BY <1>2, <2>1, <3>1, <3>3 DEF PoolsExact
    <3> DEFINE used == {stack_mem[t] : t \in {u \in Task : Created(u)}}
               used2 == {stack_mem'[t] : t \in {u \in Task : Created(u)'}}
    <3>7. used2 = used \cup {stack}
      BY <3>1, <3>3, <3>4
    <3>8. Range(g_user_stack_pool.free_list) = StackBlock \ used
      BY <1>2 DEF PoolsExact, StackBlock
    <3>9. \A t \in Task : Created(t) => stack_mem[t] # stack
      BY <3>1, <3>8
    <3> HIDE DEF used, used2
    <3>10. Range(g_user_stack_pool'.free_list) = StackBlock \ used2
      BY <2>1, <3>1, <3>7, <3>8
    <3>11. \A t, u \in Task : t # u /\ Created(t)' /\ Created(u)' => stack_mem'[t] # stack_mem'[u]
      BY <1>2, <3>3, <3>4, <3>9 DEF PoolsExact
    <3>12. PoolsExact'
      <4>1. PoolOK(g_kernel_object_pool)' /\ PoolOK(g_user_stack_pool)'
        BY <2>1, <3>1 DEF PoolOK
      <4> QED
        BY <3>6, <3>10, <3>11, <4>1 DEF PoolsExact, used2, StackBlock
    <3> QED
      BY <1>1, <3>5, <3>12 DEF KallocInv
  <2> QED
    BY <2>2, <2>3
<1>5. CASE RunStep /\ UNCHANGED poolVars
  BY <1>2, <1>3, <1>5, RunCreated
<1>6. CASE UNCHANGED kallocVars
  BY <1>3, <1>6 DEF kallocVars, schedVars, tcbVars, Created
<1> QED
  BY <1>4, <1>5, <1>6 DEF KallocNext

(***************************************************************************)
(* The inductive invariant of the pools together with the scheduler's.     *)
(***************************************************************************)
LEMMA KallocInvariant == KallocSpec => []KallocInv
  BY KallocInitInv, KallocInvStep, PTL DEF KallocSpec

(***************************************************************************)
(* kalloc.c and os_kernel_task_create leak nothing and give out nothing    *)
(* twice, for any sizes of the two pools and any stack sizes asked for.    *)
(***************************************************************************)
THEOREM PoolsExactHolds == KallocSpec => []PoolsExact
<1>1. KallocInv => PoolsExact
  BY DEF KallocInv
<1> QED
  BY <1>1, KallocInvariant, PTL

(***************************************************************************)
(* Every behaviour of the pools and the scheduler together is one of the   *)
(* scheduling core, whose os_kernel_task_create is given an unused TCB:    *)
(* the theorems about SchedSpec hold of the system with its pools.         *)
(***************************************************************************)
THEOREM CreatesFreshTasksHolds == KallocSpec => CreatesFreshTasks
<1>1. KallocInit => SchedInit
  BY DEF KallocInit
<1>2. KallocInv /\ [KallocNext]_kallocVars => [SchedNext]_schedVars
  BY KallocSimulates
<1> QED
  BY <1>1, <1>2, KallocInvariant, PTL DEF KallocSpec, SchedSpec, CreatesFreshTasks
=============================================================================
