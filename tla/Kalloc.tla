------------------------------- MODULE Kalloc -------------------------------
(***************************************************************************)
(* kernel/kalloc.c and the creation of tasks in kernel/task.c: a task is a *)
(* block of the kernel object pool (its TCB, by which the task is known)   *)
(* and a block of the user stack pool.  There is no call that ends a task; *)
(* a block goes back to its pool only when a creation fails half-way.      *)
(***************************************************************************)
EXTENDS Scheduler, MemPool

CONSTANTS
    OS_KERNEL_OBJECT_COUNT,
    OS_TASK_STACK_COUNT,
    OS_TASK_STACK_WORDS,
    StackWords          \* the stack_words of the calls of os_task_create

ASSUME KallocAssumption ==
    /\ OS_KERNEL_OBJECT_COUNT \in Nat \ {0}
    /\ OS_TASK_STACK_COUNT \in Nat \ {0}
    /\ OS_TASK_STACK_WORDS \in Nat \ {0}
    /\ Task = 0 .. OS_KERNEL_OBJECT_COUNT - 1
    /\ Idle = OS_KERNEL_OBJECT_COUNT - 1      \* the first block handed out
    /\ NULL \notin 0 .. OS_TASK_STACK_COUNT - 1
    /\ StackWords \subseteq Nat

VARIABLES
    g_kernel_object_pool, g_user_stack_pool,
    stack_mem           \* the stack block given to each task

poolVars == <<g_kernel_object_pool, g_user_stack_pool, stack_mem>>
kallocVars == <<schedVars, poolVars>>

\* The only size asked for, sizeof(os_tcb_t), is never refused.
os_kobj_alloc == os_mempool_alloc(g_kernel_object_pool, NULL)

os_kobj_free(pool, tcb) == os_mempool_free(pool, tcb)

os_kstack_alloc(pool, words) ==
    IF words = 0 \/ words > OS_TASK_STACK_WORDS
      THEN [ptr |-> NULL, pool |-> pool]
      ELSE os_mempool_alloc(pool, NULL)

(***************************************************************************)
(* The memory part of os_kernel_task_create: a TCB and a stack, or neither.*)
(***************************************************************************)
\* Mutant: the TCB is not given back when there is no stack.
TaskMemory_leak(words) ==
    LET obj == os_kobj_alloc
        stk == os_kstack_alloc(g_user_stack_pool, words)
    IN  IF obj.ptr = NULL \/ stk.ptr = NULL
          THEN [tcb |-> NULL, stack |-> NULL,
                objs |-> obj.pool, stks |-> g_user_stack_pool]
          ELSE [tcb |-> obj.ptr, stack |-> stk.ptr, objs |-> obj.pool, stks |-> stk.pool]

TaskMemory(words) ==
    LET obj == os_kobj_alloc
        stk == os_kstack_alloc(g_user_stack_pool, words)
    IN  IF obj.ptr = NULL
          THEN [tcb |-> NULL, stack |-> NULL,
                objs |-> g_kernel_object_pool, stks |-> g_user_stack_pool]
        ELSE IF stk.ptr = NULL
          THEN [tcb |-> NULL, stack |-> NULL,
                objs |-> os_kobj_free(obj.pool, obj.ptr), stks |-> g_user_stack_pool]
        ELSE [tcb |-> obj.ptr, stack |-> stk.ptr, objs |-> obj.pool, stks |-> stk.pool]

os_task_create(p, words) ==
    LET mem == TaskMemory(words)
    IN  /\ pc = "boot" \/ InTask
        /\ g_kernel_object_pool' = mem.objs
        /\ g_user_stack_pool' = mem.stks
        /\ IF mem.tcb = NULL
             THEN UNCHANGED <<schedVars, stack_mem>>
             ELSE /\ os_task_create_internal(mem.tcb, p)
                  /\ stack_mem' = [stack_mem EXCEPT ![mem.tcb] = mem.stack]

(***************************************************************************)
(* os_boot_main: os_kalloc_init, and the idle task has taken a block of    *)
(* each pool.                                                              *)
(***************************************************************************)
os_kalloc_init ==
    LET stk == os_mempool_alloc(os_mempool_init(OS_TASK_STACK_COUNT), NULL)
    IN  /\ g_kernel_object_pool =
             os_mempool_alloc(os_mempool_init(OS_KERNEL_OBJECT_COUNT), NULL).pool
        /\ g_user_stack_pool = stk.pool
        /\ stack_mem = [t \in Task |-> IF t = Idle THEN stk.ptr ELSE NULL]

KallocInit == SchedInit /\ os_kalloc_init

KallocNext ==
    \/ \E p \in Priority, words \in StackWords : os_task_create(p, words)
    \/ RunStep /\ UNCHANGED poolVars

KallocSpec == KallocInit /\ [][KallocNext]_kallocVars

(***************************************************************************)
(* The fairness of SchedLiveSpec.                                          *)
(***************************************************************************)
KallocLiveSpec ==
    /\ KallocSpec
    /\ WF_kallocVars(os_start /\ UNCHANGED poolVars)
    /\ WF_kallocVars(PendSV_Handler /\ UNCHANGED poolVars)
    /\ WF_kallocVars(SysTick_Handler /\ UNCHANGED poolVars)

-----------------------------------------------------------------------------
(* Properties *)

PoolOK(pool) == IsInjective(pool.free_list) /\ pool.free_count = Len(pool.free_list)

(***************************************************************************)
(* Nothing is leaked and nothing is given out twice, whichever pool runs   *)
(* empty first and whichever calls fail half-way: a TCB block is free      *)
(* exactly when no task was created in it, a stack block exactly when no   *)
(* task has it, and no two tasks have one stack.                           *)
(***************************************************************************)
PoolsExact ==
    /\ PoolOK(g_kernel_object_pool) /\ PoolOK(g_user_stack_pool)
    /\ Range(g_kernel_object_pool.free_list) = {t \in Task : ~ Created(t)}
    /\ Range(g_user_stack_pool.free_list)
         = (0 .. OS_TASK_STACK_COUNT - 1) \ {stack_mem[t] : t \in {u \in Task : Created(u)}}
    /\ \A t, u \in Task : t # u /\ Created(t) /\ Created(u) => stack_mem[t] # stack_mem[u]

(***************************************************************************)
(* The pools implement what the scheduler takes for granted: whatever      *)
(* block the free list hands out for a TCB, os_kernel_task_create never    *)
(* overwrites the TCB of a task that exists.                               *)
(***************************************************************************)
CreatesFreshTasks == SchedSpec
=============================================================================
