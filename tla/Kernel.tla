------------------------------- MODULE Kernel -------------------------------
(***************************************************************************)
(* The blocking services together: scheduler, sleeping, mutexes and        *)
(* semaphores share the TCBs, the ready queues and os_task_set_priority,   *)
(* so that the owner of a mutex may be asleep or wait for a semaphore when *)
(* it inherits a priority.                                                 *)
(***************************************************************************)
EXTENDS Mutex, Semaphore

ASSUME KernelAssumption == Mutex \cap Semaphore = {}

kernelVars == <<schedVars, mutexVars, count>>

KernelInit == SchedInit /\ MutexInit /\ SemInit

KernelNext ==
    \/ SchedNext /\ UNCHANGED <<mutexVars, count>>
    \/ \E m \in Mutex : MutexStep(m) /\ UNCHANGED count
    \/ \E s \in Semaphore : SemStep(s) /\ UNCHANGED mutexVars

KernelSpec == KernelInit /\ [][KernelNext]_kernelVars

KernelTypeOK == MutexTypeOK /\ SemTypeOK
=============================================================================
