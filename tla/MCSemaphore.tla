---------------------------- MODULE MCSemaphore ----------------------------
(***************************************************************************)
(* Instances of Semaphore for TLC.                                         *)
(***************************************************************************)
EXTENDS Semaphore, TLC

\* Application tasks are interchangeable until they are created.
SemSymmetry == Permutations(Task \ {Idle})
=============================================================================
