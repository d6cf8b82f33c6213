---------------------------- MODULE MCScheduler ----------------------------
(***************************************************************************)
(* Instances of Scheduler for TLC.                                         *)
(***************************************************************************)
EXTENDS Scheduler, TLC

\* Application tasks are interchangeable until they are created.
AppSymmetry == Permutations(Task \ {Idle})
=============================================================================
