------------------------------ MODULE MCKernel ------------------------------
(***************************************************************************)
(* Instances of Kernel for TLC.                                            *)
(***************************************************************************)
EXTENDS Kernel, TLC

\* Application tasks are interchangeable until they are created.
KernelSymmetry == Permutations(Task \ {Idle})
=============================================================================
