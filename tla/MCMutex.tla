------------------------------ MODULE MCMutex ------------------------------
(***************************************************************************)
(* Instances of Mutex for TLC.                                             *)
(***************************************************************************)
EXTENDS Mutex, TLC

\* Application tasks and mutexes are interchangeable.
MutexSymmetry == Permutations(Task \ {Idle}) \cup Permutations(Mutex)
=============================================================================
