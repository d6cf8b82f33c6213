------------------------------ MODULE LFQueue ------------------------------
(***************************************************************************)
(* kernel/lfqueue.c: the lock-free queue of one producer and one consumer, *)
(* a ring of `capacity' slots of which one always stays empty.  Each side  *)
(* writes its own index only and loads the other's once per call, so that  *)
(* each function is one access to shared memory: an atomic operator here.  *)
(* The slot it returns is used by the caller, in steps of the caller.      *)
(***************************************************************************)
EXTENDS Integers, Sequences

CONSTANTS
    capacity,
    NULL

ASSUME LFQueueAssumption == capacity \in Nat /\ capacity >= 2 /\ NULL \notin 0 .. capacity - 1

VARIABLES read_index, write_index, storage

queueVars == <<read_index, write_index, storage>>

Slot == 0 .. capacity - 1

lfqueue_init == read_index = 0 /\ write_index = 0

\* Mutant: the index runs one past the end.
lfqueue_next_index_late(index) == IF index = capacity THEN 0 ELSE index + 1

lfqueue_next_index(index) == IF index + 1 = capacity THEN 0 ELSE index + 1

\* Mutant: no slot is kept empty.
get_write_location_full == write_index

get_write_location ==
    IF lfqueue_next_index(write_index) = read_index THEN NULL ELSE write_index

\* Mutant: the queue is never taken for empty.
get_read_location_any == read_index

get_read_location == IF read_index = write_index THEN NULL ELSE read_index

update_write_index ==
    /\ write_index' = lfqueue_next_index(write_index)
    /\ UNCHANGED <<read_index, storage>>

update_read_index ==
    /\ read_index' = lfqueue_next_index(read_index)
    /\ UNCHANGED <<write_index, storage>>

(***************************************************************************)
(* The published messages, oldest first.                                   *)
(***************************************************************************)
Published ==
    [n \in 1 .. (write_index - read_index) % capacity |->
        storage[(read_index + n - 1) % capacity]]
=============================================================================
