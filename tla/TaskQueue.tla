------------------------------ MODULE TaskQueue ------------------------------
(***************************************************************************)
(* The task queues of kernel/scheduler.c, as sequences of tasks with the   *)
(* head of the list first.  A queue is a doubly linked list threaded       *)
(* through the TCBs: next/prev for the ready and wait queues,              *)
(* timeout_next/timeout_prev for the timeout queue.  Every operation of    *)
(* the C code on one list is an operator from sequences to sequences.      *)
(***************************************************************************)
EXTENDS Integers, Sequences, FiniteSets, Functions

(***************************************************************************)
(* The elements of s at the positions in I, in the order they have in s.   *)
(***************************************************************************)
Rank(I, i) == Cardinality({x \in I : x <= i})

Pick(s, I) == [n \in 1..Cardinality(I) |-> s[CHOOSE i \in I : Rank(I, i) = n]]

(***************************************************************************)
(* The positions of the longest prefix of s all of whose elements pass     *)
(* Test: what a loop "while (iter != NULL && Test(iter)) iter = iter->next"*)
(* walks over.                                                             *)
(***************************************************************************)
Prefix(s, Test(_)) == {i \in DOMAIN s : \A j \in 1..i : Test(s[j])}

(***************************************************************************)
(* t inserted where such a loop stops.                                     *)
(***************************************************************************)
InsertAfter(s, I, t) == Pick(s, I) \o <<t>> \o Pick(s, DOMAIN s \ I)

-----------------------------------------------------------------------------
\* Mutant: linked in at the head.
os_task_queue_add_front(s, t) == <<t>> \o s

os_task_queue_add(s, t) == Append(s, t)

(***************************************************************************)
(* Unlinking a TCB that is in no list has prev = next = NULL, and the C    *)
(* code then clears both ends: the queue loses every other task.           *)
(***************************************************************************)
\* Mutant: the TCB stays linked.
os_task_queue_remove_none(s, t) == s

os_task_queue_remove(s, t) ==
    IF t \in Range(s) THEN Pick(s, {i \in DOMAIN s : s[i] # t}) ELSE << >>

(***************************************************************************)
(* Behind every task of the same or a more urgent priority.                *)
(***************************************************************************)
\* Mutant: first come, first served.
os_task_queue_insert_by_arrival(s, t, prio) == Append(s, t)

os_task_queue_insert_by_priority(s, t, prio) ==
    InsertAfter(s, Prefix(s, LAMBDA u : prio[u] <= prio[t]), t)

(***************************************************************************)
(* A task that heads its queue goes to the back; any other stays put.      *)
(***************************************************************************)
\* Mutants: no rotation; the head is appended without being unlinked.
os_ready_queue_rotate_none(s, t) == s
os_ready_queue_rotate_twice(s, t) ==
    IF s # << >> /\ Head(s) = t THEN Append(s, t) ELSE s

os_ready_queue_rotate(s, t) ==
    IF s # << >> /\ Head(s) = t THEN Append(Tail(s), t) ELSE s

(***************************************************************************)
(* Unlike os_task_queue_remove, this one leaves the list alone when the    *)
(* task is not in it.                                                      *)
(***************************************************************************)
os_timeout_queue_remove(s, t) == Pick(s, {i \in DOMAIN s : s[i] # t})

=============================================================================
