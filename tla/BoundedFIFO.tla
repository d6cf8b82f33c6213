---------------------------- MODULE BoundedFIFO ----------------------------
(***************************************************************************)
(* What every queue of the system promises: a bounded first-in, first-out  *)
(* buffer.  A message that was accepted is neither lost, duplicated,       *)
(* overtaken nor altered before it is delivered.  The queues of lfqueue.c, *)
(* queue.c and rtt.c are compared with it through refinement mappings.     *)
(***************************************************************************)
EXTENDS Naturals, Sequences

CONSTANTS Message, Capacity

VARIABLES
    buffer,     \* accepted and not yet removed, oldest first
    out         \* the message copied out last

FIFOInit == buffer = << >>

Put(m) ==
    /\ Len(buffer) < Capacity
    /\ buffer' = Append(buffer, m)
    /\ UNCHANGED out

(***************************************************************************)
(* Delivery takes two steps: the oldest message is copied, and only then   *)
(* is its place given up.                                                  *)
(***************************************************************************)
Copy ==
    /\ buffer # << >>
    /\ out' = Head(buffer)
    /\ UNCHANGED buffer

Remove ==
    /\ buffer # << >>
    /\ out = Head(buffer)
    /\ buffer' = Tail(buffer)
    /\ UNCHANGED out

FIFONext == Copy \/ Remove \/ \E m \in Message : Put(m)

FIFOSpec == FIFOInit /\ [][FIFONext]_<<buffer, out>>
=============================================================================
