--------------------------- MODULE MCMessageQueue ---------------------------
(***************************************************************************)
(* Instances of MessageQueue for TLC.                                      *)
(***************************************************************************)
EXTENDS MessageQueue, TLC

\* Senders are interchangeable, also as the messages that stand for them.
ClientSymmetry == Permutations(Sender) \cup Permutations(Receiver)

(***************************************************************************)
(* Only the order of the clients' priorities matters: once the scheduler   *)
(* has started, instances that differ from another in a gap are skipped.   *)
(***************************************************************************)
NoPriorityGaps ==
    pc # "boot" =>
        \A t \in Client : base_priority[t] = 0 \/
            \E u \in Client : base_priority[u] = base_priority[t] - 1
=============================================================================
