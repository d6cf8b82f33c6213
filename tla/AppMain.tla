------------------------------ MODULE AppMain ------------------------------
(***************************************************************************)
(* app/app_main.c: task0 sends 1, 2, 3, ... to task1 through the lock-free *)
(* queue; both log to the RTT channel.  The tasks have one priority and    *)
(* are preempted anywhere by a tick, so their steps interleave freely; the *)
(* delays between two rounds only choose among these interleavings.  The   *)
(* variables meant for the debugger are left out, except g_error_count.    *)
(***************************************************************************)
EXTENDS LFQueue, Rtt

CONSTANTS
    WORD,           \* 2^32: the values sent are uint32_t
    LoggerSets      \* which tasks log ({Tasks} in app_main.c)

Tasks == {"task0", "task1"}
Value == 0 .. WORD - 1

\* A log entry is two calls of os_rtt_write: the text, then the clock.
Text == <<"t", "t">>
Clock == <<"c">>

ASSUME AppMainAssumption ==
    /\ Writer = Tasks
    /\ \A i \in DOMAIN (Text \o Clock) : (Text \o Clock)[i] \in Byte
    /\ WORD \in Nat /\ WORD > capacity
    /\ LoggerSets \subseteq SUBSET Tasks

VARIABLES
    loggers,        \* a member of LoggerSets
    pc, slot,       \* per task
    value,          \* task0: the next to send; task1: the one read last
    expected, g_error_count

taskVars == <<pc, slot, value, expected, g_error_count>>
appVars == <<loggers, taskVars, queueVars, rttVars>>

AppTypeOK ==
    /\ read_index \in Slot /\ write_index \in Slot
    /\ storage \in [Slot -> Value]
    /\ wr_off \in 0 .. SIZE - 1 /\ rd_off \in 0 .. SIZE - 1
    /\ up_buf \in [0 .. SIZE - 1 -> Byte \cup {NoByte}]
    /\ pc \in [Tasks -> {"get", "use", "update", "text", "clock", "round"}]
    /\ slot \in [Tasks -> Slot \cup {NULL}]
    /\ value \in [Tasks -> Value]
    /\ expected \in Value /\ g_error_count \in Value

\* os_app_main; g_queue_storage is in .bss.
AppInit ==
    /\ lfqueue_init
    /\ storage = [i \in Slot |-> 0]
    /\ RttInit
    /\ loggers \in LoggerSets
    /\ pc = [t \in Tasks |-> "get"]
    /\ slot = [t \in Tasks |-> NULL]
    /\ value = [t \in Tasks |-> IF t = "task0" THEN 1 ELSE 0]
    /\ expected = 1
    /\ g_error_count = 0

Goto(t, label) == pc' = [pc EXCEPT ![t] = label]

(***************************************************************************)
(* No slot: the task sleeps and tries again.                               *)
(***************************************************************************)
Get(t, location) ==
    /\ pc[t] = "get"
    /\ location # NULL
    /\ slot' = [slot EXCEPT ![t] = location]
    /\ Goto(t, "use")
    /\ UNCHANGED <<loggers, value, expected, g_error_count, queueVars, rttVars>>

SendUse ==
    /\ pc["task0"] = "use"
    /\ storage' = [storage EXCEPT ![slot["task0"]] = value["task0"]]
    /\ Goto("task0", "update")
    /\ UNCHANGED <<loggers, slot, value, expected, g_error_count, read_index,
                   write_index, rttVars>>

ReceiveUse ==
    /\ pc["task1"] = "use"
    /\ value' = [value EXCEPT !["task1"] = storage[slot["task1"]]]
    /\ Goto("task1", "update")
    /\ UNCHANGED <<loggers, slot, expected, g_error_count, queueVars, rttVars>>

Update(t) ==
    /\ pc[t] = "update"
    /\ IF t = "task0" THEN update_write_index ELSE update_read_index
    /\ slot' = [slot EXCEPT ![t] = NULL]
    /\ Goto(t, IF t \in loggers THEN "text" ELSE "round")
    /\ UNCHANGED <<loggers, value, expected, g_error_count, rttVars>>

\* A call of os_rtt_write; its steps are RttStep(t).
Log(t) ==
    /\ \/ pc[t] = "text" /\ os_rtt_puts(t, Text) /\ Goto(t, "clock")
       \/ pc[t] = "clock" /\ os_rtt_write(t, Clock) /\ Goto(t, "round")
    /\ UNCHANGED <<loggers, slot, value, expected, g_error_count, queueVars>>

SendRound ==
    /\ pc["task0"] = "round" /\ at["task0"] = "out"
    /\ value' = [value EXCEPT !["task0"] = (@ + 1) % WORD]
    /\ Goto("task0", "get")
    /\ UNCHANGED <<loggers, slot, expected, g_error_count, queueVars, rttVars>>

ReceiveRound ==
    /\ pc["task1"] = "round" /\ at["task1"] = "out"
    /\ expected' = (value["task1"] + 1) % WORD
    /\ g_error_count' = IF value["task1"] # expected THEN (g_error_count + 1) % WORD
                        ELSE g_error_count
    /\ Goto("task1", "get")
    /\ UNCHANGED <<loggers, slot, value, queueVars, rttVars>>

task0 ==
    \/ Get("task0", get_write_location)
    \/ SendUse
    \/ Update("task0")
    \/ Log("task0")
    \/ RttStep("task0") /\ UNCHANGED <<loggers, taskVars, queueVars>>
    \/ SendRound

task1 ==
    \/ Get("task1", get_read_location)
    \/ ReceiveUse
    \/ Update("task1")
    \/ Log("task1")
    \/ RttStep("task1") /\ UNCHANGED <<loggers, taskVars, queueVars>>
    \/ ReceiveRound

Host == (HostRead \/ HostAdvance) /\ UNCHANGED <<loggers, taskVars, queueVars>>

AppNext == task0 \/ task1 \/ Host

AppSpec == AppInit /\ [][AppNext]_appVars

(***************************************************************************)
(* Both tasks are given the processor again and again (TimeSlicing and     *)
(* SleepersWake of module Scheduler).  The host owes nothing: there may be *)
(* no probe.                                                               *)
(***************************************************************************)
AppLiveSpec == AppSpec /\ WF_appVars(task0) /\ WF_appVars(task1)

-----------------------------------------------------------------------------
(* Properties *)

(***************************************************************************)
(* lfqueue.c implements a bounded FIFO of capacity - 1 messages: task1     *)
(* copies the oldest published value and only then gives its slot back.    *)
(***************************************************************************)
Queue == INSTANCE BoundedFIFO WITH
    Message <- Value, Capacity <- capacity - 1, buffer <- Published, out <- value["task1"]

QueueIsFIFO == Queue!FIFOSpec

(***************************************************************************)
(* Producer and consumer never work on one slot, although each decides on  *)
(* an index of the other that may be out of date when the slot is used.    *)
(***************************************************************************)
SlotsDisjoint ==
    pc["task0"] \in {"use", "update"} /\ pc["task1"] \in {"use", "update"}
        => slot["task0"] # slot["task1"]

(***************************************************************************)
(* TODO.md: "g_error_count == 0": task1 receives 1, 2, 3, ... without a    *)
(* gap, across the wrap of the value and of both indices.                  *)
(***************************************************************************)
NoErrors == g_error_count = 0

(***************************************************************************)
(* TODO.md: "g_task1_sent/g_task2_recv progressing": every value comes     *)
(* through again and again, even if the host never empties the RTT         *)
(* channel (os_rtt_write skips what does not fit).                         *)
(***************************************************************************)
KeepsFlowing == \A v \in Value : []<>(value["task1"] = v)

(***************************************************************************)
(* The RTT channel is a FIFO of SIZE - 1 bytes between the tasks and the   *)
(* host: no step overwrites, loses or repeats a byte that is in it.        *)
(* rtt.c: "primask guards the wr_off against concurrent os_rtt_write()     *)
(* calls from other tasks/ISRs".  True of a single writer only.            *)
(***************************************************************************)
UpChannel == INSTANCE BoundedFIFO WITH
    Message <- Byte, Capacity <- SIZE - 1, buffer <- InChannel, out <- host

LogIsFIFO == UpChannel!FIFOSpec
=============================================================================
