-------------------------------- MODULE Rtt --------------------------------
(***************************************************************************)
(* kernel/rtt.c: the up channel, a ring buffer that tasks write byte by    *)
(* byte and a debug probe on the host empties.                             *)
(*                                                                         *)
(* os_rtt_write brackets its loop with os_port_irq_save, a cpsid, which an *)
(* unprivileged task executes without effect (every task runs with         *)
(* CONTROL = 3): the loop is preemptible, and each access to wr_off,       *)
(* rd_off and the buffer (volatile, -O0) is a step of its own.             *)
(***************************************************************************)
EXTENDS Integers, Sequences

CONSTANTS
    Writer,     \* the tasks that may call os_rtt_write
    Byte,
    SIZE,       \* OS_RTT_UP_BUF_SIZE
    NoByte      \* nothing read by the host yet

ASSUME RttAssumption == SIZE \in Nat /\ SIZE >= 2 /\ NoByte \notin Byte

VARIABLES
    wr_off, rd_off, up_buf,
    data,       \* per writer: the bytes data[i ..] that os_rtt_write has left
    at,         \* per writer: its place in os_rtt_write
    next, idx,  \* per writer: registers
    host,       \* the byte the host has read last
    pending     \* the host has still to acknowledge it

writeVars == <<wr_off, up_buf, data, at, next, idx>>
hostVars == <<host, pending>>
rttVars == <<writeVars, rd_off, hostVars>>

RttInit ==
    /\ wr_off = 0 /\ rd_off = 0
    /\ up_buf = [i \in 0 .. SIZE - 1 |-> NoByte]
    /\ data = [t \in Writer |-> << >>]
    /\ at = [t \in Writer |-> "out"]
    /\ next = [t \in Writer |-> 0]
    /\ idx = [t \in Writer |-> 0]
    /\ host = NoByte
    /\ pending = FALSE

os_rtt_write(t, bytes) ==
    /\ at[t] = "out" /\ bytes # << >>
    /\ at' = [at EXCEPT ![t] = "next"]
    /\ data' = [data EXCEPT ![t] = bytes]
    /\ UNCHANGED <<wr_off, rd_off, up_buf, next, idx, hostVars>>

\* The length of a string is its number of bytes.
os_rtt_puts(t, str) == os_rtt_write(t, str)

RttNext(t) ==
    /\ at[t] = "next"
    /\ next' = [next EXCEPT ![t] = IF wr_off + 1 = SIZE THEN 0 ELSE wr_off + 1]
    /\ at' = [at EXCEPT ![t] = "test"]
    /\ UNCHANGED <<wr_off, rd_off, up_buf, data, idx, hostVars>>

(***************************************************************************)
(* The channel is full: the rest of this call's bytes is dropped.          *)
(***************************************************************************)
\* Mutants: wait until the host has read; no test at all.
RttTest_wait(t) ==
    /\ at[t] = "test" /\ next[t] # rd_off
    /\ at' = [at EXCEPT ![t] = "index"]
    /\ UNCHANGED <<wr_off, rd_off, up_buf, data, next, idx, hostVars>>
RttTest_none(t) ==
    /\ at[t] = "test"
    /\ at' = [at EXCEPT ![t] = "index"]
    /\ UNCHANGED <<wr_off, rd_off, up_buf, data, next, idx, hostVars>>

RttTest(t) ==
    /\ at[t] = "test"
    /\ IF next[t] = rd_off
         THEN /\ at' = [at EXCEPT ![t] = "out"]
              /\ data' = [data EXCEPT ![t] = << >>]
              /\ next' = [next EXCEPT ![t] = 0]
         ELSE at' = [at EXCEPT ![t] = "index"] /\ UNCHANGED <<data, next>>
    /\ UNCHANGED <<wr_off, rd_off, up_buf, idx, hostVars>>

RttIndex(t) ==
    /\ at[t] = "index"
    /\ idx' = [idx EXCEPT ![t] = wr_off]
    /\ at' = [at EXCEPT ![t] = "store"]
    /\ UNCHANGED <<wr_off, rd_off, up_buf, data, next, hostVars>>

RttStore(t) ==
    /\ at[t] = "store"
    /\ up_buf' = [up_buf EXCEPT ![idx[t]] = Head(data[t])]
    /\ at' = [at EXCEPT ![t] = "publish"]
    /\ UNCHANGED <<wr_off, rd_off, data, next, idx, hostVars>>

RttPublish(t) ==
    /\ at[t] = "publish"
    /\ wr_off' = next[t]
    /\ data' = [data EXCEPT ![t] = Tail(@)]
    /\ at' = [at EXCEPT ![t] = IF Len(data[t]) > 1 THEN "next" ELSE "out"]
    /\ next' = [next EXCEPT ![t] = 0]
    /\ idx' = [idx EXCEPT ![t] = 0]
    /\ UNCHANGED <<rd_off, up_buf, hostVars>>

RttStep(t) ==
    RttNext(t) \/ RttTest(t) \/ RttIndex(t) \/ RttStore(t) \/ RttPublish(t)

(***************************************************************************)
(* The host (OpenOCD) copies a byte, then moves rd_off, whenever it likes. *)
(***************************************************************************)
HostRead ==
    /\ ~ pending /\ rd_off # wr_off
    /\ host' = up_buf[rd_off]
    /\ pending' = TRUE
    /\ UNCHANGED <<writeVars, rd_off>>

HostAdvance ==
    /\ pending
    /\ rd_off' = (rd_off + 1) % SIZE
    /\ pending' = FALSE
    /\ UNCHANGED <<writeVars, host>>

(***************************************************************************)
(* The bytes in the channel, oldest first.                                 *)
(***************************************************************************)
InChannel ==
    [n \in 1 .. (wr_off - rd_off) % SIZE |-> up_buf[(rd_off + n - 1) % SIZE]]
=============================================================================
