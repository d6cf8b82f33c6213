---------------------------- MODULE AppMainProofs ----------------------------
(***************************************************************************)
(* The lock-free queue and the log of app_main.c are bounded FIFOs for any *)
(* ring sizes, any word size and any interleaving of the two tasks and the *)
(* host; the values arrive without a gap.                                  *)
(***************************************************************************)
EXTENDS AppMain, SequenceTheorems, TLAPS

-----------------------------------------------------------------------------
(* Ring buffers *)

(***************************************************************************)
(* Modular arithmetic within one turn of a ring.                           *)
(***************************************************************************)
LEMMA ModFacts ==
    ASSUME NEW c \in Nat, c >= 2, NEW x \in Int, 0 <= x, x < 2 * c
    PROVE  x % c = IF x < c THEN x ELSE x - c
  OBVIOUS

(***************************************************************************)
(* The contents of a ring of c slots between a read and a write index: the *)
(* common shape of Published (lfqueue.c) and InChannel (rtt.c).            *)
(***************************************************************************)
Ring(st, r, w, c) == [n \in 1 .. (w - r) % c |-> st[(r + n - 1) % c]]

Next(i, c) == IF i + 1 = c THEN 0 ELSE i + 1

(***************************************************************************)
(* The next index is in the ring.                                          *)
(***************************************************************************)
LEMMA NextFacts ==
    ASSUME NEW c \in Nat, c >= 2, NEW i \in 0 .. c - 1
    PROVE  Next(i, c) \in 0 .. c - 1 /\ Next(i, c) # i
  BY DEF Next

(***************************************************************************)
(* How many slots are filled: at most all but one.                         *)
(***************************************************************************)
LEMMA RingCount ==
    ASSUME NEW c \in Nat, c >= 2, NEW r \in 0 .. c - 1, NEW w \in 0 .. c - 1
    PROVE  /\ (w - r) % c = IF r <= w THEN w - r ELSE w - r + c
           /\ (w - r) % c \in 0 .. c - 1
<1>1. (w - r) % c = IF r <= w THEN w - r ELSE w - r + c
  OBVIOUS
<1> QED
  BY <1>1

(***************************************************************************)
(* Where the n-th element is: never at the write index.                    *)
(***************************************************************************)
LEMMA RingIndex ==
    ASSUME NEW c \in Nat, c >= 2, NEW r \in 0 .. c - 1, NEW w \in 0 .. c - 1,
           NEW n \in 1 .. (w - r) % c
    PROVE  /\ (r + n - 1) % c = IF r + n - 1 < c THEN r + n - 1 ELSE r + n - 1 - c
           /\ (r + n - 1) % c \in 0 .. c - 1
           /\ (r + n - 1) % c # w
<1>1. n \in Nat /\ 1 <= n /\ n <= (IF r <= w THEN w - r ELSE w - r + c)
  BY RingCount
<1> DEFINE x == r + n - 1
<1>2. x \in Int /\ 0 <= x /\ x < 2 * c
  BY <1>1
<1> HIDE DEF x
<1>3. x % c = IF x < c THEN x ELSE x - c
  BY <1>2, ModFacts
<1> QED
  BY <1>1, <1>3 DEF x

(***************************************************************************)
(* A ring as a sequence, and when it is empty or full.                     *)
(***************************************************************************)
LEMMA RingLength ==
    ASSUME NEW c \in Nat, c >= 2, NEW r \in 0 .. c - 1, NEW w \in 0 .. c - 1,
           NEW V, NEW st \in [0 .. c - 1 -> V]
    PROVE  /\ Ring(st, r, w, c) \in Seq(V)
           /\ Len(Ring(st, r, w, c)) = (w - r) % c
           /\ Next(w, c) # r <=> Len(Ring(st, r, w, c)) < c - 1
           /\ r # w <=> Len(Ring(st, r, w, c)) > 0
<1> DEFINE k == (w - r) % c
<1>1. k = (IF r <= w THEN w - r ELSE w - r + c) /\ k \in Nat
  BY RingCount
<1>2. \A n \in 1 .. k : st[(r + n - 1) % c] \in V
  BY RingIndex
<1>3. Ring(st, r, w, c) = [n \in 1 .. k |-> st[(r + n - 1) % c]]
  BY DEF Ring
<1>4. k = (w - r) % c
  OBVIOUS
<1> HIDE DEF k
<1>5. Ring(st, r, w, c) \in Seq(V) /\ Len(Ring(st, r, w, c)) = k
  BY <1>1, <1>2, <1>3
<1>6. Next(w, c) # r <=> k < c - 1
  BY <1>1 DEF Next
<1>7. r # w <=> k > 0
  BY <1>1
<1> QED
  BY <1>4, <1>5, <1>6, <1>7

(***************************************************************************)
(* Filling the slot of the write index changes nothing yet.                *)
(***************************************************************************)
LEMMA RingWrite ==
    ASSUME NEW c \in Nat, c >= 2, NEW r \in 0 .. c - 1, NEW w \in 0 .. c - 1,
           NEW V, NEW st \in [0 .. c - 1 -> V], NEW v
    PROVE  Ring([st EXCEPT ![w] = v], r, w, c) = Ring(st, r, w, c)
<1>1. ASSUME NEW n \in 1 .. (w - r) % c
      PROVE  [st EXCEPT ![w] = v][(r + n - 1) % c] = st[(r + n - 1) % c]
  <2>1. (r + n - 1) % c \in 0 .. c - 1 /\ (r + n - 1) % c # w
    BY RingIndex
  <2> QED
    BY <2>1
<1> QED
  BY <1>1 DEF Ring

(***************************************************************************)
(* Advancing the write index of a ring that is not full appends what the   *)
(* slot holds.                                                             *)
(***************************************************************************)
LEMMA RingPut ==
    ASSUME NEW c \in Nat, c >= 2, NEW r \in 0 .. c - 1, NEW w \in 0 .. c - 1,
           NEW V, NEW st \in [0 .. c - 1 -> V], Next(w, c) # r
    PROVE  Ring(st, r, Next(w, c), c) = Append(Ring(st, r, w, c), st[w])
<1> DEFINE a == Ring(st, r, w, c)
           k == (w - r) % c
           x == Next(w, c)
           b == Ring(st, r, x, c)
           l == (x - r) % c
<1>1. x \in 0 .. c - 1
  BY NextFacts
<1>2. k = (IF r <= w THEN w - r ELSE w - r + c) /\ k \in 0 .. c - 1
  BY RingCount
<1>3. l = (IF r <= x THEN x - r ELSE x - r + c)
  BY <1>1, RingCount
<1>4. x = (IF w + 1 = c THEN 0 ELSE w + 1) /\ x # r
  BY DEF Next
<1>5. /\ a \in Seq(V) /\ Len(a) = k
      /\ \A n \in 1 .. k : a[n] = st[(r + n - 1) % c]
  <2>1. a \in Seq(V) /\ Len(a) = k
    BY RingLength
  <2> QED
    BY <2>1 DEF Ring
<1>6. /\ b \in Seq(V) /\ Len(b) = l
      /\ \A n \in 1 .. l : b[n] = st[(r + n - 1) % c]
  <2> HIDE DEF x
  <2>1. b \in Seq(V) /\ Len(b) = l
    BY <1>1, RingLength
  <2> QED
    BY <2>1 DEF Ring
<1>7. ASSUME NEW n \in 1 .. l
      PROVE  (r + n - 1) % c = IF r + n - 1 < c THEN r + n - 1 ELSE r + n - 1 - c
  BY <1>1, RingIndex
<1> HIDE DEF a, b, k, l, x
<1>8. l = k + 1
  BY <1>2, <1>3, <1>4
<1>9. (r + l - 1) % c = w
  <2>1. l \in 1 .. l
    BY <1>2, <1>8
  <2> QED
    BY <1>2, <1>7, <1>8, <2>1
<1>10. b[k + 1] = st[w] /\ \A n \in 1 .. k : b[n] = a[n]
  <2>1. k + 1 \in 1 .. l /\ \A n \in 1 .. k : n \in 1 .. l
    BY <1>2, <1>8
  <2>2. b[k + 1] = st[(r + (k + 1) - 1) % c]
    BY <1>6, <2>1
  <2>3. b[k + 1] = st[w]
    BY <1>8, <1>9, <2>2
  <2> QED
    BY <1>5, <1>6, <2>1, <2>3
<1>11. st[w] \in V /\ Append(a, st[w]) \in Seq(V) /\ Len(Append(a, st[w])) = k + 1
  BY <1>5
<1>12. \A n \in 1 .. k + 1 : Append(a, st[w])[n] = b[n]
  <2>1. \A n \in 1 .. k : Append(a, st[w])[n] = a[n]
    BY <1>5, <1>11, AppendProperties
  <2>2. Append(a, st[w])[k + 1] = st[w]
    BY <1>5, <1>11, AppendProperties
  <2>3. \A n \in 1 .. k + 1 : n \in 1 .. k \/ n = k + 1
    BY <1>2
  <2> QED
    BY <1>10, <2>1, <2>2, <2>3
<1>13. Append(a, st[w]) = b
  BY <1>6, <1>8, <1>11, <1>12, SeqEqual
<1> QED
  BY <1>13 DEF a, b, x

(***************************************************************************)
(* The slot of the read index is the head, and advancing the index drops   *)
(* it.                                                                     *)
(***************************************************************************)
LEMMA RingRemove ==
    ASSUME NEW c \in Nat, c >= 2, NEW r \in 0 .. c - 1, NEW w \in 0 .. c - 1,
           NEW V, NEW st \in [0 .. c - 1 -> V], r # w
    PROVE  /\ Ring(st, r, w, c) # << >>
           /\ Head(Ring(st, r, w, c)) = st[r]
           /\ Ring(st, Next(r, c), w, c) = Tail(Ring(st, r, w, c))
<1> DEFINE a == Ring(st, r, w, c)
           k == (w - r) % c
           x == Next(r, c)
           b == Ring(st, x, w, c)
           j == (w - x) % c
<1>1. x \in 0 .. c - 1
  BY NextFacts
<1>2. k = (IF r <= w THEN w - r ELSE w - r + c) /\ k \in 0 .. c - 1
  BY RingCount
<1>3. j = (IF x <= w THEN w - x ELSE w - x + c)
  BY <1>1, RingCount
<1>4. x = (IF r + 1 = c THEN 0 ELSE r + 1)
  BY DEF Next
<1>5. /\ a \in Seq(V) /\ Len(a) = k
      /\ \A n \in 1 .. k : a[n] = st[(r + n - 1) % c]
  <2>1. a \in Seq(V) /\ Len(a) = k
    BY RingLength
  <2> QED
    BY <2>1 DEF Ring
<1>6. /\ b \in Seq(V) /\ Len(b) = j
      /\ \A n \in 1 .. j : b[n] = st[(x + n - 1) % c]
  <2> HIDE DEF x
  <2>1. b \in Seq(V) /\ Len(b) = j
    BY <1>1, RingLength
  <2> QED
    BY <2>1 DEF Ring
<1>7. ASSUME NEW n \in 1 .. k
      PROVE  (r + n - 1) % c = IF r + n - 1 < c THEN r + n - 1 ELSE r + n - 1 - c
  BY RingIndex
<1>8. ASSUME NEW n \in 1 .. j
      PROVE  (x + n - 1) % c = IF x + n - 1 < c THEN x + n - 1 ELSE x + n - 1 - c
  BY <1>1, RingIndex
<1> HIDE DEF a, b, k, j, x
<1>9. j = k - 1 /\ 1 \in 1 .. k
  BY <1>2, <1>3, <1>4
<1>10. a[1] = st[r]
  <2>1. (r + 1 - 1) % c = r
    BY <1>7, <1>9
  <2> QED
    BY <1>5, <1>9, <2>1
<1>11. ASSUME NEW n \in 1 .. k - 1
       PROVE  b[n] = a[n + 1]
  <2>1. n \in 1 .. j /\ n + 1 \in 1 .. k
    BY <1>2, <1>9
  <2>2. b[n] = st[(x + n - 1) % c] /\ a[n + 1] = st[(r + (n + 1) - 1) % c]
    BY <1>5, <1>6, <2>1
  <2>3. (r + (n + 1) - 1) % c =
          IF r + (n + 1) - 1 < c THEN r + (n + 1) - 1 ELSE r + (n + 1) - 1 - c
    BY <1>7, <2>1
  <2>4. (x + n - 1) % c = IF x + n - 1 < c THEN x + n - 1 ELSE x + n - 1 - c
    BY <1>8, <2>1
  <2>5. (x + n - 1) % c = (r + (n + 1) - 1) % c
    <3> DEFINE y == (x + n - 1) % c
               z == (r + (n + 1) - 1) % c
    <3>1. y = (IF x + n - 1 < c THEN x + n - 1 ELSE x + n - 1 - c)
          /\ z = (IF r + n < c THEN r + n ELSE r + n - c)
      BY <2>3, <2>4
    <3> HIDE DEF y, z
    <3>2. y = z
      BY <1>2, <1>4, <3>1
    <3> QED
      BY <3>2 DEF y, z
  <2> QED
    BY <2>2, <2>5
<1>12. a # << >>
  BY <1>2, <1>5, <1>9, EmptySeq
<1>13. /\ Head(a) = a[1] /\ Tail(a) \in Seq(V) /\ Len(Tail(a)) = k - 1
       /\ \A n \in 1 .. k - 1 : Tail(a)[n] = a[n + 1]
  BY <1>5, <1>12, HeadTailProperties
<1>14. \A n \in 1 .. k - 1 : Tail(a)[n] = b[n]
  BY <1>11, <1>13
<1>15. Tail(a) = b
  BY <1>6, <1>9, <1>13, <1>14, SeqEqual
<1> QED
  BY <1>10, <1>12, <1>13, <1>15 DEF a, b, x

-----------------------------------------------------------------------------
(* Types *)

(***************************************************************************)
(* What AppTypeOK leaves out: the registers of os_rtt_write and the slot a *)
(* task works on.                                                          *)
(***************************************************************************)
LocalTypeOK ==
    /\ data \in [Tasks -> Seq(Byte)]
    /\ at \in [Tasks -> {"out", "next", "test", "index", "store", "publish"}]
    /\ next \in [Tasks -> 0 .. SIZE - 1]
    /\ idx \in [Tasks -> 0 .. SIZE - 1]
    /\ host \in Byte \cup {NoByte}
    /\ pending \in BOOLEAN
    /\ loggers \in LoggerSets
    /\ \A t \in Tasks : at[t] # "out" => data[t] # << >>
    /\ \A t \in Tasks : pc[t] \in {"use", "update"} => slot[t] \in Slot

Types == AppTypeOK /\ LocalTypeOK

(***************************************************************************)
(* What the tasks log are bytes of the channel.                            *)
(***************************************************************************)
LEMMA TextFacts ==
    /\ Text \in Seq(Byte) /\ Text # << >>
    /\ Clock \in Seq(Byte) /\ Clock # << >>
<1>1. \A i \in DOMAIN (Text \o Clock) : (Text \o Clock)[i] \in Byte
  BY AppMainAssumption
<1>2. 1 \in DOMAIN (Text \o Clock) /\ 3 \in DOMAIN (Text \o Clock)
      /\ (Text \o Clock)[1] = "t" /\ (Text \o Clock)[3] = "c"
  BY DEF Text, Clock
<1>3. "t" \in Byte /\ "c" \in Byte
  BY <1>1, <1>2
<1> QED
  BY <1>3 DEF Text, Clock

(***************************************************************************)
(* The sizes of the two rings and of the values.                           *)
(***************************************************************************)
LEMMA Sizes ==
    /\ capacity \in Nat /\ capacity >= 2 /\ Slot = 0 .. capacity - 1
    /\ SIZE \in Nat /\ SIZE >= 2
    /\ WORD \in Nat /\ WORD > capacity
    /\ Writer = Tasks /\ NULL \notin Slot
  BY LFQueueAssumption, RttAssumption, AppMainAssumption DEF Slot

(***************************************************************************)
(* app_main.c starts in states of the right types.                         *)
(***************************************************************************)
LEMMA InitTypes == AppInit => Types
<1> SUFFICES ASSUME AppInit PROVE Types
  OBVIOUS
<1>1. AppTypeOK
  BY Sizes DEF AppInit, RttInit, lfqueue_init, AppTypeOK, Value, Tasks
<1>2. << >> \in Seq(Byte)
  OBVIOUS
<1>3. /\ data = [t \in Tasks |-> << >>] /\ at = [t \in Tasks |-> "out"]
      /\ next = [t \in Tasks |-> 0] /\ idx = [t \in Tasks |-> 0]
      /\ host = NoByte /\ pending = FALSE /\ loggers \in LoggerSets
      /\ pc = [t \in Tasks |-> "get"]
  BY Sizes DEF AppInit, RttInit
<1>4. 0 \in 0 .. SIZE - 1
  BY Sizes
<1>5. LocalTypeOK
  BY <1>2, <1>3, <1>4 DEF LocalTypeOK
<1> QED
  BY <1>1, <1>5 DEF Types

(***************************************************************************)
(* The index functions of lfqueue.c stay within the ring.                  *)
(***************************************************************************)
LEMMA IndexFacts ==
    ASSUME NEW i \in Slot
    PROVE  lfqueue_next_index(i) = Next(i, capacity) /\ lfqueue_next_index(i) \in Slot
  BY Sizes, NextFacts DEF lfqueue_next_index, Next

(***************************************************************************)
(* The loop of os_rtt_write: bytes are left until the last was written.    *)
(***************************************************************************)
LEMMA TailFacts ==
    ASSUME NEW S, NEW s \in Seq(S), s # << >>
    PROVE  Tail(s) \in Seq(S) /\ (Len(s) > 1 => Tail(s) # << >>)
<1> DEFINE u == Tail(s)
<1>1. u \in Seq(S) /\ Len(u) = Len(s) - 1
  BY HeadTailProperties
<1>2. Len(s) \in Nat /\ (u = << >> => Len(u) = 0)
  BY EmptySeq, LenProperties
<1> HIDE DEF u
<1>3. Len(s) > 1 => u # << >>
  BY <1>1, <1>2
<1> QED
  BY <1>1, <1>3 DEF u

(***************************************************************************)
(* A step of os_rtt_write keeps the types.                                 *)
(***************************************************************************)
LEMMA RttStepTypes ==
    ASSUME Types, NEW t \in Tasks, RttStep(t), UNCHANGED <<loggers, taskVars, queueVars>>
    PROVE  Types'
<1> USE Sizes DEF Types
<1>0. AppTypeOK' <=> /\ wr_off' \in 0 .. SIZE - 1 /\ rd_off' \in 0 .. SIZE - 1
                     /\ up_buf' \in [0 .. SIZE - 1 -> Byte \cup {NoByte}]
  BY DEF AppTypeOK, taskVars, queueVars
<1>1. CASE RttNext(t)
  <2>1. (IF wr_off + 1 = SIZE THEN 0 ELSE wr_off + 1) \in 0 .. SIZE - 1
    BY DEF AppTypeOK
  <2> QED
    BY <1>0, <1>1, <2>1 DEF RttNext, LocalTypeOK, hostVars, taskVars, AppTypeOK
<1>2. CASE RttTest(t)
  <2>1. << >> \in Seq(Byte) /\ 0 \in 0 .. SIZE - 1
    OBVIOUS
  <2>2. CASE next[t] = rd_off
    BY <1>0, <1>2, <2>1, <2>2 DEF RttTest, LocalTypeOK, hostVars, taskVars, AppTypeOK
  <2>3. CASE next[t] # rd_off
    BY <1>0, <1>2, <2>3 DEF RttTest, LocalTypeOK, hostVars, taskVars, AppTypeOK
  <2> QED
    BY <2>2, <2>3
<1>3. CASE RttIndex(t)
  BY <1>0, <1>3 DEF RttIndex, LocalTypeOK, hostVars, taskVars, AppTypeOK
<1>4. CASE RttStore(t)
  <2>1. Head(data[t]) \in Byte
    BY <1>4 DEF RttStore, LocalTypeOK
  <2> QED
    BY <1>0, <1>4, <2>1 DEF RttStore, LocalTypeOK, hostVars, taskVars, AppTypeOK
<1>5. CASE RttPublish(t)
  <2>1. data[t] \in Seq(Byte) /\ data[t] # << >>
    BY <1>5 DEF RttPublish, LocalTypeOK
  <2>2. Tail(data[t]) \in Seq(Byte) /\ (Len(data[t]) > 1 => Tail(data[t]) # << >>)
    BY <2>1, TailFacts
  <2> QED
    BY <1>0, <1>5, <2>2 DEF RttPublish, LocalTypeOK, hostVars, taskVars, AppTypeOK
<1> QED
  BY <1>1, <1>2, <1>3, <1>4, <1>5 DEF RttStep

(***************************************************************************)
(* Every step keeps the types.                                             *)
(***************************************************************************)
LEMMA TypesStep == Types /\ [AppNext]_appVars => Types'
<1> SUFFICES ASSUME Types, [AppNext]_appVars PROVE Types'
  OBVIOUS
<1> USE Sizes DEF Types
<1>1. ASSUME NEW t \in Tasks, NEW location \in Slot \cup {NULL}, Get(t, location) PROVE Types'
  BY <1>1 DEF Get, Goto, AppTypeOK, LocalTypeOK, queueVars, rttVars, writeVars, hostVars
<1>2. CASE SendUse
  BY <1>2 DEF SendUse, Goto, AppTypeOK, LocalTypeOK, rttVars, writeVars, hostVars, Tasks
<1>3. CASE ReceiveUse
  <2>1. "task1" \in Tasks /\ storage[slot["task1"]] \in Value
    BY <1>3 DEF ReceiveUse, AppTypeOK, LocalTypeOK, Tasks
  <2> QED
    BY <1>3, <2>1 DEF ReceiveUse, Goto, AppTypeOK, LocalTypeOK, queueVars, rttVars, writeVars,
       hostVars
<1>4. ASSUME NEW t \in Tasks, Update(t) PROVE Types'
  <2>1. read_index' \in Slot /\ write_index' \in Slot /\ storage' = storage
    BY <1>4, IndexFacts DEF Update, update_write_index, update_read_index, AppTypeOK
  <2> QED
    BY <1>4, <2>1 DEF Update, Goto, AppTypeOK, LocalTypeOK, rttVars, writeVars, hostVars
<1>5. ASSUME NEW t \in Tasks, Log(t) PROVE Types'
  <2>1. PICK bytes \in {Text, Clock}, label \in {"clock", "round"} :
          os_rtt_write(t, bytes) /\ Goto(t, label)
    BY <1>5 DEF Log, os_rtt_puts
  <2>2. bytes \in Seq(Byte) /\ bytes # << >>
    BY TextFacts
  <2>3. UNCHANGED <<loggers, slot, value, expected, g_error_count, queueVars>>
    BY <1>5 DEF Log
  <2>4. AppTypeOK'
    BY <2>1, <2>3 DEF os_rtt_write, Goto, AppTypeOK, queueVars
  <2>5. LocalTypeOK'
    BY <2>1, <2>2, <2>3 DEF os_rtt_write, Goto, AppTypeOK, LocalTypeOK, hostVars
  <2> QED
    BY <2>4, <2>5
<1>6. ASSUME NEW t \in Tasks, RttStep(t) /\ UNCHANGED <<loggers, taskVars, queueVars>> PROVE Types'
  BY <1>6, RttStepTypes
<1>7. CASE SendRound
  <2>1. (value["task0"] + 1) % WORD \in Value
    BY DEF AppTypeOK, Tasks, Value
  <2> QED
    BY <1>7, <2>1 DEF SendRound, Goto, AppTypeOK, LocalTypeOK, queueVars, rttVars, writeVars,
       hostVars, Tasks
<1>8. CASE ReceiveRound
  <2>1. (value["task1"] + 1) % WORD \in Value /\ (g_error_count + 1) % WORD \in Value
    BY DEF AppTypeOK, Tasks, Value
  <2> QED
    BY <1>8, <2>1 DEF ReceiveRound, Goto, AppTypeOK, LocalTypeOK, queueVars, rttVars, writeVars,
       hostVars, Tasks
<1>9. CASE Host
  <2>1. (rd_off + 1) % SIZE \in 0 .. SIZE - 1
    BY DEF AppTypeOK
  <2> QED
    BY <1>9, <2>1 DEF Host, HostRead, HostAdvance, AppTypeOK, LocalTypeOK, queueVars, taskVars,
       writeVars
<1>10. CASE UNCHANGED appVars
  BY <1>10 DEF appVars, taskVars, AppTypeOK, LocalTypeOK, queueVars, rttVars, writeVars, hostVars
<1>11. /\ "task0" \in Tasks /\ "task1" \in Tasks
       /\ get_write_location \in Slot \cup {NULL} /\ get_read_location \in Slot \cup {NULL}
  BY DEF Tasks, get_write_location, get_read_location, AppTypeOK
<1> QED
  BY <1>1, <1>2, <1>3, <1>4, <1>5, <1>6, <1>7, <1>8, <1>9, <1>10, <1>11
     DEF AppNext, task0, task1

(***************************************************************************)
(* The tasks, the two rings and the registers of os_rtt_write keep their   *)
(* types.                                                                  *)
(***************************************************************************)
THEOREM AppTypeCorrect == AppSpec => []AppTypeOK
<1>1. Types => AppTypeOK
  BY DEF Types
<1> QED
  BY <1>1, InitTypes, TypesStep, PTL DEF AppSpec

-----------------------------------------------------------------------------
(* The lock-free queue *)

(***************************************************************************)
(* The uint32_t values that are sent: v + n wraps at most once.            *)
(***************************************************************************)
Plus(v, n) == (v + n) % WORD

(***************************************************************************)
(* A wrap is one subtraction of WORD.                                      *)
(***************************************************************************)
LEMMA PlusValue ==
    ASSUME NEW v \in Nat, NEW n \in Nat, v + n < 2 * WORD
    PROVE  Plus(v, n) = IF v + n < WORD THEN v + n ELSE (v + n) - WORD
<1> DEFINE x == v + n
<1>1. x \in Int /\ 0 <= x /\ x < 2 * WORD
  OBVIOUS
<1>2. WORD \in Nat /\ WORD >= 2
  BY Sizes
<1>3. Plus(v, n) = x % WORD
  BY DEF Plus
<1>4. x = v + n
  OBVIOUS
<1> HIDE DEF x
<1>5. x % WORD = IF x < WORD THEN x ELSE x - WORD
  BY <1>1, <1>2, ModFacts
<1>6. Plus(v, n) = IF x < WORD THEN x ELSE x - WORD
  BY <1>3, <1>5
<1> QED
  BY <1>2, <1>4, <1>6

(***************************************************************************)
(* Less than WORD increments may be grouped in any way.                    *)
(***************************************************************************)
LEMMA PlusFacts ==
    ASSUME NEW v \in Value
    PROVE  /\ \A n \in Nat : Plus(v, n) \in Value
           /\ Plus(v, 0) = v
           /\ \A n \in Nat : n + 1 < WORD => /\ Plus(Plus(v, 1), n) = Plus(v, n + 1)
                                             /\ Plus(Plus(v, n), 1) = Plus(v, n + 1)
<1>1. WORD \in Nat /\ WORD >= 2 /\ v \in Nat /\ v < WORD
  BY Sizes DEF Value
<1>2. ASSUME NEW n \in Nat
      PROVE  Plus(v, n) \in Value
  BY <1>1 DEF Plus, Value
<1>3. Plus(v, 0) = v
  BY <1>1, PlusValue
<1>4. ASSUME NEW n \in Nat, n + 1 < WORD
      PROVE  Plus(Plus(v, 1), n) = Plus(v, n + 1) /\ Plus(Plus(v, n), 1) = Plus(v, n + 1)
  <2> DEFINE a == Plus(v, 1)
             b == Plus(v, n)
             d == Plus(v, n + 1)
  <2>1. a = IF v + 1 < WORD THEN v + 1 ELSE (v + 1) - WORD
    BY <1>1, PlusValue
  <2>2. b = IF v + n < WORD THEN v + n ELSE (v + n) - WORD
    BY <1>1, <1>4, PlusValue
  <2>3. d = IF v + (n + 1) < WORD THEN v + (n + 1) ELSE (v + (n + 1)) - WORD
    <3>1. n + 1 \in Nat /\ v + (n + 1) < 2 * WORD
      BY <1>1, <1>4
    <3> QED
      BY <1>1, <3>1, PlusValue
  <2> HIDE DEF a, b, d
  <2>4. a \in Nat /\ a + n < 2 * WORD /\ b \in Nat /\ b + 1 < 2 * WORD
    BY <1>1, <1>4, <2>1, <2>2
  <2>5. Plus(a, n) = IF a + n < WORD THEN a + n ELSE (a + n) - WORD
    BY <2>4, PlusValue
  <2>6. Plus(b, 1) = IF b + 1 < WORD THEN b + 1 ELSE (b + 1) - WORD
    BY <2>4, PlusValue
  <2>7. Plus(a, n) = d /\ Plus(b, 1) = d
    BY <1>1, <1>4, <2>1, <2>2, <2>3, <2>5, <2>6
  <2> QED
    BY <2>7 DEF a, b, d
<1> QED
  BY <1>2, <1>3, <1>4

(***************************************************************************)
(* What a task knows of the ring while it works on a slot: each index is   *)
(* moved by one side only, and the other side only moves away from it.     *)
(***************************************************************************)
SlotInv ==
    /\ pc["task0"] \in {"use", "update"} =>
         slot["task0"] = write_index /\ Next(write_index, capacity) # read_index
    /\ pc["task1"] \in {"use", "update"} =>
         slot["task1"] = read_index /\ read_index # write_index
    /\ pc["task0"] = "update" => storage[write_index] = value["task0"]
    /\ pc["task1"] = "update" => storage[read_index] = value["task1"]

(***************************************************************************)
(* The values on their way: from the one task1 has to receive next to the  *)
(* one task0 has to publish next there is no gap.                          *)
(***************************************************************************)
Oldest == IF pc["task1"] \in {"get", "use", "update"} THEN expected ELSE Plus(expected, 1)
Newest == IF pc["task0"] \in {"get", "use", "update"} THEN value["task0"] ELSE Plus(value["task0"], 1)

ValueInv ==
    /\ g_error_count = 0
    /\ \A n \in 1 .. Len(Published) : Published[n] = Plus(Oldest, n - 1)
    /\ Newest = Plus(Oldest, Len(Published))
    /\ pc["task1"] \notin {"get", "use", "update"} => value["task1"] = expected

AppInv == Types /\ SlotInv /\ ValueInv

(***************************************************************************)
(* Published is a ring in the sense above.                                 *)
(***************************************************************************)
LEMMA PublishedFacts ==
    ASSUME Types
    PROVE  /\ Published = Ring(storage, read_index, write_index, capacity)
           /\ Published \in Seq(Value) /\ Len(Published) \in Nat
           /\ Len(Published) < capacity
<1>1. Published = Ring(storage, read_index, write_index, capacity)
  BY DEF Published, Ring
<1>2. /\ read_index \in 0 .. capacity - 1 /\ write_index \in 0 .. capacity - 1
      /\ storage \in [0 .. capacity - 1 -> Value]
      /\ capacity \in Nat /\ capacity >= 2
  BY Sizes DEF Types, AppTypeOK
<1>3. Published \in Seq(Value) /\ Len(Published) = (write_index - read_index) % capacity
  BY <1>1, <1>2, RingLength
<1>4. (write_index - read_index) % capacity \in 0 .. capacity - 1
  BY <1>2, RingCount
<1> QED
  BY <1>1, <1>3, <1>4, <1>2

(***************************************************************************)
(* Steps that leave the queue's memory alone leave what is published.      *)
(***************************************************************************)
LEMMA PublishedFrame ==
    UNCHANGED queueVars => UNCHANGED Published
  BY DEF queueVars, Published

(***************************************************************************)
(* task0 fills its slot: nothing is published yet.                         *)
(***************************************************************************)
LEMMA PublishedFill ==
    ASSUME Types, SlotInv, SendUse
    PROVE  UNCHANGED Published /\ storage'[write_index] = value["task0"]
           /\ \A i \in Slot \ {write_index} : storage'[i] = storage[i]
<1>1. /\ storage' = [storage EXCEPT ![write_index] = value["task0"]]
      /\ read_index' = read_index /\ write_index' = write_index
  BY DEF SendUse, SlotInv
<1>2. /\ read_index \in 0 .. capacity - 1 /\ write_index \in 0 .. capacity - 1
      /\ storage \in [0 .. capacity - 1 -> Value]
      /\ capacity \in Nat /\ capacity >= 2 /\ Slot = 0 .. capacity - 1
  BY Sizes DEF Types, AppTypeOK
<1>3. Ring(storage', read_index, write_index, capacity) =
      Ring(storage, read_index, write_index, capacity)
  BY <1>1, <1>2, RingWrite
<1>4. Published' = Published
  BY <1>1, <1>3 DEF Published, Ring
<1> QED
  BY <1>1, <1>2, <1>4

(***************************************************************************)
(* update_write_index publishes the value of task0 behind all others.      *)
(***************************************************************************)
LEMMA PublishedPut ==
    ASSUME Types, SlotInv, Update("task0")
    PROVE  /\ Published' = Append(Published, value["task0"])
           /\ write_index' = Next(write_index, capacity)
           /\ UNCHANGED <<read_index, storage>>
           /\ Len(Published) < capacity - 1
<1>1. /\ write_index' = lfqueue_next_index(write_index) /\ read_index' = read_index
      /\ storage' = storage /\ pc["task0"] = "update"
  BY DEF Update, update_write_index
<1>2. /\ read_index \in 0 .. capacity - 1 /\ write_index \in 0 .. capacity - 1
      /\ storage \in [0 .. capacity - 1 -> Value]
      /\ capacity \in Nat /\ capacity >= 2 /\ Slot = 0 .. capacity - 1
  BY Sizes DEF Types, AppTypeOK
<1>3. write_index' = Next(write_index, capacity)
  BY <1>1, <1>2, IndexFacts
<1>4. Next(write_index, capacity) # read_index /\ storage[write_index] = value["task0"]
  BY <1>1 DEF SlotInv
<1>5. Ring(storage, read_index, Next(write_index, capacity), capacity) =
      Append(Ring(storage, read_index, write_index, capacity), storage[write_index])
  BY <1>2, <1>4, RingPut
<1>6. Published' = Ring(storage, read_index, Next(write_index, capacity), capacity)
      /\ Published = Ring(storage, read_index, write_index, capacity)
  BY <1>1, <1>3 DEF Published, Ring
<1>7. Len(Published) < capacity - 1
  BY <1>2, <1>4, <1>6, RingLength
<1> QED
  BY <1>1, <1>3, <1>4, <1>5, <1>6, <1>7

(***************************************************************************)
(* update_read_index gives up the oldest value, the one task1 has copied.  *)
(***************************************************************************)
LEMMA PublishedRemove ==
    ASSUME Types, SlotInv, Update("task1")
    PROVE  /\ Published # << >> /\ Published' = Tail(Published)
           /\ Head(Published) = value["task1"]
           /\ read_index' = Next(read_index, capacity)
           /\ UNCHANGED <<write_index, storage>>
<1>1. /\ read_index' = lfqueue_next_index(read_index) /\ write_index' = write_index
      /\ storage' = storage /\ pc["task1"] = "update"
  BY DEF Update, update_read_index
<1>2. /\ read_index \in 0 .. capacity - 1 /\ write_index \in 0 .. capacity - 1
      /\ storage \in [0 .. capacity - 1 -> Value]
      /\ capacity \in Nat /\ capacity >= 2 /\ Slot = 0 .. capacity - 1
  BY Sizes DEF Types, AppTypeOK
<1>3. read_index' = Next(read_index, capacity)
  BY <1>1, <1>2, IndexFacts
<1>4. read_index # write_index /\ storage[read_index] = value["task1"]
  BY <1>1 DEF SlotInv
<1>5. Published' = Ring(storage, Next(read_index, capacity), write_index, capacity)
      /\ Published = Ring(storage, read_index, write_index, capacity)
  BY <1>1, <1>3 DEF Published, Ring
<1> QED
  BY <1>1, <1>2, <1>3, <1>4, <1>5, RingRemove

-----------------------------------------------------------------------------
(* The invariant of the transfer *)

(***************************************************************************)
(* Nothing is published at first; task0 will send what task1 expects.      *)
(***************************************************************************)
LEMMA InitAppInv == AppInit => AppInv
<1> SUFFICES ASSUME AppInit PROVE AppInv
  OBVIOUS
<1>1. Types
  BY InitTypes
<1>2. /\ pc["task0"] = "get" /\ pc["task1"] = "get" /\ value["task0"] = 1
      /\ expected = 1 /\ g_error_count = 0 /\ read_index = write_index
  BY DEF AppInit, lfqueue_init, Tasks
<1>3. Len(Published) = 0
  <2>1. /\ read_index \in 0 .. capacity - 1 /\ write_index \in 0 .. capacity - 1
        /\ storage \in [0 .. capacity - 1 -> Value] /\ capacity \in Nat /\ capacity >= 2
    BY <1>1, Sizes DEF Types, AppTypeOK
  <2>2. Published = Ring(storage, read_index, write_index, capacity) /\ Len(Published) \in Nat
    BY <1>1, PublishedFacts
  <2> QED
    BY <1>2, <2>1, <2>2, RingLength
<1>4. SlotInv
  BY <1>2 DEF SlotInv
<1>5. 1 \in Value
  BY Sizes DEF Value
<1>6. ValueInv
  BY <1>2, <1>3, <1>5, PlusFacts DEF ValueInv, Oldest, Newest
<1> QED
  BY <1>1, <1>4, <1>6 DEF AppInv

(***************************************************************************)
(* Logging, and steps of the host, are nothing to the queue.               *)
(***************************************************************************)
LEMMA AppInvFrame ==
    ASSUME AppInv, UNCHANGED <<slot, value, expected, g_error_count, queueVars>>,
           \A t \in Tasks : pc'[t] = pc[t] \/ {pc[t], pc'[t]} \subseteq {"text", "clock", "round"}
    PROVE  SlotInv' /\ ValueInv'
<1>1. UNCHANGED Published
  BY PublishedFrame
<1>2. \A t \in Tasks : \A S \in {{"use", "update"}, {"update"}, {"get", "use", "update"}} :
        pc'[t] \in S <=> pc[t] \in S
  OBVIOUS
<1>3. /\ pc'["task0"] \in {"use", "update"} <=> pc["task0"] \in {"use", "update"}
      /\ pc'["task1"] \in {"use", "update"} <=> pc["task1"] \in {"use", "update"}
      /\ pc'["task0"] = "update" <=> pc["task0"] = "update"
      /\ pc'["task1"] = "update" <=> pc["task1"] = "update"
      /\ pc'["task0"] \in {"get", "use", "update"} <=> pc["task0"] \in {"get", "use", "update"}
      /\ pc'["task1"] \in {"get", "use", "update"} <=> pc["task1"] \in {"get", "use", "update"}
  BY <1>2 DEF Tasks
<1>4. SlotInv'
  BY <1>3 DEF SlotInv, AppInv, queueVars
<1>5. Oldest' = Oldest /\ Newest' = Newest
  BY <1>3 DEF Oldest, Newest, Plus
<1>6. ValueInv'
  BY <1>1, <1>3, <1>5 DEF ValueInv, AppInv, Plus
<1> QED
  BY <1>4, <1>6

(***************************************************************************)
(* A task takes a slot: the index of its own side, with room for task0 and *)
(* a value for task1.                                                      *)
(***************************************************************************)
LEMMA GetStep ==
    ASSUME AppInv, \/ Get("task0", get_write_location)
                   \/ Get("task1", get_read_location)
    PROVE  SlotInv' /\ ValueInv'
<1>1. Types /\ SlotInv /\ ValueInv
  BY DEF AppInv
<1>2. /\ UNCHANGED <<value, expected, g_error_count, read_index, write_index, storage>>
      /\ UNCHANGED Published
  <2>1. UNCHANGED <<value, expected, g_error_count, queueVars>>
    BY DEF Get
  <2> QED
    BY <2>1, PublishedFrame DEF queueVars
<1>3. CASE Get("task0", get_write_location)
  <2>1. /\ pc["task0"] = "get" /\ pc'["task0"] = "use" /\ pc'["task1"] = pc["task1"]
        /\ slot'["task1"] = slot["task1"] /\ slot'["task0"] = get_write_location
        /\ get_write_location # NULL
    BY <1>1, <1>3 DEF Get, Goto, Types, AppTypeOK, Tasks
  <2>2. write_index \in Slot
    BY <1>1 DEF Types, AppTypeOK
  <2>3. slot'["task0"] = write_index /\ Next(write_index, capacity) # read_index
    BY <2>1, <2>2, IndexFacts DEF get_write_location
  <2>4. SlotInv'
    BY <1>1, <1>2, <2>1, <2>3 DEF SlotInv
  <2>5. Oldest' = Oldest /\ Newest' = Newest
    BY <1>2, <2>1 DEF Oldest, Newest, Plus
  <2>6. ValueInv'
    BY <1>1, <1>2, <2>1, <2>5 DEF ValueInv, Plus
  <2> QED
    BY <2>4, <2>6
<1>4. CASE Get("task1", get_read_location)
  <2>1. /\ pc["task1"] = "get" /\ pc'["task1"] = "use" /\ pc'["task0"] = pc["task0"]
        /\ slot'["task0"] = slot["task0"] /\ slot'["task1"] = get_read_location
        /\ get_read_location # NULL
    BY <1>1, <1>4 DEF Get, Goto, Types, AppTypeOK, Tasks
  <2>2. slot'["task1"] = read_index /\ read_index # write_index
    BY <2>1 DEF get_read_location
  <2>3. SlotInv'
    BY <1>1, <1>2, <2>1, <2>2 DEF SlotInv
  <2>4. Oldest' = Oldest /\ Newest' = Newest
    BY <1>2, <2>1 DEF Oldest, Newest, Plus
  <2>5. ValueInv'
    BY <1>1, <1>2, <2>1, <2>4 DEF ValueInv, Plus
  <2> QED
    BY <2>3, <2>5
<1> QED
  BY <1>3, <1>4

(***************************************************************************)
(* A task works on its slot: task0 does not touch what is published, task1 *)
(* copies the oldest value.                                                *)
(***************************************************************************)
LEMMA UseStep ==
    ASSUME AppInv, SendUse \/ ReceiveUse
    PROVE  SlotInv' /\ ValueInv'
<1>1. Types /\ SlotInv /\ ValueInv
  BY DEF AppInv
<1>2. CASE SendUse
  <2>1. /\ UNCHANGED <<slot, value, expected, g_error_count, read_index, write_index>>
        /\ pc["task0"] = "use" /\ pc'["task0"] = "update" /\ pc'["task1"] = pc["task1"]
    BY <1>1, <1>2 DEF SendUse, Goto, Types, AppTypeOK, Tasks
  <2>2. /\ UNCHANGED Published /\ storage'[write_index] = value["task0"]
        /\ \A i \in Slot \ {write_index} : storage'[i] = storage[i]
    BY <1>1, <1>2, PublishedFill
  <2>3. read_index \in Slot
    BY <1>1 DEF Types, AppTypeOK
  <2>4. SlotInv'
    BY <1>1, <2>1, <2>2, <2>3 DEF SlotInv
  <2>5. Oldest' = Oldest /\ Newest' = Newest
    BY <2>1 DEF Oldest, Newest, Plus
  <2>6. ValueInv'
    BY <1>1, <2>1, <2>2, <2>5 DEF ValueInv, Plus
  <2> QED
    BY <2>4, <2>6
<1>3. CASE ReceiveUse
  <2>1. /\ UNCHANGED <<slot, expected, g_error_count, read_index, write_index, storage>>
        /\ pc["task1"] = "use" /\ pc'["task1"] = "update" /\ pc'["task0"] = pc["task0"]
        /\ value'["task0"] = value["task0"] /\ value'["task1"] = storage[slot["task1"]]
    BY <1>1, <1>3 DEF ReceiveUse, Goto, Types, AppTypeOK, Tasks, queueVars
  <2>2. UNCHANGED Published
    BY <1>3, PublishedFrame DEF ReceiveUse
  <2>3. SlotInv'
    BY <1>1, <2>1 DEF SlotInv
  <2>4. Oldest' = Oldest /\ Newest' = Newest
    BY <2>1 DEF Oldest, Newest, Plus
  <2>5. ValueInv'
    BY <1>1, <2>1, <2>2, <2>4 DEF ValueInv, Plus
  <2> QED
    BY <2>3, <2>5
<1> QED
  BY <1>2, <1>3

(***************************************************************************)
(* task0 publishes a value: the next in order, and it gets no closer to    *)
(* the slot task1 works on.                                                *)
(***************************************************************************)
LEMMA SendStep ==
    ASSUME AppInv, Update("task0")
    PROVE  SlotInv' /\ ValueInv'
<1>1. Types /\ SlotInv /\ ValueInv
  BY DEF AppInv
<1>2. /\ UNCHANGED <<value, expected, g_error_count>>
      /\ pc["task0"] = "update" /\ pc'["task0"] \in {"text", "round"}
      /\ pc'["task1"] = pc["task1"] /\ slot'["task1"] = slot["task1"]
  BY <1>1 DEF Update, Goto, Types, AppTypeOK, Tasks
<1>3. /\ Published' = Append(Published, value["task0"])
      /\ write_index' = Next(write_index, capacity)
      /\ UNCHANGED <<read_index, storage>>
      /\ Len(Published) < capacity - 1
  BY <1>1, PublishedPut
<1>4. Next(write_index, capacity) # read_index
  BY <1>1, <1>2 DEF SlotInv
<1>5. SlotInv'
  BY <1>1, <1>2, <1>3, <1>4 DEF SlotInv
<1>6. Oldest' = Oldest /\ Newest = value["task0"] /\ Newest' = Plus(value["task0"], 1)
  BY <1>2 DEF Oldest, Newest, Plus
<1>7. Oldest \in Value /\ Published \in Seq(Value) /\ Len(Published) \in Nat
      /\ value["task0"] \in Value
  <2>1. expected \in Value /\ value["task0"] \in Value /\ 1 \in Nat
    BY <1>1 DEF Types, AppTypeOK, Tasks
  <2>2. Plus(expected, 1) \in Value
    BY <2>1, PlusFacts
  <2> QED
    BY <1>1, <2>1, <2>2, PublishedFacts DEF Oldest
<1> DEFINE k == Len(Published)
<1>8. k \in Nat /\ k + 1 < WORD
  BY <1>3, <1>7, Sizes
<1>9. value["task0"] = Plus(Oldest, k) /\ Plus(value["task0"], 1) = Plus(Oldest, k + 1)
  <2>1. value["task0"] = Plus(Oldest, k)
    BY <1>1, <1>6 DEF ValueInv
  <2> QED
    BY <1>7, <1>8, <2>1, PlusFacts
<1>10. /\ Len(Published') = k + 1 /\ Published'[k + 1] = value["task0"]
       /\ \A n \in 1 .. k : Published'[n] = Published[n]
  BY <1>3, <1>7, AppendProperties
<1>11. \A n \in 1 .. k : Published[n] = Plus(Oldest, n - 1)
  BY <1>1 DEF ValueInv
<1> HIDE DEF k
<1>12. ASSUME NEW n \in 1 .. Len(Published')
       PROVE  Published'[n] = Plus(Oldest, n - 1)
  <2>1. CASE n \in 1 .. k
    BY <1>10, <1>11, <2>1
  <2>2. CASE n = k + 1
    <3>1. n - 1 = k
      BY <1>8, <2>2
    <3> QED
      BY <1>9, <1>10, <2>2, <3>1
  <2>3. n \in 1 .. k \/ n = k + 1
    BY <1>8, <1>10
  <2> QED
    BY <2>1, <2>2, <2>3
<1>13. Newest' = Plus(Oldest, Len(Published'))
  BY <1>6, <1>9, <1>10
<1>14. ValueInv'
  BY <1>1, <1>2, <1>6, <1>12, <1>13 DEF ValueInv, Plus
<1> QED
  BY <1>5, <1>14

(***************************************************************************)
(* task1 gives up the oldest value, which was the one it expected.         *)
(***************************************************************************)
LEMMA ReceiveStep ==
    ASSUME AppInv, Update("task1")
    PROVE  SlotInv' /\ ValueInv'
<1>1. Types /\ SlotInv /\ ValueInv
  BY DEF AppInv
<1>2. /\ UNCHANGED <<value, expected, g_error_count>>
      /\ pc["task1"] = "update" /\ pc'["task1"] \in {"text", "round"}
      /\ pc'["task0"] = pc["task0"] /\ slot'["task0"] = slot["task0"]
  BY <1>1 DEF Update, Goto, Types, AppTypeOK, Tasks
<1>3. /\ Published # << >> /\ Published' = Tail(Published)
      /\ Head(Published) = value["task1"]
      /\ read_index' = Next(read_index, capacity)
      /\ UNCHANGED <<write_index, storage>>
  BY <1>1, PublishedRemove
<1>4. /\ read_index \in 0 .. capacity - 1 /\ write_index \in 0 .. capacity - 1
      /\ capacity \in Nat /\ capacity >= 2 /\ read_index # write_index
  BY <1>1, <1>2, Sizes DEF Types, AppTypeOK, SlotInv
<1>5. Next(write_index, capacity) # Next(read_index, capacity)
  BY <1>4 DEF Next
<1>6. SlotInv'
  BY <1>1, <1>2, <1>3, <1>5 DEF SlotInv
<1>7. Newest' = Newest /\ Oldest = expected /\ Oldest' = Plus(expected, 1)
  BY <1>2 DEF Oldest, Newest, Plus
<1>8. /\ expected \in Value /\ Plus(expected, 1) \in Value /\ Published \in Seq(Value)
      /\ Len(Published) \in Nat /\ Len(Published) < WORD
  <2>1. expected \in Value /\ 1 \in Nat
    BY <1>1 DEF Types, AppTypeOK
  <2>2. Plus(expected, 1) \in Value
    BY <2>1, PlusFacts
  <2>3. Published \in Seq(Value) /\ Len(Published) \in Nat /\ Len(Published) < capacity
    BY <1>1, PublishedFacts
  <2> QED
    BY <2>1, <2>2, <2>3, Sizes
<1> DEFINE k == Len(Published)
<1>9. /\ Len(Published') = k - 1 /\ Head(Published) = Published[1]
      /\ \A n \in 1 .. k - 1 : Published'[n] = Published[n + 1]
  BY <1>3, <1>8, HeadTailProperties
<1>10. k \in Nat /\ k > 0 /\ k < WORD
  BY <1>3, <1>8, EmptySeq
<1>11. \A n \in 1 .. k : Published[n] = Plus(expected, n - 1)
  BY <1>1, <1>7 DEF ValueInv
<1>12. Newest = Plus(expected, k)
  BY <1>1, <1>7 DEF ValueInv
<1> HIDE DEF k
<1>13. \A n \in 0 .. k - 1 : Plus(Plus(expected, 1), n) = Plus(expected, n + 1)
  <2> SUFFICES ASSUME NEW n \in 0 .. k - 1
               PROVE  Plus(Plus(expected, 1), n) = Plus(expected, n + 1)
    OBVIOUS
  <2>1. n \in Nat /\ n + 1 < WORD
    BY <1>10, Sizes
  <2> QED
    BY <1>8, <2>1, PlusFacts
<1>14. ASSUME NEW n \in 1 .. k - 1
       PROVE  Published'[n] = Plus(Oldest', n - 1)
  <2>1. n + 1 \in 1 .. k /\ (n + 1) - 1 = n /\ n - 1 \in 0 .. k - 1 /\ (n - 1) + 1 = n
    BY <1>10
  <2>2. Published'[n] = Plus(expected, n)
    BY <1>9, <1>11, <2>1
  <2>3. Plus(Plus(expected, 1), n - 1) = Plus(expected, n)
    BY <1>13, <2>1
  <2> QED
    BY <1>7, <2>2, <2>3
<1>15. Newest' = Plus(Oldest', k - 1)
  <2>1. k - 1 \in 0 .. k - 1 /\ (k - 1) + 1 = k
    BY <1>10
  <2> QED
    BY <1>7, <1>12, <1>13, <2>1
<1>16. value["task1"] = expected
  <2>1. 1 \in 1 .. k /\ 1 - 1 = 0
    BY <1>10
  <2>2. Published[1] = Plus(expected, 0)
    BY <1>11, <2>1
  <2> QED
    BY <1>3, <1>8, <1>9, <2>2, PlusFacts
<1>17. ValueInv'
  BY <1>1, <1>2, <1>9, <1>14, <1>15, <1>16 DEF ValueInv, Plus
<1> QED
  BY <1>6, <1>17

(***************************************************************************)
(* The tasks begin a round: task0 with the value after the one it has      *)
(* published, task1 expecting the one after the value it received, which   *)
(* was no error.                                                           *)
(***************************************************************************)
LEMMA RoundStep ==
    ASSUME AppInv, SendRound \/ ReceiveRound
    PROVE  SlotInv' /\ ValueInv'
<1>1. Types /\ SlotInv /\ ValueInv
  BY DEF AppInv
<1>2. UNCHANGED <<slot, read_index, write_index, storage>> /\ UNCHANGED Published
  <2>1. UNCHANGED <<slot, queueVars>>
    BY DEF SendRound, ReceiveRound
  <2> QED
    BY <2>1, PublishedFrame DEF queueVars
<1>3. CASE SendRound
  <2>1. /\ UNCHANGED <<expected, g_error_count>>
        /\ pc["task0"] = "round" /\ pc'["task0"] = "get" /\ pc'["task1"] = pc["task1"]
        /\ value'["task1"] = value["task1"] /\ value'["task0"] = Plus(value["task0"], 1)
    BY <1>1, <1>3 DEF SendRound, Goto, Types, AppTypeOK, Tasks, Plus
  <2>2. SlotInv'
    BY <1>1, <1>2, <2>1 DEF SlotInv
  <2>3. Oldest' = Oldest /\ Newest' = Newest
    BY <2>1 DEF Oldest, Newest, Plus
  <2>4. ValueInv'
    BY <1>1, <1>2, <2>1, <2>3 DEF ValueInv, Plus
  <2> QED
    BY <2>2, <2>4
<1>4. CASE ReceiveRound
  <2>1. /\ pc["task1"] = "round" /\ pc'["task1"] = "get" /\ pc'["task0"] = pc["task0"]
        /\ value' = value /\ expected' = Plus(value["task1"], 1)
        /\ (value["task1"] = expected => g_error_count' = g_error_count)
    BY <1>1, <1>4 DEF ReceiveRound, Goto, Types, AppTypeOK, Tasks, Plus
  <2>2. value["task1"] = expected
    BY <1>1, <2>1 DEF ValueInv
  <2>3. SlotInv'
    BY <1>1, <1>2, <2>1 DEF SlotInv
  <2>4. Oldest' = Oldest /\ Newest' = Newest
    BY <2>1, <2>2 DEF Oldest, Newest, Plus
  <2>5. ValueInv'
    BY <1>1, <1>2, <2>1, <2>2, <2>4 DEF ValueInv, Plus
  <2> QED
    BY <2>3, <2>5
<1> QED
  BY <1>3, <1>4

(***************************************************************************)
(* Calls of os_rtt_write, its steps and the host's leave the transfer      *)
(* alone.                                                                  *)
(***************************************************************************)
LEMMA LogFrame ==
    ASSUME Types, \/ \E t \in Tasks : Log(t)
                  \/ \E t \in Tasks : RttStep(t) /\ UNCHANGED <<loggers, taskVars, queueVars>>
                  \/ Host
                  \/ UNCHANGED appVars
    PROVE  /\ UNCHANGED <<slot, value, expected, g_error_count, queueVars>>
           /\ \A t \in Tasks : pc'[t] = pc[t] \/ {pc[t], pc'[t]} \subseteq {"text", "clock", "round"}
<1>1. ASSUME NEW t \in Tasks, Log(t)
      PROVE  /\ UNCHANGED <<slot, value, expected, g_error_count, queueVars>>
             /\ \A u \in Tasks : pc'[u] = pc[u] \/ {pc[u], pc'[u]} \subseteq {"text", "clock", "round"}
  BY <1>1 DEF Log, Goto, Types, AppTypeOK
<1>2. CASE UNCHANGED <<taskVars, queueVars>>
  BY <1>2 DEF taskVars
<1> QED
  BY <1>1, <1>2 DEF Host, appVars

(***************************************************************************)
(* The inductive step.                                                     *)
(***************************************************************************)
LEMMA AppInvStep == AppInv /\ [AppNext]_appVars => AppInv'
<1> SUFFICES ASSUME AppInv, [AppNext]_appVars PROVE AppInv'
  OBVIOUS
<1>1. Types /\ Types'
  BY TypesStep DEF AppInv
<1>2. CASE Get("task0", get_write_location) \/ Get("task1", get_read_location)
  BY <1>1, <1>2, GetStep DEF AppInv
<1>3. CASE SendUse \/ ReceiveUse
  BY <1>1, <1>3, UseStep DEF AppInv
<1>4. CASE Update("task0")
  BY <1>1, <1>4, SendStep DEF AppInv
<1>5. CASE Update("task1")
  BY <1>1, <1>5, ReceiveStep DEF AppInv
<1>6. CASE SendRound \/ ReceiveRound
  BY <1>1, <1>6, RoundStep DEF AppInv
<1>7. CASE \/ \E t \in Tasks : Log(t)
           \/ \E t \in Tasks : RttStep(t) /\ UNCHANGED <<loggers, taskVars, queueVars>>
           \/ Host
           \/ UNCHANGED appVars
  BY <1>1, <1>7, LogFrame, AppInvFrame DEF AppInv
<1> QED
  BY <1>2, <1>3, <1>4, <1>5, <1>6, <1>7 DEF AppNext, task0, task1, Tasks

(***************************************************************************)
(* The invariant of the transfer holds.                                    *)
(***************************************************************************)
LEMMA AppInvariant == AppSpec => []AppInv
  BY InitAppInv, AppInvStep, PTL DEF AppSpec

(***************************************************************************)
(* Producer and consumer never work on one slot, whatever the capacity of  *)
(* the queue: the slot of task0 is the write index, that of task1 the read *)
(* index, and these differ while task1 has a slot.                         *)
(***************************************************************************)
THEOREM SlotsDisjointHolds == AppSpec => []SlotsDisjoint
<1>1. AppInv => SlotsDisjoint
  BY DEF AppInv, SlotInv, SlotsDisjoint
<1> QED
  BY <1>1, AppInvariant, PTL

(***************************************************************************)
(* task1 receives 1, 2, 3, ... without a gap for any capacity of the queue *)
(* and any width of the values, across all wraps.                          *)
(***************************************************************************)
THEOREM NoErrorsHolds == AppSpec => []NoErrors
<1>1. AppInv => NoErrors
  BY DEF AppInv, ValueInv, NoErrors
<1> QED
  BY <1>1, AppInvariant, PTL

(***************************************************************************)
(* lfqueue.c is a FIFO of capacity - 1 messages: update_write_index puts,  *)
(* reading the slot copies, update_read_index removes.                     *)
(***************************************************************************)
THEOREM QueueRefinement == AppSpec => QueueIsFIFO
<1>1. AppInit => Queue!FIFOInit
  <2> SUFFICES ASSUME AppInit PROVE Published = << >>
    BY DEF Queue!FIFOInit
  <2>1. Types /\ read_index = write_index
    BY InitTypes DEF AppInit, lfqueue_init
  <2>2. /\ read_index \in 0 .. capacity - 1 /\ write_index \in 0 .. capacity - 1
        /\ storage \in [0 .. capacity - 1 -> Value] /\ capacity \in Nat /\ capacity >= 2
    BY <2>1, Sizes DEF Types, AppTypeOK
  <2>3. /\ Published = Ring(storage, read_index, write_index, capacity)
        /\ Published \in Seq(Value) /\ Len(Published) \in Nat
    BY <2>1, PublishedFacts
  <2>4. Len(Published) = 0
    BY <2>1, <2>2, <2>3, RingLength
  <2> QED
    BY <2>3, <2>4, EmptySeq
<1>2. AppInv /\ [AppNext]_appVars => [Queue!FIFONext]_<<Published, value["task1"]>>
  <2> SUFFICES ASSUME AppInv, [AppNext]_appVars
               PROVE  [Queue!FIFONext]_<<Published, value["task1"]>>
    OBVIOUS
  <2>1. Types /\ SlotInv /\ ValueInv
    BY DEF AppInv
  <2>2. CASE UNCHANGED queueVars /\ value'["task1"] = value["task1"]
    BY <2>2, PublishedFrame
  <2>3. CASE Get("task0", get_write_location) \/ Get("task1", get_read_location)
    BY <2>2, <2>3 DEF Get
  <2>4. CASE SendUse
    <3>1. UNCHANGED <<Published, value>>
      BY <2>1, <2>4, PublishedFill DEF SendUse
    <3> QED
      BY <3>1
  <2>5. CASE ReceiveUse
    <3>1. /\ UNCHANGED queueVars /\ value'["task1"] = storage[slot["task1"]]
          /\ slot["task1"] = read_index /\ read_index # write_index
      BY <2>1, <2>5 DEF ReceiveUse, Types, AppTypeOK, Tasks, SlotInv
    <3>2. /\ read_index \in 0 .. capacity - 1 /\ write_index \in 0 .. capacity - 1
          /\ storage \in [0 .. capacity - 1 -> Value] /\ capacity \in Nat /\ capacity >= 2
      BY <2>1, Sizes DEF Types, AppTypeOK
    <3>3. Published = Ring(storage, read_index, write_index, capacity)
      BY <2>1, PublishedFacts
    <3>4. Published # << >> /\ Head(Published) = storage[read_index]
      BY <3>1, <3>2, <3>3, RingRemove
    <3>5. UNCHANGED Published
      BY <3>1, PublishedFrame
    <3>6. Queue!Copy
      BY <3>1, <3>4, <3>5 DEF Queue!Copy
    <3> QED
      BY <3>6 DEF Queue!FIFONext
  <2>6. CASE Update("task0")
    <3>1. Published' = Append(Published, value["task0"]) /\ Len(Published) < capacity - 1
          /\ value' = value
      BY <2>1, <2>6, PublishedPut DEF Update
    <3>2. value["task0"] \in Value
      BY <2>1 DEF Types, AppTypeOK, Tasks
    <3>3. Queue!Put(value["task0"])
      BY <3>1 DEF Queue!Put
    <3> QED
      BY <3>2, <3>3 DEF Queue!FIFONext
  <2>7. CASE Update("task1")
    <3>1. /\ Published # << >> /\ Published' = Tail(Published)
          /\ Head(Published) = value["task1"] /\ value' = value
      BY <2>1, <2>7, PublishedRemove DEF Update
    <3>2. Queue!Remove
      BY <3>1 DEF Queue!Remove
    <3> QED
      BY <3>2 DEF Queue!FIFONext
  <2>8. CASE SendRound \/ ReceiveRound
    <3>1. UNCHANGED queueVars /\ value'["task1"] = value["task1"]
      BY <2>1, <2>8 DEF SendRound, ReceiveRound, Types, AppTypeOK, Tasks
    <3> QED
      BY <2>2, <3>1
  <2>9. CASE \/ \E t \in Tasks : Log(t)
             \/ \E t \in Tasks : RttStep(t) /\ UNCHANGED <<loggers, taskVars, queueVars>>
             \/ Host
             \/ UNCHANGED appVars
    <3>1. UNCHANGED <<value, queueVars>>
      BY <2>1, <2>9, LogFrame
    <3> QED
      BY <2>2, <3>1
  <2> QED
    BY <2>3, <2>4, <2>5, <2>6, <2>7, <2>8, <2>9 DEF AppNext, task0, task1, Tasks
<1> QED
  BY <1>1, <1>2, AppInvariant, PTL DEF AppSpec, QueueIsFIFO, Queue!FIFOSpec

-----------------------------------------------------------------------------
(* The log of a single writer *)

(***************************************************************************)
(* The configurations in which at most one task calls os_rtt_write.        *)
(***************************************************************************)
OneWriter == \A L \in LoggerSets : \A t, u \in L : t = u

(***************************************************************************)
(* What the writer knows while it is in the loop of os_rtt_write, although *)
(* the host moves rd_off, and what the host knows while it has a byte,     *)
(* although the writer moves wr_off.                                       *)
(***************************************************************************)
WriterInv(t) ==
    /\ t \notin loggers => at[t] = "out" /\ pc[t] \notin {"text", "clock"}
    /\ at[t] \in {"test", "index", "store", "publish"} => next[t] = Next(wr_off, SIZE)
    /\ at[t] \in {"index", "store", "publish"} => next[t] # rd_off
    /\ at[t] \in {"store", "publish"} => idx[t] = wr_off
    /\ at[t] = "publish" => up_buf[wr_off] = Head(data[t])

HostInv == pending => host = up_buf[rd_off] /\ rd_off # wr_off

LogInv == Types /\ HostInv /\ \A t \in Tasks : WriterInv(t)

(***************************************************************************)
(* InChannel is a ring in the sense above.                                 *)
(***************************************************************************)
LEMMA ChannelFacts ==
    ASSUME Types
    PROVE  /\ InChannel = Ring(up_buf, rd_off, wr_off, SIZE)
           /\ SIZE \in Nat /\ SIZE >= 2
           /\ rd_off \in 0 .. SIZE - 1 /\ wr_off \in 0 .. SIZE - 1
           /\ up_buf \in [0 .. SIZE - 1 -> Byte \cup {NoByte}]
  BY Sizes DEF Types, AppTypeOK, InChannel, Ring

(***************************************************************************)
(* The steps outside os_rtt_write change nothing of the channel; a task    *)
(* that does not log goes past both calls.                                 *)
(***************************************************************************)
LEMMA TaskLogStep ==
    ASSUME Types, UNCHANGED <<loggers, rttVars>>,
           \A t \in Tasks : WriterInv(t),
           \A t \in Tasks \ loggers : pc[t] \notin {"text", "clock"}
                                        => pc'[t] \notin {"text", "clock"}
    PROVE  \A t \in Tasks : WriterInv(t)'
  BY DEF WriterInv, rttVars, writeVars, Next

(***************************************************************************)
(* A step of the loop of os_rtt_write keeps the invariant of the writer:   *)
(* there is no other.                                                      *)
(***************************************************************************)
LEMMA WriterStep ==
    ASSUME OneWriter, LogInv, NEW t \in Tasks, RttStep(t),
           UNCHANGED <<loggers, taskVars, queueVars>>
    PROVE  HostInv' /\ \A u \in Tasks : WriterInv(u)'
<1>1. Types /\ HostInv /\ \A u \in Tasks : WriterInv(u)
  BY DEF LogInv
<1>2. t \in loggers /\ \A u \in Tasks \ {t} : u \notin loggers
  <2>1. at[t] # "out"
    BY DEF RttStep, RttNext, RttTest, RttIndex, RttStore, RttPublish
  <2>2. t \in loggers /\ loggers \in LoggerSets
    BY <1>1, <2>1 DEF WriterInv, Types, LocalTypeOK
  <2> QED
    BY <2>2 DEF OneWriter
<1>3. UNCHANGED <<loggers, pc, rd_off, host, pending>>
  BY DEF RttStep, RttNext, RttTest, RttIndex, RttStore, RttPublish, hostVars, taskVars
<1>4. \A u \in Tasks \ {t} : WriterInv(u)'
  <2>1. \A u \in Tasks \ {t} : at'[u] = at[u]
    BY <1>1 DEF Types, LocalTypeOK, RttStep, RttNext, RttTest, RttIndex, RttStore, RttPublish
  <2> QED
    BY <1>1, <1>2, <1>3, <2>1 DEF WriterInv
<1>5. /\ SIZE \in Nat /\ SIZE >= 2
      /\ rd_off \in 0 .. SIZE - 1 /\ wr_off \in 0 .. SIZE - 1
      /\ up_buf \in [0 .. SIZE - 1 -> Byte \cup {NoByte}]
  BY <1>1, ChannelFacts
<1>6. /\ at \in [Tasks -> {"out", "next", "test", "index", "store", "publish"}]
      /\ next \in [Tasks -> 0 .. SIZE - 1] /\ idx \in [Tasks -> 0 .. SIZE - 1]
      /\ data \in [Tasks -> Seq(Byte)]
  BY <1>1 DEF Types, LocalTypeOK
<1>7. WriterInv(t)
  BY <1>1
<1>8. CASE RttNext(t)
  <2>1. UNCHANGED <<wr_off, up_buf>> /\ at'[t] = "test" /\ next'[t] = Next(wr_off, SIZE)
    BY <1>6, <1>8 DEF RttNext, Next
  <2>2. WriterInv(t)'
    BY <1>2, <1>3, <2>1 DEF WriterInv, Next
  <2>3. HostInv'
    BY <1>1, <1>3, <2>1 DEF HostInv
  <2> QED
    BY <1>4, <2>2, <2>3
<1>9. CASE RttTest(t)
  <2>1. UNCHANGED <<wr_off, up_buf>>
        /\ \/ at'[t] = "out"
           \/ at'[t] = "index" /\ next'[t] = next[t] /\ next[t] # rd_off /\ at[t] = "test"
    BY <1>6, <1>9 DEF RttTest
  <2>2. WriterInv(t)'
    BY <1>2, <1>3, <1>7, <2>1 DEF WriterInv, Next
  <2>3. HostInv'
    BY <1>1, <1>3, <2>1 DEF HostInv
  <2> QED
    BY <1>4, <2>2, <2>3
<1>10. CASE RttIndex(t)
  <2>1. UNCHANGED <<wr_off, up_buf>> /\ at'[t] = "store" /\ next' = next
        /\ idx'[t] = wr_off /\ at[t] = "index"
    BY <1>6, <1>10 DEF RttIndex
  <2>2. WriterInv(t)'
    BY <1>2, <1>3, <1>7, <2>1 DEF WriterInv, Next
  <2>3. HostInv'
    BY <1>1, <1>3, <2>1 DEF HostInv
  <2> QED
    BY <1>4, <2>2, <2>3
<1>11. CASE RttStore(t)
  <2>1. /\ wr_off' = wr_off /\ at'[t] = "publish" /\ next' = next /\ idx' = idx
        /\ data' = data /\ at[t] = "store" /\ idx[t] = wr_off
        /\ up_buf' = [up_buf EXCEPT ![wr_off] = Head(data[t])]
    BY <1>6, <1>7, <1>11 DEF RttStore, WriterInv
  <2>2. up_buf'[wr_off] = Head(data[t])
        /\ \A i \in (0 .. SIZE - 1) \ {wr_off} : up_buf'[i] = up_buf[i]
    BY <1>5, <2>1
  <2>3. WriterInv(t)'
    BY <1>2, <1>3, <1>7, <2>1, <2>2 DEF WriterInv, Next
  <2>4. HostInv'
    BY <1>1, <1>3, <1>5, <2>1, <2>2 DEF HostInv
  <2> QED
    BY <1>4, <2>3, <2>4
<1>12. CASE RttPublish(t)
  <2>1. /\ up_buf' = up_buf /\ at'[t] \in {"next", "out"} /\ wr_off' = next[t]
        /\ at[t] = "publish"
    BY <1>6, <1>12 DEF RttPublish
  <2>2. next[t] # rd_off
    BY <1>7, <2>1 DEF WriterInv
  <2>3. WriterInv(t)'
    BY <1>2, <1>3, <2>1 DEF WriterInv
  <2>4. HostInv'
    BY <1>1, <1>3, <2>1, <2>2 DEF HostInv
  <2> QED
    BY <1>4, <2>3, <2>4
<1> QED
  BY <1>8, <1>9, <1>10, <1>11, <1>12 DEF RttStep

(***************************************************************************)
(* The host takes a byte out: it frees a slot, and never the one the       *)
(* writer is about to publish.                                             *)
(***************************************************************************)
LEMMA HostStep ==
    ASSUME LogInv, Host
    PROVE  HostInv' /\ \A t \in Tasks : WriterInv(t)'
<1>1. Types /\ HostInv /\ \A u \in Tasks : WriterInv(u)
  BY DEF LogInv
<1>2. UNCHANGED <<loggers, pc, wr_off, up_buf, data, at, next, idx>>
  BY DEF Host, HostRead, HostAdvance, writeVars, taskVars
<1>3. /\ SIZE \in Nat /\ SIZE >= 2
      /\ rd_off \in 0 .. SIZE - 1 /\ wr_off \in 0 .. SIZE - 1
  BY <1>1, ChannelFacts
<1>4. CASE HostRead
  <2>1. rd_off' = rd_off /\ rd_off # wr_off /\ host' = up_buf[rd_off]
    BY <1>4 DEF HostRead
  <2>2. HostInv'
    BY <1>2, <2>1 DEF HostInv
  <2>3. \A t \in Tasks : WriterInv(t)'
    BY <1>1, <1>2, <2>1 DEF WriterInv, Next
  <2> QED
    BY <2>2, <2>3
<1>5. CASE HostAdvance
  <2>1. rd_off' = Next(rd_off, SIZE) /\ rd_off # wr_off /\ pending' = FALSE
    <3>1. (rd_off + 1) % SIZE = Next(rd_off, SIZE)
      BY <1>3 DEF Next
    <3> QED
      BY <1>1, <1>5, <3>1 DEF HostAdvance, HostInv
  <2>2. Next(wr_off, SIZE) # rd_off'
    BY <1>3, <2>1 DEF Next
  <2>3. HostInv'
    BY <2>1 DEF HostInv
  <2>4. \A t \in Tasks : WriterInv(t)'
    BY <1>1, <1>2, <2>2 DEF WriterInv, Next
  <2> QED
    BY <2>3, <2>4
<1> QED
  BY <1>4, <1>5 DEF Host

(***************************************************************************)
(* The inductive step for the log.                                         *)
(***************************************************************************)
LEMMA LogInvStep ==
    ASSUME OneWriter, LogInv, [AppNext]_appVars
    PROVE  LogInv'
<1>1. Types /\ HostInv /\ \A t \in Tasks : WriterInv(t)
  BY DEF LogInv
<1>2. Types'
  BY <1>1, TypesStep
<1>3. CASE /\ UNCHANGED <<loggers, rttVars>>
           /\ \A t \in Tasks \ loggers : pc[t] \notin {"text", "clock"}
                                           => pc'[t] \notin {"text", "clock"}
  <2>1. \A t \in Tasks : WriterInv(t)'
    BY <1>1, <1>3, TaskLogStep
  <2>2. HostInv'
    BY <1>1, <1>3 DEF HostInv, rttVars, writeVars, hostVars
  <2> QED
    BY <1>2, <2>1, <2>2 DEF LogInv
<1>4. ASSUME NEW t \in Tasks, NEW location, Get(t, location) PROVE LogInv'
  BY <1>1, <1>3, <1>4 DEF Get, Goto, Types, AppTypeOK
<1>5. CASE SendUse \/ ReceiveUse
  BY <1>1, <1>3, <1>5 DEF SendUse, ReceiveUse, Goto, Types, AppTypeOK
<1>6. ASSUME NEW t \in Tasks, Update(t) PROVE LogInv'
  BY <1>1, <1>3, <1>6 DEF Update, Goto, Types, AppTypeOK
<1>7. CASE SendRound \/ ReceiveRound
  BY <1>1, <1>3, <1>7 DEF SendRound, ReceiveRound, Goto, Types, AppTypeOK
<1>8. CASE UNCHANGED appVars
  BY <1>1, <1>3, <1>8 DEF appVars, taskVars
<1>9. ASSUME NEW t \in Tasks, Log(t) PROVE LogInv'
  <2>1. /\ UNCHANGED <<loggers, wr_off, rd_off, up_buf, next, idx, host, pending>>
        /\ pc[t] \in {"text", "clock"} /\ at'[t] = "next"
        /\ \A u \in Tasks \ {t} : at'[u] = at[u] /\ data'[u] = data[u] /\ pc'[u] = pc[u]
    BY <1>1, <1>9 DEF Log, os_rtt_puts, os_rtt_write, Goto, Types, AppTypeOK, LocalTypeOK, hostVars
  <2>2. t \in loggers
    BY <1>1, <2>1 DEF WriterInv
  <2>3. WriterInv(t)'
    BY <2>1, <2>2 DEF WriterInv
  <2>4. \A u \in Tasks \ {t} : WriterInv(u)'
    BY <1>1, <2>1 DEF WriterInv, Next
  <2>5. HostInv'
    BY <1>1, <2>1 DEF HostInv
  <2> QED
    BY <1>2, <2>3, <2>4, <2>5 DEF LogInv
<1>10. ASSUME NEW t \in Tasks, RttStep(t) /\ UNCHANGED <<loggers, taskVars, queueVars>>
       PROVE  LogInv'
  BY <1>2, <1>10, WriterStep DEF LogInv
<1>11. CASE Host
  BY <1>2, <1>11, HostStep DEF LogInv
<1> QED
  BY <1>4, <1>5, <1>6, <1>7, <1>8, <1>9, <1>10, <1>11 DEF AppNext, task0, task1, Tasks

(***************************************************************************)
(* The channel is empty at first and nobody is in os_rtt_write.            *)
(***************************************************************************)
LEMMA InitLog == AppInit => LogInv /\ InChannel = << >>
<1> SUFFICES ASSUME AppInit PROVE LogInv /\ InChannel = << >>
  OBVIOUS
<1>1. Types
  BY InitTypes
<1>2. /\ \A t \in Tasks : at[t] = "out" /\ pc[t] = "get"
      /\ pending = FALSE /\ rd_off = wr_off
  BY Sizes DEF AppInit, RttInit
<1>3. LogInv
  BY <1>1, <1>2 DEF LogInv, WriterInv, HostInv
<1>4. /\ InChannel = Ring(up_buf, rd_off, wr_off, SIZE)
      /\ SIZE \in Nat /\ SIZE >= 2
      /\ rd_off \in 0 .. SIZE - 1 /\ wr_off \in 0 .. SIZE - 1
      /\ up_buf \in [0 .. SIZE - 1 -> Byte \cup {NoByte}]
  BY <1>1, ChannelFacts
<1>5. /\ InChannel \in Seq(Byte \cup {NoByte}) /\ (rd_off # wr_off <=> Len(InChannel) > 0)
  BY <1>4, RingLength
<1>6. InChannel = << >>
  BY <1>2, <1>5, EmptySeq, LenProperties
<1> QED
  BY <1>3, <1>6

(***************************************************************************)
(* With one writer the RTT channel is a FIFO of SIZE - 1 bytes, for any    *)
(* SIZE and however the host keeps up: publishing wr_off puts a byte, the  *)
(* host's load copies it, its move of rd_off removes it.  (With the two    *)
(* writers of app_main.c it is not: run AppMainRtt.)                       *)
(***************************************************************************)
THEOREM LogRefinement ==
    ASSUME OneWriter
    PROVE  AppSpec => LogIsFIFO
<1>1. AppInit => UpChannel!FIFOInit
  BY InitLog DEF UpChannel!FIFOInit
<1>2. LogInv /\ [AppNext]_appVars => [UpChannel!FIFONext]_<<InChannel, host>>
  <2> SUFFICES ASSUME LogInv, [AppNext]_appVars
               PROVE  [UpChannel!FIFONext]_<<InChannel, host>>
    OBVIOUS
  <2>1. Types /\ HostInv /\ \A t \in Tasks : WriterInv(t)
    BY DEF LogInv
  <2>2. /\ InChannel = Ring(up_buf, rd_off, wr_off, SIZE)
        /\ SIZE \in Nat /\ SIZE >= 2
        /\ rd_off \in 0 .. SIZE - 1 /\ wr_off \in 0 .. SIZE - 1
        /\ up_buf \in [0 .. SIZE - 1 -> Byte \cup {NoByte}]
    BY <2>1, ChannelFacts
  <2>3. CASE UNCHANGED <<wr_off, rd_off, up_buf, host>>
    BY <2>3 DEF InChannel
  <2>4. ASSUME NEW t \in Tasks, RttStore(t) PROVE UNCHANGED <<InChannel, host>>
    <3>1. /\ wr_off' = wr_off /\ rd_off' = rd_off /\ host' = host
          /\ up_buf' = [up_buf EXCEPT ![wr_off] = Head(data[t])]
      BY <2>1, <2>4 DEF RttStore, WriterInv, hostVars
    <3>2. Ring(up_buf', rd_off, wr_off, SIZE) = Ring(up_buf, rd_off, wr_off, SIZE)
      BY <2>2, <3>1, RingWrite
    <3>3. InChannel' = Ring(up_buf', rd_off, wr_off, SIZE)
      BY <3>1 DEF InChannel, Ring
    <3> QED
      BY <2>2, <3>1, <3>2, <3>3
  <2>5. ASSUME NEW t \in Tasks, RttPublish(t) PROVE UpChannel!FIFONext
    <3>1. /\ up_buf' = up_buf /\ rd_off' = rd_off /\ host' = host
          /\ wr_off' = Next(wr_off, SIZE) /\ Next(wr_off, SIZE) # rd_off
          /\ up_buf[wr_off] = Head(data[t])
      BY <2>1, <2>5 DEF RttPublish, WriterInv, hostVars
    <3>2. Head(data[t]) \in Byte
      BY <2>1, <2>5 DEF RttPublish, Types, LocalTypeOK
    <3>3. InChannel' = Ring(up_buf, rd_off, Next(wr_off, SIZE), SIZE)
      BY <3>1 DEF InChannel, Ring
    <3>4. InChannel' = Append(InChannel, Head(data[t]))
      BY <2>2, <3>1, <3>3, RingPut
    <3>5. Len(InChannel) < SIZE - 1
      BY <2>2, <3>1, RingLength
    <3>6. UpChannel!Put(Head(data[t]))
      BY <3>1, <3>4, <3>5 DEF UpChannel!Put
    <3> QED
      BY <3>2, <3>6 DEF UpChannel!FIFONext
  <2>6. CASE HostRead
    <3>1. UNCHANGED <<wr_off, rd_off, up_buf>> /\ rd_off # wr_off /\ host' = up_buf[rd_off]
      BY <2>6 DEF HostRead, writeVars
    <3>2. InChannel # << >> /\ Head(InChannel) = up_buf[rd_off]
      BY <2>2, <3>1, RingRemove
    <3>3. InChannel' = InChannel
      BY <3>1 DEF InChannel
    <3>4. UpChannel!Copy
      BY <3>1, <3>2, <3>3 DEF UpChannel!Copy
    <3> QED
      BY <3>4 DEF UpChannel!FIFONext
  <2>7. CASE HostAdvance
    <3>1. /\ wr_off' = wr_off /\ up_buf' = up_buf /\ host' = host
          /\ rd_off' = Next(rd_off, SIZE) /\ rd_off # wr_off /\ host = up_buf[rd_off]
      <4>1. (rd_off + 1) % SIZE = Next(rd_off, SIZE)
        BY <2>2 DEF Next
      <4> QED
        BY <2>1, <2>7, <4>1 DEF HostAdvance, HostInv, writeVars
    <3>2. InChannel' = Ring(up_buf, Next(rd_off, SIZE), wr_off, SIZE)
      BY <3>1 DEF InChannel, Ring
    <3>3. /\ InChannel # << >> /\ Head(InChannel) = up_buf[rd_off]
          /\ InChannel' = Tail(InChannel)
      BY <2>2, <3>1, <3>2, RingRemove
    <3>4. UpChannel!Remove
      BY <3>1, <3>3 DEF UpChannel!Remove
    <3> QED
      BY <3>4 DEF UpChannel!FIFONext
  <2>8. ASSUME NEW t \in Tasks, RttStep(t) PROVE [UpChannel!FIFONext]_<<InChannel, host>>
    <3>1. CASE RttNext(t) \/ RttTest(t) \/ RttIndex(t)
      BY <2>3, <3>1 DEF RttNext, RttTest, RttIndex, hostVars
    <3> QED
      BY <2>4, <2>5, <2>8, <3>1 DEF RttStep
  <2>9. ASSUME NEW t \in Tasks, Log(t) PROVE UNCHANGED <<wr_off, rd_off, up_buf, host>>
    BY <2>9 DEF Log, os_rtt_puts, os_rtt_write, hostVars
  <2>10. CASE UNCHANGED rttVars
    BY <2>3, <2>10 DEF rttVars, writeVars, hostVars
  <2>11. ASSUME NEW t \in Tasks, NEW location, Get(t, location) \/ Update(t) PROVE UNCHANGED rttVars
    BY <2>11 DEF Get, Update
  <2>12. SendUse \/ ReceiveUse \/ SendRound \/ ReceiveRound => UNCHANGED rttVars
    BY DEF SendUse, ReceiveUse, SendRound, ReceiveRound
  <2>13. UNCHANGED appVars => UNCHANGED rttVars
    BY DEF appVars
  <2>14. Host => HostRead \/ HostAdvance
    BY DEF Host
  <2>15. "task0" \in Tasks /\ "task1" \in Tasks
    BY DEF Tasks
  <2> QED
    BY <2>3, <2>6, <2>7, <2>8, <2>9, <2>10, <2>11, <2>12, <2>13, <2>14, <2>15
       DEF AppNext, task0, task1
<1>3. LogInv /\ [AppNext]_appVars => LogInv'
  BY LogInvStep
<1> QED
  BY <1>1, <1>2, <1>3, InitLog, PTL DEF AppSpec, LogIsFIFO, UpChannel!FIFOSpec
==============================================================================
