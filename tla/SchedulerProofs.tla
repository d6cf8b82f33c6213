--------------------------- MODULE SchedulerProofs ---------------------------
(***************************************************************************)
(* The scheduling core is correct for any number of tasks, priorities and  *)
(* wait queues and any width of the tick counter.  First, what the list    *)
(* operations of TaskQueue do to the members and the order of a queue.     *)
(***************************************************************************)
EXTENDS Scheduler, FiniteSetTheorems, TLAPS

-----------------------------------------------------------------------------
(* Ranks: the positions in I, numbered in ascending order *)

(***************************************************************************)
(* A set of positions is finite and a position's rank lies within its      *)
(* size, for the walks over the task queues.                               *)
(***************************************************************************)
LEMMA RankType ==
    ASSUME NEW k \in Nat, NEW I \in SUBSET (0 .. k)
    PROVE  /\ IsFiniteSet(I) /\ Cardinality(I) \in Nat
           /\ \A i \in I : Rank(I, i) \in 1 .. Cardinality(I)
<1>1. IsFiniteSet(0 .. k)
  BY FS_Interval
<1>2. IsFiniteSet(I) /\ Cardinality(I) \in Nat
  BY <1>1, FS_Subset, FS_CardinalityType
<1>3. ASSUME NEW i \in I
      PROVE  Rank(I, i) \in 1 .. Cardinality(I)
  <2> DEFINE L == {x \in I : x <= i}
  <2>1. L \in SUBSET I /\ i \in L
    OBVIOUS
  <2>2. IsFiniteSet(L) /\ Cardinality(L) <= Cardinality(I) /\ Cardinality(L) \in Nat
    BY <1>2, <2>1, FS_Subset, FS_CardinalityType
  <2>3. Cardinality(L) # 0
    BY <2>1, <2>2, FS_EmptySet
  <2> QED
    BY <1>2, <2>2, <2>3 DEF Rank
<1> QED
  BY <1>2, <1>3

(***************************************************************************)
(* A later position has a greater rank.                                    *)
(***************************************************************************)
LEMMA RankMonotonic ==
    ASSUME NEW k \in Nat, NEW I \in SUBSET (0 .. k), NEW i \in I, NEW j \in I, i < j
    PROVE  Rank(I, i) < Rank(I, j)
<1> DEFINE Li == {x \in I : x <= i}
           Lj == {x \in I : x <= j}
<1>1. IsFiniteSet(Lj)
  BY RankType, FS_Subset
<1>2. Li \in SUBSET Lj /\ Li # Lj
  <2>1. j \in Lj /\ j \notin Li
    OBVIOUS
  <2>2. ASSUME NEW x \in I, x <= i
        PROVE  x <= j
    <3>1. x \in Int /\ i \in Int /\ j \in Int
      OBVIOUS
    <3> QED
      BY <2>2, <3>1
  <2> QED
    BY <2>1, <2>2
<1>3. IsFiniteSet(Li) /\ Cardinality(Li) <= Cardinality(Lj) /\ Cardinality(Li) # Cardinality(Lj)
  BY <1>1, <1>2, FS_Subset
<1>4. Cardinality(Li) \in Nat /\ Cardinality(Lj) \in Nat
  BY <1>1, <1>3, FS_CardinalityType
<1> QED
  BY <1>3, <1>4 DEF Rank

(***************************************************************************)
(* Every number up to the size of I is the rank of exactly one position.   *)
(***************************************************************************)
LEMMA RankBijective ==
    ASSUME NEW k \in Nat, NEW I \in SUBSET (0 .. k)
    PROVE  /\ \A i, j \in I : Rank(I, i) = Rank(I, j) => i = j
           /\ \A n \in 1 .. Cardinality(I) : \E i \in I : Rank(I, i) = n
<1> DEFINE c == Cardinality(I)
           r == [i \in I |-> Rank(I, i)]
<1>1. IsFiniteSet(I) /\ c \in Nat /\ r \in [I -> 1 .. c]
  BY RankType
<1>2. ASSUME NEW i \in I, NEW j \in I, Rank(I, i) = Rank(I, j)
      PROVE  i = j
  <2>1. Rank(I, i) \in Int /\ Rank(I, j) \in Int
    BY RankType, <1>1
  <2>2. i \in Int /\ j \in Int
    OBVIOUS
  <2>3. CASE i < j
    <3>1. Rank(I, i) < Rank(I, j)
      BY <2>3, RankMonotonic
    <3> QED
      BY <1>2, <2>1, <3>1
  <2>4. CASE j < i
    <3>1. Rank(I, j) < Rank(I, i)
      BY <2>4, RankMonotonic
    <3> QED
      BY <1>2, <2>1, <3>1
  <2> QED
    BY <2>2, <2>3, <2>4
<1>3. r \in Injection(I, 1 .. c)
  BY <1>1, <1>2 DEF Injection, IsInjective
<1>4. IsFiniteSet(1 .. c) /\ Cardinality(1 .. c) = c
  BY <1>1, FS_Interval
<1>5. r \in Surjection(I, 1 .. c)
  <2> HIDE DEF r, c
  <2>1. Cardinality(I) = Cardinality(1 .. c)
    BY <1>4 DEF c
  <2> QED
    BY <1>3, <1>4, <2>1, FS_Injection
<1>6. \A n \in 1 .. c : \E i \in I : r[i] = n
  BY <1>5 DEF Surjection
<1> QED
  BY <1>2, <1>6

-----------------------------------------------------------------------------
(* Pick *)

(***************************************************************************)
(* Picking positions of a queue yields a queue with the tasks at these     *)
(* positions, each as often as the queue had it there.                     *)
(***************************************************************************)
LEMMA PickFacts ==
    ASSUME NEW S, NEW s \in Seq(S), NEW I \in SUBSET DOMAIN s
    PROVE  /\ Pick(s, I) \in Seq(S)
           /\ Range(Pick(s, I)) = {s[i] : i \in I}
           /\ IsInjective(s) => IsInjective(Pick(s, I))
<1> DEFINE c == Cardinality(I)
           at(n) == CHOOSE i \in I : Rank(I, i) = n
<1>1. Len(s) \in Nat /\ I \in SUBSET (0 .. Len(s)) /\ DOMAIN s = 1 .. Len(s)
  OBVIOUS
<1>2. c \in Nat /\ \A i \in I : Rank(I, i) \in 1 .. c
  BY <1>1, RankType
<1>2a. /\ \A i, j \in I : Rank(I, i) = Rank(I, j) => i = j
      /\ \A n \in 1 .. c : \E i \in I : Rank(I, i) = n
  BY <1>1, RankBijective
<1>3. \A n \in 1 .. c : at(n) \in I /\ Rank(I, at(n)) = n
  BY <1>2a
<1>4. \A i \in I : at(Rank(I, i)) = i
  BY <1>2, <1>3, <1>2a
<1> HIDE DEF at
<1>5. Pick(s, I) = [n \in 1 .. c |-> s[at(n)]]
  BY DEF Pick, at
<1>6. \A i \in I : s[i] \in S
  BY <1>1
<1> HIDE DEF c
<1>7. Pick(s, I) \in Seq(S)
  BY <1>2, <1>3, <1>5, <1>6, \A f \in [1 .. c -> S] : f \in Seq(S)
<1>8. Range(Pick(s, I)) = {s[i] : i \in I}
  BY <1>2, <1>3, <1>4, <1>5 DEF Range
<1>9. ASSUME IsInjective(s)
      PROVE  IsInjective(Pick(s, I))
  <2> SUFFICES ASSUME NEW a \in 1 .. c, NEW b \in 1 .. c, s[at(a)] = s[at(b)]
               PROVE  a = b
    BY <1>5 DEF IsInjective
  <2>1. at(a) \in DOMAIN s /\ at(b) \in DOMAIN s
    BY <1>3
  <2>2. at(a) = at(b)
    BY <1>9, <2>1 DEF IsInjective
  <2> QED
    BY <2>2, <1>3
<1> QED
  BY <1>7, <1>8, <1>9

-----------------------------------------------------------------------------
(* The operations *)

(***************************************************************************)
(* Joining two queues joins their tasks.                                   *)
(***************************************************************************)
LEMMA ConcatFacts ==
    ASSUME NEW S, NEW s \in Seq(S), NEW u \in Seq(S)
    PROVE  /\ s \o u \in Seq(S)
           /\ Range(s \o u) = Range(s) \cup Range(u)
           /\ IsInjective(s) /\ IsInjective(u) /\ Range(s) \cap Range(u) = {}
                => IsInjective(s \o u)
<1>1. /\ s \o u \in Seq(S) /\ Len(s) \in Nat /\ Len(u) \in Nat
      /\ DOMAIN (s \o u) = 1 .. Len(s) + Len(u)
      /\ DOMAIN s = 1 .. Len(s) /\ DOMAIN u = 1 .. Len(u)
      /\ \A i \in 1 .. Len(s) + Len(u) :
            (s \o u)[i] = IF i <= Len(s) THEN s[i] ELSE u[i - Len(s)]
  OBVIOUS
<1>2. Range(s \o u) \subseteq Range(s) \cup Range(u)
  BY <1>1 DEF Range
<1>3. Range(s) \subseteq Range(s \o u)
  BY <1>1 DEF Range
<1>4. ASSUME NEW i \in DOMAIN u
      PROVE  u[i] \in Range(s \o u)
  <2>1. i + Len(s) \in 1 .. Len(s) + Len(u) /\ (s \o u)[i + Len(s)] = u[i]
    BY <1>1
  <2> QED
    BY <1>1, <2>1 DEF Range
<1>5. ASSUME IsInjective(s), IsInjective(u), Range(s) \cap Range(u) = {}
      PROVE  IsInjective(s \o u)
  <2> SUFFICES ASSUME NEW a \in 1 .. Len(s) + Len(u), NEW b \in 1 .. Len(s) + Len(u),
                      (s \o u)[a] = (s \o u)[b]
               PROVE  a = b
    BY <1>1 DEF IsInjective
  <2>1. \A i \in DOMAIN s, j \in DOMAIN u : s[i] # u[j]
    BY <1>5 DEF Range
  <2>2. CASE a <= Len(s) /\ b <= Len(s)
    BY <1>1, <1>5, <2>2 DEF IsInjective
  <2>3. CASE a > Len(s) /\ b > Len(s)
    <3>1. a - Len(s) \in DOMAIN u /\ b - Len(s) \in DOMAIN u
      BY <1>1, <2>3
    <3>2. u[a - Len(s)] = u[b - Len(s)]
      BY <1>1, <2>3
    <3>3. a - Len(s) = b - Len(s)
      BY <1>5, <3>1, <3>2 DEF IsInjective
    <3> QED
      BY <1>1, <3>3
  <2>4. CASE a <= Len(s) /\ b > Len(s)
    BY <1>1, <2>1, <2>4
  <2>5. CASE a > Len(s) /\ b <= Len(s)
    BY <1>1, <2>1, <2>5
  <2> QED
    BY <1>1, <2>2, <2>3, <2>4, <2>5
<1> QED
  BY <1>1, <1>2, <1>3, <1>4, <1>5 DEF Range

(***************************************************************************)
(* os_task_queue_add adds the task, once if it was not there.              *)
(***************************************************************************)
LEMMA AddFacts ==
    ASSUME NEW S, NEW s \in Seq(S), NEW t \in S
    PROVE  /\ os_task_queue_add(s, t) \in Seq(S)
           /\ Range(os_task_queue_add(s, t)) = Range(s) \cup {t}
           /\ IsInjective(s) /\ t \notin Range(s) => IsInjective(os_task_queue_add(s, t))
<1>1. <<t>> \in Seq(S) /\ Range(<<t>>) = {t} /\ IsInjective(<<t>>)
  BY DEF Range, IsInjective
<1>2. os_task_queue_add(s, t) = s \o <<t>>
  BY DEF os_task_queue_add
<1> DEFINE u == <<t>>
<1> HIDE DEF u
<1>3. u \in Seq(S) /\ Range(u) = {t} /\ IsInjective(u)
  BY <1>1 DEF u
<1>4. /\ s \o u \in Seq(S)
      /\ Range(s \o u) = Range(s) \cup Range(u)
      /\ IsInjective(s) /\ IsInjective(u) /\ Range(s) \cap Range(u) = {} => IsInjective(s \o u)
  BY <1>3, ConcatFacts
<1>5. t \notin Range(s) => Range(s) \cap Range(u) = {}
  BY <1>3
<1>6. os_task_queue_add(s, t) = s \o u
  BY <1>2 DEF u
<1> QED
  BY <1>3, <1>4, <1>5, <1>6

(***************************************************************************)
(* Unlinking a task from the queue it is in takes out that task only.      *)
(***************************************************************************)
LEMMA RemoveFacts ==
    ASSUME NEW S, NEW s \in Seq(S), NEW t, t \in Range(s)
    PROVE  /\ os_task_queue_remove(s, t) \in Seq(S)
           /\ Range(os_task_queue_remove(s, t)) = Range(s) \ {t}
           /\ IsInjective(s) => IsInjective(os_task_queue_remove(s, t))
<1> DEFINE I == {i \in DOMAIN s : s[i] # t}
<1>1. os_task_queue_remove(s, t) = Pick(s, I)
  BY DEF os_task_queue_remove
<1>2. {s[i] : i \in I} = Range(s) \ {t}
  BY DEF Range
<1> QED
  BY <1>1, <1>2, PickFacts

(***************************************************************************)
(* Even a wrong os_task_queue_remove yields a queue of tasks.              *)
(***************************************************************************)
LEMMA RemoveType ==
    ASSUME NEW S, NEW s \in Seq(S), NEW t
    PROVE  os_task_queue_remove(s, t) \in Seq(S)
<1>1. CASE t \in Range(s)
  BY <1>1, RemoveFacts
<1>2. CASE t \notin Range(s)
  BY <1>2 DEF os_task_queue_remove
<1> QED
  BY <1>1, <1>2

(***************************************************************************)
(* os_timeout_queue_remove takes out one task, or nothing.                 *)
(***************************************************************************)
LEMMA TimeoutRemoveFacts ==
    ASSUME NEW S, NEW s \in Seq(S), NEW t
    PROVE  /\ os_timeout_queue_remove(s, t) \in Seq(S)
           /\ Range(os_timeout_queue_remove(s, t)) = Range(s) \ {t}
           /\ IsInjective(s) => IsInjective(os_timeout_queue_remove(s, t))
<1> DEFINE I == {i \in DOMAIN s : s[i] # t}
<1>1. os_timeout_queue_remove(s, t) = Pick(s, I)
  BY DEF os_timeout_queue_remove
<1>2. {s[i] : i \in I} = Range(s) \ {t}
  BY DEF Range
<1> QED
  BY <1>1, <1>2, PickFacts

(***************************************************************************)
(* Inserting a task behind any set of positions adds that task only: what  *)
(* os_task_queue_insert_by_priority and os_timeout_queue_insert_sorted do, *)
(* wherever their loops stop.                                              *)
(***************************************************************************)
LEMMA InsertFacts ==
    ASSUME NEW S, NEW s \in Seq(S), NEW t \in S, NEW I \in SUBSET DOMAIN s
    PROVE  /\ InsertAfter(s, I, t) \in Seq(S)
           /\ Range(InsertAfter(s, I, t)) = Range(s) \cup {t}
           /\ IsInjective(s) /\ t \notin Range(s) => IsInjective(InsertAfter(s, I, t))
<1> DEFINE a == Pick(s, I)
           b == Pick(s, DOMAIN s \ I)
           m == a \o <<t>>
<1>1. /\ a \in Seq(S) /\ Range(a) = {s[i] : i \in I}
      /\ b \in Seq(S) /\ Range(b) = {s[i] : i \in DOMAIN s \ I}
      /\ IsInjective(s) => IsInjective(a) /\ IsInjective(b)
  BY PickFacts
<1>3. InsertAfter(s, I, t) = m \o b
  BY DEF InsertAfter
<1>4. Range(a) \cup Range(b) = Range(s)
  BY <1>1 DEF Range
<1>5. ASSUME IsInjective(s), NEW x \in Range(a), NEW y \in Range(b)
      PROVE  x # y
  <2>1. PICK i \in I : x = s[i]
    BY <1>1, <1>5
  <2>2. PICK j \in DOMAIN s \ I : y = s[j]
    BY <1>1, <1>5
  <2> QED
    BY <1>5, <2>1, <2>2 DEF IsInjective
<1> HIDE DEF a, b, m
<1>6. m \in Seq(S) /\ Range(m) = Range(a) \cup {t}
      /\ (IsInjective(a) /\ t \notin Range(a) => IsInjective(m))
  <2>1. m = os_task_queue_add(a, t)
    BY DEF m, os_task_queue_add
  <2> QED
    BY <1>1, <2>1, AddFacts
<1>7. /\ m \o b \in Seq(S)
      /\ Range(m \o b) = Range(m) \cup Range(b)
      /\ IsInjective(m) /\ IsInjective(b) /\ Range(m) \cap Range(b) = {} => IsInjective(m \o b)
  <2>1. m \in Seq(S) /\ b \in Seq(S)
    BY <1>1, <1>6
  <2> QED
    BY <2>1, ConcatFacts
<1>8. Range(m \o b) = Range(s) \cup {t}
  BY <1>4, <1>6, <1>7
<1>9. ASSUME IsInjective(s), t \notin Range(s)
      PROVE  IsInjective(m \o b)
  BY <1>1, <1>4, <1>5, <1>6, <1>7, <1>9
<1> QED
  BY <1>3, <1>7, <1>8, <1>9

(***************************************************************************)
(* os_task_queue_insert_by_priority adds the task, whatever the            *)
(* priorities are.                                                         *)
(***************************************************************************)
LEMMA InsertByPriorityFacts ==
    ASSUME NEW S, NEW s \in Seq(S), NEW t \in S, NEW prio
    PROVE  LET u == os_task_queue_insert_by_priority(s, t, prio)
           IN  /\ u \in Seq(S)
               /\ Range(u) = Range(s) \cup {t}
               /\ IsInjective(s) /\ t \notin Range(s) => IsInjective(u)
<1> DEFINE I == {i \in DOMAIN s : \A j \in 1 .. i : prio[s[j]] <= prio[t]}
<1>1. os_task_queue_insert_by_priority(s, t, prio) = InsertAfter(s, I, t)
  BY DEF os_task_queue_insert_by_priority, Prefix
<1>2. I \in SUBSET DOMAIN s
  OBVIOUS
<1> HIDE DEF I
<1> QED
  BY <1>1, <1>2, InsertFacts

(***************************************************************************)
(* Popping the head of a queue takes out that task only.                   *)
(***************************************************************************)
LEMMA PopFacts ==
    ASSUME NEW S, NEW s \in Seq(S), s # << >>
    PROVE  /\ Head(s) \in S /\ Head(s) \in Range(s) /\ Tail(s) \in Seq(S)
           /\ Range(s) = Range(Tail(s)) \cup {Head(s)}
           /\ IsInjective(s) => IsInjective(Tail(s)) /\ Head(s) \notin Range(Tail(s))
<1>1. /\ Len(s) \in Nat \ {0} /\ DOMAIN s = 1 .. Len(s) /\ Head(s) = s[1] /\ Tail(s) \in Seq(S)
      /\ Len(Tail(s)) = Len(s) - 1 /\ DOMAIN Tail(s) = 1 .. Len(s) - 1
      /\ \A i \in 1 .. Len(s) - 1 : Tail(s)[i] = s[i + 1]
  OBVIOUS
<1>2. 1 \in DOMAIN s /\ Head(s) \in Range(s) /\ Head(s) \in S
  BY <1>1 DEF Range
<1>3. Range(Tail(s)) \cup {Head(s)} \subseteq Range(s)
  BY <1>1, <1>2 DEF Range
<1>4. ASSUME NEW i \in DOMAIN s
      PROVE  s[i] \in Range(Tail(s)) \cup {Head(s)}
  <2>1. CASE i = 1
    BY <1>1, <2>1
  <2>2. CASE i # 1
    <3>1. i - 1 \in DOMAIN Tail(s) /\ Tail(s)[i - 1] = s[i]
      BY <1>1, <2>2
    <3> QED
      BY <3>1 DEF Range
  <2> QED
    BY <2>1, <2>2
<1>5. ASSUME IsInjective(s)
      PROVE  IsInjective(Tail(s)) /\ Head(s) \notin Range(Tail(s))
  <2>1. \A a, b \in 1 .. Len(s) : s[a] = s[b] => a = b
    BY <1>1, <1>5 DEF IsInjective
  <2>2. IsInjective(Tail(s))
    BY <1>1, <2>1 DEF IsInjective
  <2>3. Head(s) \notin Range(Tail(s))
    BY <1>1, <2>1 DEF Range
  <2> QED
    BY <2>2, <2>3
<1> QED
  BY <1>1, <1>2, <1>3, <1>4, <1>5 DEF Range

(***************************************************************************)
(* os_ready_queue_rotate only reorders.                                    *)
(***************************************************************************)
LEMMA RotateFacts ==
    ASSUME NEW S, NEW s \in Seq(S), NEW t
    PROVE  /\ os_ready_queue_rotate(s, t) \in Seq(S)
           /\ Range(os_ready_queue_rotate(s, t)) = Range(s)
           /\ IsInjective(s) => IsInjective(os_ready_queue_rotate(s, t))
<1>1. CASE s # << >> /\ Head(s) = t
  <2>1. t \in S /\ Tail(s) \in Seq(S) /\ Range(s) = Range(Tail(s)) \cup {t}
        /\ (IsInjective(s) => IsInjective(Tail(s)) /\ t \notin Range(Tail(s)))
    BY <1>1, PopFacts
  <2>2. os_ready_queue_rotate(s, t) = os_task_queue_add(Tail(s), t)
    BY <1>1 DEF os_ready_queue_rotate, os_task_queue_add
  <2> DEFINE u == Tail(s)
  <2> HIDE DEF u
  <2>3. u \in Seq(S) /\ t \in S
    BY <2>1 DEF u
  <2>4. /\ os_task_queue_add(u, t) \in Seq(S)
        /\ Range(os_task_queue_add(u, t)) = Range(u) \cup {t}
        /\ IsInjective(u) /\ t \notin Range(u) => IsInjective(os_task_queue_add(u, t))
    BY <2>3, AddFacts
  <2> QED
    BY <2>1, <2>2, <2>4 DEF u
<1>2. CASE ~ (s # << >> /\ Head(s) = t)
  BY <1>2 DEF os_ready_queue_rotate
<1> QED
  BY <1>1, <1>2

-----------------------------------------------------------------------------
(***************************************************************************)
(* A non-empty set of positions or priorities has a least element: the one *)
(* of rank 1.                                                              *)
(***************************************************************************)
LEMMA LeastElement ==
    ASSUME NEW k \in Nat, NEW I \in SUBSET (0 .. k), I # {}
    PROVE  \E i \in I : \A j \in I : i <= j
<1>1. IsFiniteSet(I) /\ Cardinality(I) \in Nat /\ Cardinality(I) # 0
      /\ \A i \in I : Rank(I, i) \in 1 .. Cardinality(I)
  BY RankType, FS_EmptySet
<1>2. PICK i \in I : Rank(I, i) = 1
  BY <1>1, RankBijective
<1>3. ASSUME NEW j \in I
      PROVE  i <= j
  <2>1. CASE j < i
    <3>1. Rank(I, j) < 1
      BY <1>2, <2>1, RankMonotonic
    <3> QED
      BY <1>1, <3>1
  <2> QED
    BY <2>1
<1> QED
  BY <1>3

(***************************************************************************)
(* Induction, for a property given by the set of numbers that have it: a   *)
(* counterexample would have a least element.                              *)
(***************************************************************************)
LEMMA SetInduction ==
    ASSUME NEW S, 0 \in S, \A n \in Nat : n \in S => n + 1 \in S
    PROVE  \A n \in Nat : n \in S
<1> SUFFICES ASSUME NEW k \in Nat, k \notin S
             PROVE  FALSE
  OBVIOUS
<1> DEFINE I == {i \in 0 .. k : i \notin S}
<1>1. I \in SUBSET (0 .. k) /\ k \in I
  OBVIOUS
<1>2. \E i \in I : \A j \in I : i <= j
  BY <1>1, LeastElement
<1>3. PICK i \in I : \A j \in I : i <= j
  BY <1>2
<1>4. i # 0 /\ i \in Nat /\ i - 1 \in Nat /\ i - 1 \in 0 .. k /\ (i - 1) + 1 = i
  OBVIOUS
<1>5. i - 1 \notin I
  BY <1>3, <1>4
<1>6. i - 1 \in S
  BY <1>4, <1>5
<1>7. i \in S
  BY <1>4, <1>6
<1> QED
  BY <1>7


-----------------------------------------------------------------------------
(* Order *)

(***************************************************************************)
(* Picking positions of a queue keeps the order of its tasks.              *)
(***************************************************************************)
LEMMA PickOrder ==
    ASSUME NEW S, NEW s \in Seq(S), NEW I \in SUBSET DOMAIN s,
           NEW a \in DOMAIN Pick(s, I), NEW b \in DOMAIN Pick(s, I), a < b
    PROVE  \E i, j \in I : i < j /\ Pick(s, I)[a] = s[i] /\ Pick(s, I)[b] = s[j]
<1> DEFINE c == Cardinality(I)
           at(n) == CHOOSE i \in I : Rank(I, i) = n
<1>1. Len(s) \in Nat /\ I \in SUBSET (0 .. Len(s)) /\ DOMAIN s = 1 .. Len(s)
  OBVIOUS
<1>2. c \in Nat /\ \A i \in I : Rank(I, i) \in 1 .. c
  BY <1>1, RankType
<1>3. \A n \in 1 .. c : at(n) \in I /\ Rank(I, at(n)) = n
  <2>1. \A n \in 1 .. c : \E i \in I : Rank(I, i) = n
    BY <1>1, RankBijective
  <2> QED
    BY <2>1
<1> HIDE DEF at
<1>4. Pick(s, I) = [n \in 1 .. c |-> s[at(n)]]
  BY DEF Pick, at
<1> HIDE DEF c
<1>5. a \in 1 .. c /\ b \in 1 .. c
  BY <1>4
<1>6. at(a) \in I /\ at(b) \in I /\ Rank(I, at(a)) = a /\ Rank(I, at(b)) = b
  BY <1>3, <1>5
<1>7. at(a) < at(b)
  <2>1. at(a) \in Int /\ at(b) \in Int /\ a \in Int /\ b \in Int
    BY <1>1, <1>2, <1>5, <1>6
  <2>2. CASE at(b) < at(a)
    <3>1. Rank(I, at(b)) < Rank(I, at(a))
      BY <1>1, <1>6, <2>2, RankMonotonic
    <3> QED
      BY <1>6, <2>1, <3>1
  <2>3. CASE at(a) = at(b)
    BY <1>6, <2>1, <2>3
  <2> QED
    BY <2>1, <2>2, <2>3
<1> QED
  BY <1>4, <1>5, <1>6, <1>7

(***************************************************************************)
(* Picking all positions is the queue itself.                              *)
(***************************************************************************)
LEMMA PickAll ==
    ASSUME NEW S, NEW s \in Seq(S)
    PROVE  Pick(s, DOMAIN s) = s
<1> DEFINE l == Len(s)
           I == 1 .. l
<1>1. l \in Nat /\ DOMAIN s = I
  OBVIOUS
<1>2. IsFiniteSet(I) /\ Cardinality(I) = l
  BY <1>1, FS_Interval
<1>3. ASSUME NEW i \in I
      PROVE  Rank(I, i) = i
  <2>1. {x \in I : x <= i} = 1 .. i
    BY <1>1
  <2>2. Cardinality(1 .. i) = i
    BY <1>1, FS_Interval
  <2> QED
    BY <2>1, <2>2 DEF Rank
<1> HIDE DEF l
<1>4. ASSUME NEW n \in I
      PROVE  (CHOOSE i \in I : Rank(I, i) = n) = n
  <2>1. \A i \in I : Rank(I, i) = n <=> i = n
    BY <1>3, <1>4
  <2> QED
    BY <2>1
<1>5. Pick(s, I) = [n \in I |-> s[CHOOSE i \in I : Rank(I, i) = n]]
  BY <1>2 DEF Pick
<1>6. Pick(s, I) = [n \in I |-> s[n]]
  BY <1>4, <1>5
<1>7. s = [n \in DOMAIN s |-> s[n]]
  OBVIOUS
<1> QED
  BY <1>1, <1>6, <1>7

(***************************************************************************)
(* A queue is sorted by a key of its tasks: the time left in the timeout   *)
(* queue, the priority in the wait queue of a mutex.                       *)
(***************************************************************************)
Sorted(s, key) == \A i, j \in DOMAIN s : i < j => key[s[i]] <= key[s[j]]

(***************************************************************************)
(* Taking tasks out of a sorted queue leaves it sorted.                    *)
(***************************************************************************)
LEMMA PickSorted ==
    ASSUME NEW S, NEW s \in Seq(S), NEW I \in SUBSET DOMAIN s, NEW key, Sorted(s, key)
    PROVE  Sorted(Pick(s, I), key)
<1> DEFINE u == Pick(s, I)
<1>1. SUFFICES ASSUME NEW a \in DOMAIN u, NEW b \in DOMAIN u, a < b
               PROVE  key[u[a]] <= key[u[b]]
  BY DEF Sorted
<1>2. \E i, j \in I : i < j /\ u[a] = s[i] /\ u[b] = s[j]
  BY <1>1, PickOrder
<1>3. \A i, j \in I : i < j => key[s[i]] <= key[s[j]]
  BY DEF Sorted
<1> HIDE DEF u
<1> QED
  BY <1>2, <1>3

(***************************************************************************)
(* A task inserted between those with no larger and those with no smaller  *)
(* key leaves the queue sorted.                                            *)
(***************************************************************************)
LEMMA InsertSorted ==
    ASSUME NEW S, NEW s \in Seq(S), NEW I \in SUBSET DOMAIN s, NEW t \in S,
           NEW key \in [S -> Int], Sorted(s, key),
           \A i \in I : key[s[i]] <= key[t],
           \A i \in DOMAIN s \ I : key[t] <= key[s[i]]
    PROVE  Sorted(InsertAfter(s, I, t), key)
<1> DEFINE u == Pick(s, I)
           v == Pick(s, DOMAIN s \ I)
           w == InsertAfter(s, I, t)
<1>1. /\ u \in Seq(S) /\ v \in Seq(S)
      /\ Range(u) = {s[i] : i \in I} /\ Range(v) = {s[i] : i \in DOMAIN s \ I}
  BY PickFacts
<1>2. Sorted(u, key) /\ Sorted(v, key)
  BY PickSorted
<1>3. w = u \o <<t>> \o v
  BY DEF InsertAfter
<1>4. /\ \A i \in DOMAIN u : u[i] \in S /\ key[u[i]] <= key[t]
      /\ \A i \in DOMAIN v : v[i] \in S /\ key[t] <= key[v[i]]
  <2>1. \A i \in DOMAIN u : u[i] \in S /\ \E k \in I : u[i] = s[k]
    <3> HIDE DEF u
    <3>1. \A i \in DOMAIN u : u[i] \in S
      BY <1>1
    <3>2. \A i \in DOMAIN u : u[i] \in Range(u)
      BY DEF Range
    <3> QED
      BY <1>1, <3>1, <3>2
  <2>2. \A i \in DOMAIN v : v[i] \in S /\ \E k \in DOMAIN s \ I : v[i] = s[k]
    <3> HIDE DEF v
    <3>1. \A i \in DOMAIN v : v[i] \in S
      BY <1>1
    <3>2. \A i \in DOMAIN v : v[i] \in Range(v)
      BY DEF Range
    <3> QED
      BY <1>1, <3>1, <3>2
  <2> HIDE DEF u, v
  <2> QED
    BY <2>1, <2>2
<1> HIDE DEF u, v
<1> DEFINE l == Len(u)
           m == Len(v)
<1>5. /\ l \in Nat /\ m \in Nat /\ DOMAIN u = 1 .. l /\ DOMAIN v = 1 .. m
      /\ DOMAIN w = 1 .. l + 1 + m
      /\ \A i \in 1 .. l + 1 + m :
           w[i] = IF i <= l THEN u[i] ELSE IF i = l + 1 THEN t ELSE v[i - (l + 1)]
  BY <1>1, <1>3
<1> HIDE DEF l, m, w
<1>6. ASSUME NEW a \in DOMAIN w, NEW b \in DOMAIN w, a < b
      PROVE  key[w[a]] <= key[w[b]]
  <2>1. a \in 1 .. l + 1 + m /\ b \in 1 .. l + 1 + m /\ key[t] \in Int
        /\ (\A x \in S : key[x] \in Int)
    BY <1>5
  <2>2. CASE b <= l
    <3>1. a \in DOMAIN u /\ b \in DOMAIN u /\ w[a] = u[a] /\ w[b] = u[b]
      BY <1>5, <1>6, <2>1, <2>2
    <3> QED
      BY <1>2, <1>6, <3>1 DEF Sorted
  <2>3. CASE a >= l + 2
    <3>1. /\ a - (l + 1) \in DOMAIN v /\ b - (l + 1) \in DOMAIN v
          /\ a - (l + 1) < b - (l + 1)
          /\ w[a] = v[a - (l + 1)] /\ w[b] = v[b - (l + 1)]
      <4>1. a >= l + 2 /\ b >= l + 2 /\ a < b
        BY <1>5, <1>6, <2>1, <2>3
      <4>2. a - (l + 1) \in 1 .. m /\ b - (l + 1) \in 1 .. m /\ a - (l + 1) < b - (l + 1)
        BY <1>5, <2>1, <4>1
      <4>3. w[a] = v[a - (l + 1)]
        BY <1>5, <2>1, <4>1
      <4>4. w[b] = v[b - (l + 1)]
        BY <1>5, <2>1, <4>1
      <4> QED
        BY <1>5, <4>2, <4>3, <4>4
    <3> QED
      BY <1>2, <3>1 DEF Sorted
  <2>4. CASE a <= l + 1 /\ b >= l + 1
    <3>1. w[a] \in S /\ key[w[a]] <= key[t]
      <4>1. CASE a <= l
        BY <1>4, <1>5, <2>1, <4>1
      <4>2. CASE a = l + 1
        BY <1>5, <2>1, <4>2
      <4> QED
        BY <1>5, <2>1, <2>4, <4>1, <4>2
    <3>2. w[b] \in S /\ key[t] <= key[w[b]]
      <4>1. CASE b = l + 1
        BY <1>5, <2>1, <4>1
      <4>2. CASE b >= l + 2
        <5>1. b - (l + 1) \in DOMAIN v /\ w[b] = v[b - (l + 1)]
          BY <1>5, <2>1, <4>2
        <5> QED
          BY <1>4, <5>1
      <4> QED
        BY <1>5, <2>1, <2>4, <4>1, <4>2
    <3> QED
      BY <2>1, <3>1, <3>2
  <2> QED
    BY <1>5, <1>6, <2>1, <2>2, <2>3, <2>4
<1>7. Sorted(w, key)
  BY <1>6 DEF Sorted
<1> QED
  BY <1>7 DEF w

(***************************************************************************)
(* os_task_queue_insert_by_priority keeps a queue sorted by priority.      *)
(***************************************************************************)
LEMMA InsertByPrioritySorted ==
    ASSUME NEW S, NEW s \in Seq(S), NEW t \in S, NEW prio \in [S -> Int], Sorted(s, prio)
    PROVE  Sorted(os_task_queue_insert_by_priority(s, t, prio), prio)
<1> DEFINE I == {i \in DOMAIN s : \A j \in 1 .. i : prio[s[j]] <= prio[t]}
<1>1. os_task_queue_insert_by_priority(s, t, prio) = InsertAfter(s, I, t)
  BY DEF os_task_queue_insert_by_priority, Prefix
<1>2. /\ I \in SUBSET DOMAIN s /\ Len(s) \in Nat /\ DOMAIN s = 1 .. Len(s)
      /\ \A i \in DOMAIN s : s[i] \in S /\ prio[s[i]] \in Int
      /\ prio[t] \in Int
  OBVIOUS
<1>3. \A i \in I : prio[s[i]] <= prio[t]
  <2> SUFFICES ASSUME NEW i \in I
               PROVE  prio[s[i]] <= prio[t]
    OBVIOUS
  <2>1. i \in 1 .. i
    BY <1>2
  <2> QED
    BY <2>1
<1>4. \A i \in DOMAIN s \ I : prio[t] <= prio[s[i]]
  <2> SUFFICES ASSUME NEW i \in DOMAIN s \ I
               PROVE  prio[t] <= prio[s[i]]
    OBVIOUS
  <2>1. PICK j \in 1 .. i : ~ (prio[s[j]] <= prio[t])
    OBVIOUS
  <2>2. j \in DOMAIN s /\ (j < i \/ j = i)
    BY <1>2
  <2>3. prio[s[j]] \in Int /\ prio[s[i]] \in Int
    BY <1>2, <2>2
  <2>4. prio[s[j]] <= prio[s[i]]
    <3>1. CASE j = i
      BY <2>3, <3>1
    <3>2. CASE j < i
      BY <2>2, <3>2 DEF Sorted
    <3> QED
      BY <2>2, <3>1, <3>2
  <2> HIDE DEF I
  <2> QED
    BY <1>2, <2>1, <2>3, <2>4
<1> HIDE DEF I
<1> QED
  BY <1>1, <1>2, <1>3, <1>4, InsertSorted

(***************************************************************************)
(* The rest of a sorted queue is sorted, and its head comes first.         *)
(***************************************************************************)
LEMMA TailSorted ==
    ASSUME NEW S, NEW s \in Seq(S), s # << >>, NEW key, Sorted(s, key)
    PROVE  /\ Sorted(Tail(s), key)
           /\ \A t \in Range(Tail(s)) : key[Head(s)] <= key[t]
<1>1. /\ Len(s) \in Nat \ {0} /\ DOMAIN s = 1 .. Len(s) /\ Head(s) = s[1]
      /\ DOMAIN Tail(s) = 1 .. Len(s) - 1
      /\ \A i \in 1 .. Len(s) - 1 : Tail(s)[i] = s[i + 1]
  OBVIOUS
<1>2. \A i \in DOMAIN Tail(s) : /\ i + 1 \in DOMAIN s /\ 1 < i + 1 /\ 1 \in DOMAIN s
                                /\ Tail(s)[i] = s[i + 1]
  BY <1>1
<1>3. \A i, j \in DOMAIN s : i < j => key[s[i]] <= key[s[j]]
  BY DEF Sorted
<1>4. Sorted(Tail(s), key)
  <2> SUFFICES ASSUME NEW i \in DOMAIN Tail(s), NEW j \in DOMAIN Tail(s), i < j
               PROVE  key[Tail(s)[i]] <= key[Tail(s)[j]]
    BY DEF Sorted
  <2>1. i + 1 < j + 1
    BY <1>1
  <2> QED
    BY <1>2, <1>3, <2>1
<1>5. \A i \in DOMAIN Tail(s) : key[Head(s)] <= key[Tail(s)[i]]
  BY <1>1, <1>2, <1>3
<1> QED
  BY <1>4, <1>5 DEF Range

(***************************************************************************)
(* The order depends on the keys of the queued tasks only.                 *)
(***************************************************************************)
LEMMA SameOrder ==
    ASSUME NEW s, NEW k1, NEW k2, \A t \in Range(s) : k1[t] = k2[t], Sorted(s, k1)
    PROVE  Sorted(s, k2)
  BY DEF Sorted, Range

-----------------------------------------------------------------------------
(* The scheduler *)

(***************************************************************************)
(* QueueDiscipline of queues and fields that are still being computed.     *)
(***************************************************************************)
IsReady(st, t) == st[t] \in {"READY", "RUNNING"}

ReadyQueuesOK(st, prio, rd) ==
    \A p \in Priority :
        /\ IsInjective(rd[p])
        /\ Range(rd[p]) = {t \in Task : IsReady(st, t) /\ prio[t] = p}

WaitQueuesOK(st, wq, wt) ==
    /\ \A q \in WaitQueue :
         /\ IsInjective(wt[q])
         /\ Range(wt[q]) = {t \in Task : st[t] = "BLOCKED" /\ wq[t] = q}
    /\ \A t \in Task : st[t] = "BLOCKED" <=> wq[t] # NULL

TimeoutsOK(st, to) ==
    /\ IsInjective(to)
    /\ \A t \in Range(to) : st[t] = "BLOCKED"

(***************************************************************************)
(* QueueDiscipline speaks of the ready, wait and timeout queues.           *)
(***************************************************************************)
LEMMA QueueDisciplineParts ==
    QueueDiscipline <=> /\ ReadyQueuesOK(state, priority, g_priorities)
                        /\ WaitQueuesOK(state, wait_queue, waiters)
                        /\ TimeoutsOK(state, g_timeout_queue)
  BY DEF QueueDiscipline, ReadyQueuesOK, WaitQueuesOK, TimeoutsOK, IsReady, Ready, Blocked

(***************************************************************************)
(* The same of the queues a handler leaves behind.                         *)
(***************************************************************************)
LEMMA QueueDisciplineNext ==
    ASSUME ReadyQueuesOK(state', priority', g_priorities'),
           WaitQueuesOK(state', wait_queue', waiters'),
           TimeoutsOK(state', g_timeout_queue')
    PROVE  QueueDiscipline'
  BY DEF QueueDiscipline, ReadyQueuesOK, WaitQueuesOK, TimeoutsOK, IsReady, Ready, Blocked

-----------------------------------------------------------------------------
(* os_schedule *)

(***************************************************************************)
(* os_schedule returns a task of the ready queues, or NULL.                *)
(***************************************************************************)
LEMMA ScheduleType ==
    ASSUME NEW rd \in [Priority -> Seq(Task)]
    PROVE  os_schedule(rd) \in TaskOrNull
<1> DEFINE heads == {Head(rd[p]) : p \in {x \in Priority :
                      rd[x] # << >> /\ \A y \in Priority : y < x => rd[y] = << >>}}
<1>1. heads \subseteq Task
  <2> SUFFICES ASSUME NEW p \in Priority, rd[p] # << >>
               PROVE  Head(rd[p]) \in Task
    OBVIOUS
  <2>1. rd[p] \in Seq(Task)
    OBVIOUS
  <2> QED
    BY <2>1
<1>2. os_schedule(rd) = IF heads = {} THEN NULL ELSE CHOOSE t \in heads : TRUE
  BY DEF os_schedule
<1> HIDE DEF heads
<1>3. CASE heads = {}
  BY <1>2, <1>3 DEF TaskOrNull
<1>4. CASE heads # {}
  BY <1>1, <1>2, <1>4 DEF TaskOrNull
<1> QED
  BY <1>3, <1>4

(***************************************************************************)
(* While some task is ready, os_schedule returns a ready task, and one of  *)
(* the most urgent priority.                                               *)
(***************************************************************************)
LEMMA SchedulePicksReady ==
    ASSUME NEW rd \in [Priority -> Seq(Task)], NEW st, NEW prio,
           ReadyQueuesOK(st, prio, rd),
           NEW u \in Task, IsReady(st, u), prio[u] \in Priority
    PROVE  /\ os_schedule(rd) \in Task /\ IsReady(st, os_schedule(rd))
           /\ \A t \in Task : IsReady(st, t) /\ prio[t] \in Priority
                                => prio[os_schedule(rd)] <= prio[t]
<1> DEFINE busy == {x \in Priority : rd[x] # << >>}
           top == {x \in Priority : rd[x] # << >> /\ \A y \in Priority : y < x => rd[y] = << >>}
           heads == {Head(rd[p]) : p \in top}
<1>1. Priority \subseteq Nat /\ OS_TASK_IDLE \in Nat /\ Priority = 0 .. OS_TASK_IDLE
  BY SchedulerAssumption DEF Priority, OS_TASK_IDLE
<1>2. \A t \in Task : IsReady(st, t) /\ prio[t] \in Priority => prio[t] \in busy
  BY DEF ReadyQueuesOK, Range
<1>3. PICK p \in busy : \A q \in busy : p <= q
  <2>1. busy # {} /\ busy \in SUBSET (0 .. OS_TASK_IDLE)
    BY <1>1, <1>2
  <2> QED
    BY <1>1, <2>1, LeastElement
<1>4. \A y \in Priority : y < p => rd[y] = << >>
  BY <1>1, <1>3
<1>5. \A x \in top : x = p
  <2> SUFFICES ASSUME NEW x \in top
               PROVE  x = p
    OBVIOUS
  <2>1. x \in busy /\ ~ (p < x)
    BY <1>3
  <2> QED
    BY <1>1, <1>3, <2>1
<1>6. p \in top
  BY <1>4
<1>7. heads = {Head(rd[p])}
  BY <1>5, <1>6
<1>8. os_schedule(rd) = IF heads = {} THEN NULL ELSE CHOOSE t \in heads : TRUE
  BY DEF os_schedule
<1>9. os_schedule(rd) = Head(rd[p])
  BY <1>7, <1>8
<1>10. rd[p] \in Seq(Task) /\ rd[p] # << >>
  BY <1>3
<1>11. Head(rd[p]) \in Range(rd[p])
  BY <1>10, PopFacts
<1>12. os_schedule(rd) \in Task /\ IsReady(st, os_schedule(rd)) /\ prio[os_schedule(rd)] = p
  BY <1>3, <1>9, <1>11 DEF ReadyQueuesOK
<1> QED
  BY <1>2, <1>3, <1>12

-----------------------------------------------------------------------------
(* Blocking and waking *)

(***************************************************************************)
(* The timeout queue gains the task, wherever its wake tick puts it.       *)
(***************************************************************************)
LEMMA TimeoutInsertFacts ==
    ASSUME NEW s \in Seq(Task), NEW t \in Task, NEW wake
    PROVE  LET u == os_timeout_queue_insert_sorted(s, t, wake)
           IN  /\ u \in Seq(Task)
               /\ Range(u) = Range(s) \cup {t}
               /\ IsInjective(s) /\ t \notin Range(s) => IsInjective(u)
<1> DEFINE I == {i \in DOMAIN s : \A j \in 1 .. i : ~ os_tick_reached(wake[s[j]], wake[t])}
<1>1. os_timeout_queue_insert_sorted(s, t, wake) = InsertAfter(s, I, t)
  BY DEF os_timeout_queue_insert_sorted, Prefix
<1>2. I \in SUBSET DOMAIN s
  OBVIOUS
<1> HIDE DEF I
<1> QED
  BY <1>1, <1>2, InsertFacts

(***************************************************************************)
(* Tick arithmetic stays in range.                                         *)
(***************************************************************************)
LEMMA TickFacts ==
    /\ OS_WAIT_FOREVER \in Tick /\ 0 \in Tick
    /\ \A n \in Int : n % TICKS \in Tick
<1>1. TICKS \in Nat \ {0}
  BY SchedulerAssumption DEF TICKS
<1>2. \A n \in Int : n % TICKS \in 0 .. TICKS - 1
  BY <1>1
<1> QED
  BY <1>1, <1>2 DEF Tick, OS_WAIT_FOREVER

(***************************************************************************)
(* os_task_block_locked moves a ready current task from its ready queue to *)
(* the wait queue, and to the timeout queue if it asked for a timeout.     *)
(***************************************************************************)
LEMMA BlockStep ==
    ASSUME SchedTypeOK, g_current \in Task, IsReady(state, g_current),
           NEW q \in WaitQueue, NEW ticks \in Tick, NEW ordered \in BOOLEAN,
           NEW rd \in [Priority -> Seq(Task)], NEW wt \in [WaitQueue -> Seq(Task)],
           NEW prio \in [Task -> Priority],
           ReadyQueuesOK(state, prio, rd), WaitQueuesOK(state, wait_queue, wt),
           TimeoutsOK(state, g_timeout_queue),
           os_task_block_locked(q, ticks, ordered, rd, wt, prio)
    PROVE  /\ state' \in [Task -> {"none", "READY", "RUNNING", "BLOCKED"}]
           /\ wait_queue' \in [Task -> WaitQueue \cup {NULL}]
           /\ wake_tick' \in [Task -> Tick]
           /\ g_priorities' \in [Priority -> Seq(Task)]
           /\ waiters' \in [WaitQueue -> Seq(Task)]
           /\ g_timeout_queue' \in Seq(Task)
           /\ pendsv' \in BOOLEAN
           /\ g_next' = os_schedule(g_priorities')
           /\ pendsv' = (pendsv \/ g_next' # g_current)
           /\ state' = [state EXCEPT ![g_current] = "BLOCKED"]
           /\ ReadyQueuesOK(state', prio, g_priorities')
           /\ WaitQueuesOK(state', wait_queue', waiters')
           /\ TimeoutsOK(state', g_timeout_queue')
<1> DEFINE t == g_current
           timed == ticks # OS_WAIT_FOREVER
           wake == [wake_tick EXCEPT ![t] =
                      IF timed THEN TickPlus(ticks) ELSE OS_WAIT_FOREVER]
           old == rd[prio[t]]
           new == os_task_queue_remove(old, t)
           into == IF ordered THEN os_task_queue_insert_by_priority(wt[q], t, prio)
                   ELSE os_task_queue_add(wt[q], t)
<1>1. /\ state' = [state EXCEPT ![t] = "BLOCKED"]
      /\ wait_queue' = [wait_queue EXCEPT ![t] = q]
      /\ wake_tick' = wake
      /\ waiters' = [wt EXCEPT ![q] = into]
      /\ g_timeout_queue' = IF timed THEN os_timeout_queue_insert_sorted(g_timeout_queue, t, wake)
                            ELSE g_timeout_queue
      /\ g_priorities' = [rd EXCEPT ![prio[t]] = new]
      /\ g_next' = os_schedule(g_priorities')
      /\ pendsv' = (pendsv \/ os_schedule(g_priorities') # g_current)
  BY DEF os_task_block_locked, ScheduleAndPend
<1>2. /\ state \in [Task -> {"none", "READY", "RUNNING", "BLOCKED"}]
      /\ wait_queue \in [Task -> WaitQueue \cup {NULL}] /\ wake_tick \in [Task -> Tick]
      /\ g_timeout_queue \in Seq(Task) /\ pendsv \in BOOLEAN /\ g_tick \in Tick
      /\ q # NULL
  BY SchedulerAssumption DEF SchedTypeOK
<1>3. t \in Task /\ prio[t] \in Priority /\ old \in Seq(Task) /\ t \in Range(old)
      /\ IsInjective(old) /\ Range(old) = {u \in Task : IsReady(state, u) /\ prio[u] = prio[t]}
  BY DEF ReadyQueuesOK
<1>4. new \in Seq(Task) /\ Range(new) = Range(old) \ {t} /\ IsInjective(new)
  BY <1>3, RemoveFacts
<1>5. wt[q] \in Seq(Task) /\ IsInjective(wt[q]) /\ t \notin Range(wt[q])
      /\ Range(wt[q]) = {u \in Task : state[u] = "BLOCKED" /\ wait_queue[u] = q}
  BY DEF WaitQueuesOK, IsReady
<1>6. into \in Seq(Task) /\ Range(into) = Range(wt[q]) \cup {t} /\ IsInjective(into)
  <2>1. CASE ordered
    BY <1>3, <1>5, <2>1, InsertByPriorityFacts
  <2>2. CASE ~ ordered
    BY <1>3, <1>5, <2>2, AddFacts
  <2> QED
    BY <2>1, <2>2
<1> HIDE DEF new, into, old
<1>7. wake \in [Task -> Tick]
  <2>1. g_tick + ticks \in Int
    BY <1>2, SchedulerAssumption DEF Tick, TICKS
  <2> QED
    BY <1>2, <2>1, TickFacts DEF TickPlus
<1> HIDE DEF wake
<1>8. \A u \in Task : state'[u] = IF u = t THEN "BLOCKED" ELSE state[u]
  BY <1>1, <1>2
<1>9. ReadyQueuesOK(state', prio, g_priorities')
  <2> SUFFICES ASSUME NEW p \in Priority
               PROVE  /\ IsInjective(g_priorities'[p])
                      /\ Range(g_priorities'[p]) = {u \in Task : IsReady(state', u) /\ prio[u] = p}
    BY DEF ReadyQueuesOK
  <2>1. CASE p = prio[t]
    <3>1. g_priorities'[p] = new
      BY <1>1, <1>3, <2>1
    <3> QED
      BY <1>3, <1>4, <1>8, <2>1, <3>1 DEF IsReady
  <2>2. CASE p # prio[t]
    <3>1. g_priorities'[p] = rd[p]
      BY <1>1, <2>2
    <3>2. IsInjective(rd[p]) /\ Range(rd[p]) = {u \in Task : IsReady(state, u) /\ prio[u] = p}
      BY DEF ReadyQueuesOK
    <3> QED
      BY <1>8, <2>2, <3>1, <3>2 DEF IsReady
  <2> QED
    BY <2>1, <2>2
<1>10. WaitQueuesOK(state', wait_queue', waiters')
  <2>1. \A u \in Task : wait_queue'[u] = IF u = t THEN q ELSE wait_queue[u]
    BY <1>1, <1>2
  <2>2. ASSUME NEW x \in WaitQueue
        PROVE  /\ IsInjective(waiters'[x])
               /\ Range(waiters'[x]) = {u \in Task : state'[u] = "BLOCKED" /\ wait_queue'[u] = x}
    <3>1. CASE x = q
      BY <1>1, <1>3, <1>5, <1>6, <1>8, <2>1, <3>1
    <3>2. CASE x # q
      <4>1. waiters'[x] = wt[x]
        BY <1>1, <3>2
      <4>2. IsInjective(wt[x])
            /\ Range(wt[x]) = {u \in Task : state[u] = "BLOCKED" /\ wait_queue[u] = x}
        BY DEF WaitQueuesOK
      <4> QED
        BY <1>8, <2>1, <3>2, <4>1, <4>2 DEF IsReady
    <3> QED
      BY <3>1, <3>2
  <2>3. \A u \in Task : state'[u] = "BLOCKED" <=> wait_queue'[u] # NULL
    BY <1>2, <1>8, <2>1 DEF WaitQueuesOK
  <2> QED
    BY <2>2, <2>3 DEF WaitQueuesOK
<1>11. g_timeout_queue' \in Seq(Task) /\ TimeoutsOK(state', g_timeout_queue')
  <2>1. t \notin Range(g_timeout_queue)
    BY DEF TimeoutsOK, IsReady
  <2>2. Range(g_timeout_queue) \subseteq Task
    BY <1>2 DEF Range
  <2>3. CASE timed
    <3> DEFINE u == os_timeout_queue_insert_sorted(g_timeout_queue, t, wake)
    <3>1. u \in Seq(Task) /\ Range(u) = Range(g_timeout_queue) \cup {t}
          /\ (IsInjective(g_timeout_queue) => IsInjective(u))
      BY <1>2, <1>3, <2>1, TimeoutInsertFacts
    <3>2. g_timeout_queue' = u
      BY <1>1, <2>3
    <3> HIDE DEF u
    <3> QED
      BY <1>8, <2>2, <3>1, <3>2 DEF TimeoutsOK
  <2>4. CASE ~ timed
    BY <1>1, <1>2, <1>8, <2>2, <2>4 DEF TimeoutsOK
  <2> QED
    BY <2>3, <2>4
<1> QED
  BY <1>1, <1>2, <1>3, <1>4, <1>6, <1>7, <1>9, <1>10, <1>11

(***************************************************************************)
(* os_task_wake_one_locked moves the head of a wait queue to the back of   *)
(* the ready queue of its priority and out of the timeout queue.           *)
(***************************************************************************)
LEMMA WakeStep ==
    ASSUME SchedTypeOK,
           NEW q \in WaitQueue, waiters[q] # << >>,
           NEW rd \in [Priority -> Seq(Task)], NEW prio \in [Task -> Priority],
           ReadyQueuesOK(state, prio, rd), WaitQueuesOK(state, wait_queue, waiters),
           TimeoutsOK(state, g_timeout_queue),
           \A u \in Range(g_timeout_queue) : u = Head(waiters[q]) => wake_tick[u] # OS_WAIT_FOREVER,
           os_task_wake_one_locked(q, rd, prio)
    PROVE  /\ Head(waiters[q]) \in Task /\ state[Head(waiters[q])] = "BLOCKED"
           /\ state' \in [Task -> {"none", "READY", "RUNNING", "BLOCKED"}]
           /\ wait_queue' \in [Task -> WaitQueue \cup {NULL}]
           /\ wake_tick' \in [Task -> Tick]
           /\ g_priorities' \in [Priority -> Seq(Task)]
           /\ waiters' \in [WaitQueue -> Seq(Task)]
           /\ g_timeout_queue' \in Seq(Task)
           /\ pendsv' \in BOOLEAN
           /\ g_next' = os_schedule(g_priorities')
           /\ pendsv' = (pendsv \/ g_next' # g_current)
           /\ state' = [state EXCEPT ![Head(waiters[q])] = "READY"]
           /\ ReadyQueuesOK(state', prio, g_priorities')
           /\ WaitQueuesOK(state', wait_queue', waiters')
           /\ TimeoutsOK(state', g_timeout_queue')
<1> DEFINE t == Head(waiters[q])
           old == rd[prio[t]]
           new == os_task_queue_add(old, t)
           removed == os_timeout_queue_remove(g_timeout_queue, t)
<1>1. /\ waiters' = [waiters EXCEPT ![q] = Tail(waiters[q])]
      /\ g_timeout_queue' = IF wake_tick[t] # OS_WAIT_FOREVER THEN removed ELSE g_timeout_queue
      /\ state' = [state EXCEPT ![t] = "READY"]
      /\ wait_queue' = [wait_queue EXCEPT ![t] = NULL]
      /\ wake_tick' = [wake_tick EXCEPT ![t] = OS_WAIT_FOREVER]
      /\ g_priorities' = [rd EXCEPT ![prio[t]] = new]
      /\ g_next' = os_schedule(g_priorities')
      /\ pendsv' = (pendsv \/ os_schedule(g_priorities') # g_current)
  BY DEF os_task_wake_one_locked, ScheduleAndPend
<1>2. /\ state \in [Task -> {"none", "READY", "RUNNING", "BLOCKED"}]
      /\ wait_queue \in [Task -> WaitQueue \cup {NULL}] /\ wake_tick \in [Task -> Tick]
      /\ g_timeout_queue \in Seq(Task) /\ pendsv \in BOOLEAN
      /\ waiters \in [WaitQueue -> Seq(Task)] /\ waiters[q] \in Seq(Task)
      /\ OS_WAIT_FOREVER \in Tick
  BY TickFacts DEF SchedTypeOK
<1>3. IsInjective(waiters[q])
      /\ Range(waiters[q]) = {u \in Task : state[u] = "BLOCKED" /\ wait_queue[u] = q}
  BY DEF WaitQueuesOK
<1>4. /\ t \in Range(waiters[q]) /\ Tail(waiters[q]) \in Seq(Task)
      /\ Range(waiters[q]) = Range(Tail(waiters[q])) \cup {t}
      /\ IsInjective(Tail(waiters[q])) /\ t \notin Range(Tail(waiters[q]))
  BY <1>2, <1>3, PopFacts
<1>5. t \in Task /\ state[t] = "BLOCKED" /\ wait_queue[t] = q
  BY <1>3, <1>4
<1>6. /\ old \in Seq(Task) /\ t \notin Range(old) /\ prio[t] \in Priority
      /\ IsInjective(old)
      /\ Range(old) = {u \in Task : IsReady(state, u) /\ prio[u] = prio[t]}
  BY <1>5 DEF ReadyQueuesOK, IsReady
<1> HIDE DEF old, t
<1>7. new \in Seq(Task) /\ Range(new) = Range(old) \cup {t} /\ IsInjective(new)
  BY <1>5, <1>6, AddFacts
<1> HIDE DEF new
<1>8. \A u \in Task : state'[u] = IF u = t THEN "READY" ELSE state[u]
  BY <1>1, <1>2
<1>9. ReadyQueuesOK(state', prio, g_priorities')
  <2> SUFFICES ASSUME NEW p \in Priority
               PROVE  /\ IsInjective(g_priorities'[p])
                      /\ Range(g_priorities'[p]) = {u \in Task : IsReady(state', u) /\ prio[u] = p}
    BY DEF ReadyQueuesOK
  <2>1. CASE p = prio[t]
    <3>1. g_priorities'[p] = new
      BY <1>1, <1>6, <2>1
    <3> QED
      BY <1>5, <1>6, <1>7, <1>8, <2>1, <3>1 DEF IsReady
  <2>2. CASE p # prio[t]
    <3>1. g_priorities'[p] = rd[p]
      BY <1>1, <2>2
    <3>2. IsInjective(rd[p]) /\ Range(rd[p]) = {u \in Task : IsReady(state, u) /\ prio[u] = p}
      BY DEF ReadyQueuesOK
    <3> QED
      BY <1>8, <2>2, <3>1, <3>2 DEF IsReady
  <2> QED
    BY <2>1, <2>2
<1>10. WaitQueuesOK(state', wait_queue', waiters')
  <2>1. \A u \in Task : wait_queue'[u] = IF u = t THEN NULL ELSE wait_queue[u]
    BY <1>1, <1>2
  <2>2. NULL \notin WaitQueue
    BY SchedulerAssumption
  <2>3. ASSUME NEW x \in WaitQueue
        PROVE  /\ IsInjective(waiters'[x])
               /\ Range(waiters'[x]) = {u \in Task : state'[u] = "BLOCKED" /\ wait_queue'[u] = x}
    <3>1. CASE x = q
      <4>1. waiters'[x] = Tail(waiters[q])
        BY <1>1, <1>2, <3>1
      <4> QED
        BY <1>3, <1>4, <1>8, <2>1, <2>2, <3>1, <4>1
    <3>2. CASE x # q
      <4>1. waiters'[x] = waiters[x]
        BY <1>1, <1>2, <3>2
      <4>2. IsInjective(waiters[x])
            /\ Range(waiters[x]) = {u \in Task : state[u] = "BLOCKED" /\ wait_queue[u] = x}
        BY DEF WaitQueuesOK
      <4> QED
        BY <1>5, <1>8, <2>1, <2>2, <3>2, <4>1, <4>2
    <3> QED
      BY <3>1, <3>2
  <2>4. \A u \in Task : state'[u] = "BLOCKED" <=> wait_queue'[u] # NULL
    BY <1>8, <2>1 DEF WaitQueuesOK
  <2> QED
    BY <2>3, <2>4 DEF WaitQueuesOK
<1>11. g_timeout_queue' \in Seq(Task) /\ TimeoutsOK(state', g_timeout_queue')
  <2>1. Range(g_timeout_queue) \subseteq Task
    BY <1>2 DEF Range
  <2>2. removed \in Seq(Task) /\ Range(removed) = Range(g_timeout_queue) \ {t}
        /\ (IsInjective(g_timeout_queue) => IsInjective(removed))
    BY <1>2, TimeoutRemoveFacts
  <2> HIDE DEF removed
  <2>3. CASE wake_tick[t] # OS_WAIT_FOREVER
    <3>1. g_timeout_queue' = removed
      BY <1>1, <2>3
    <3> QED
      BY <1>8, <2>1, <2>2, <3>1 DEF TimeoutsOK
  <2>4. CASE wake_tick[t] = OS_WAIT_FOREVER
    <3>1. t \notin Range(g_timeout_queue)
      BY <2>4 DEF t
    <3>2. g_timeout_queue' = g_timeout_queue
      BY <1>1, <2>4
    <3> QED
      BY <1>2, <1>8, <2>1, <3>1, <3>2 DEF TimeoutsOK
  <2> QED
    BY <2>3, <2>4
<1>12. /\ state' \in [Task -> {"none", "READY", "RUNNING", "BLOCKED"}]
       /\ wait_queue' \in [Task -> WaitQueue \cup {NULL}]
       /\ wake_tick' \in [Task -> Tick]
       /\ waiters' \in [WaitQueue -> Seq(Task)]
       /\ g_priorities' \in [Priority -> Seq(Task)]
  <2> DEFINE tail == Tail(waiters[q])
  <2>1. tail \in Seq(Task) /\ waiters' = [waiters EXCEPT ![q] = tail]
    BY <1>1, <1>4
  <2> HIDE DEF tail
  <2>2. waiters' \in [WaitQueue -> Seq(Task)]
    BY <1>2, <2>1
  <2>3. g_priorities' \in [Priority -> Seq(Task)]
    BY <1>1, <1>7
  <2> QED
    BY <1>1, <1>2, <2>2, <2>3
<1> QED
  BY <1>1, <1>2, <1>5, <1>9, <1>10, <1>11, <1>12 DEF t

-----------------------------------------------------------------------------
(* The tick *)

(***************************************************************************)
(* Rotating the current task's ready queue keeps the ready queues right.   *)
(***************************************************************************)
LEMMA RotateStep ==
    ASSUME NEW rd \in [Priority -> Seq(Task)], NEW st, ReadyQueuesOK(st, priority, rd)
    PROVE  /\ RotateCurrent(rd) \in [Priority -> Seq(Task)]
           /\ ReadyQueuesOK(st, priority, RotateCurrent(rd))
<1> DEFINE p0 == priority[g_current]
           new == os_ready_queue_rotate(rd[p0], g_current)
<1>1. RotateCurrent(rd) = [rd EXCEPT ![p0] = new]
  BY DEF RotateCurrent
<1>2. CASE p0 \in Priority
  <2>1. rd[p0] \in Seq(Task)
    BY <1>2
  <2>2. new \in Seq(Task) /\ Range(new) = Range(rd[p0])
        /\ (IsInjective(rd[p0]) => IsInjective(new))
    BY <2>1, RotateFacts
  <2> HIDE DEF new, p0
  <2> QED
    BY <1>1, <1>2, <2>2 DEF ReadyQueuesOK
<1>3. CASE p0 \notin Priority
  <2> HIDE DEF new, p0
  <2>1. RotateCurrent(rd) = rd
    BY <1>1, <1>3
  <2> QED
    BY <2>1
<1> QED
  BY <1>2, <1>3

(***************************************************************************)
(* A tick moves the due prefix of the timeout queue from the wait queues   *)
(* to the ready queues and touches no other task.                          *)
(***************************************************************************)
LEMMA TickStep ==
    ASSUME SchedTypeOK, QueueDiscipline, SysTick_Handler
    PROVE  /\ state' \in [Task -> {"none", "READY", "RUNNING", "BLOCKED"}]
           /\ wait_queue' \in [Task -> WaitQueue \cup {NULL}]
           /\ wake_tick' \in [Task -> Tick]
           /\ g_priorities' \in [Priority -> Seq(Task)]
           /\ waiters' \in [WaitQueue -> Seq(Task)]
           /\ g_timeout_queue' \in Seq(Task)
           /\ g_tick' \in Tick
           /\ pendsv' \in BOOLEAN
           /\ g_next' = os_schedule(g_priorities')
           /\ pendsv => pendsv'
           /\ \A t \in Task :
                \/ state'[t] = state[t]
                \/ state[t] = "BLOCKED" /\ state'[t] = "READY"
           /\ ReadyQueuesOK(state', priority, g_priorities')
           /\ WaitQueuesOK(state', wait_queue', waiters')
           /\ TimeoutsOK(state', g_timeout_queue')
<1> DEFINE s == g_timeout_queue
           now == TickPlus(1)
           due == {i \in DOMAIN s : \A j \in 1 .. i : os_tick_reached(now, wake_tick[s[j]])}
           woken == {s[i] : i \in due}
           late(p) == {i \in due : priority[s[i]] = p}
           rd == [p \in Priority |-> g_priorities[p] \o Pick(s, late(p))]
           left(q) == {i \in DOMAIN waiters[q] : waiters[q][i] \notin woken}
<1>1. /\ g_tick' = now
      /\ g_timeout_queue' = Pick(s, DOMAIN s \ due)
      /\ waiters' = [q \in WaitQueue |-> Pick(waiters[q], left(q))]
      /\ wait_queue' = [t \in Task |-> IF t \in woken THEN NULL ELSE wait_queue[t]]
      /\ wake_tick' = [t \in Task |-> IF t \in woken THEN OS_WAIT_FOREVER ELSE wake_tick[t]]
      /\ state' = [t \in Task |-> IF t \in woken THEN "READY" ELSE state[t]]
      /\ g_priorities' = RotateCurrent(rd)
      /\ g_next' = os_schedule(RotateCurrent(rd))
      /\ pendsv' = (pendsv \/ os_schedule(rd) # g_current
                             \/ os_schedule(RotateCurrent(rd)) # g_current)
  BY DEF SysTick_Handler, TimedOut, Prefix
<1>2. /\ state \in [Task -> {"none", "READY", "RUNNING", "BLOCKED"}]
      /\ wait_queue \in [Task -> WaitQueue \cup {NULL}] /\ wake_tick \in [Task -> Tick]
      /\ s \in Seq(Task) /\ pendsv \in BOOLEAN /\ g_tick \in Tick
      /\ waiters \in [WaitQueue -> Seq(Task)] /\ g_priorities \in [Priority -> Seq(Task)]
  BY DEF SchedTypeOK
<1>3. /\ ReadyQueuesOK(state, priority, g_priorities)
      /\ WaitQueuesOK(state, wait_queue, waiters)
      /\ TimeoutsOK(state, s)
  BY QueueDisciplineParts
<1>4. due \in SUBSET DOMAIN s
  OBVIOUS
<1>5. g_tick' \in Tick /\ OS_WAIT_FOREVER \in Tick
  <2>1. g_tick + 1 \in Int
    BY <1>2 DEF Tick
  <2> QED
    BY <1>1, <2>1, TickFacts DEF TickPlus
<1> HIDE DEF due, now, rd, left
<1>6. woken \subseteq Range(s) /\ woken \subseteq Task /\ \A t \in woken : state[t] = "BLOCKED"
  <2>1. woken \subseteq Range(s)
    BY <1>4 DEF Range
  <2>2. Range(s) \subseteq Task
    BY <1>2 DEF Range
  <2> QED
    BY <1>3, <2>1, <2>2 DEF TimeoutsOK
<1>7. \A p \in Priority :
        /\ late(p) \in SUBSET DOMAIN s
        /\ {s[i] : i \in late(p)} = {t \in woken : priority[t] = p}
  BY <1>4
<1> HIDE DEF late
<1>8. ASSUME NEW p \in Priority
      PROVE  /\ Pick(s, late(p)) \in Seq(Task)
             /\ Range(Pick(s, late(p))) = {t \in woken : priority[t] = p}
             /\ IsInjective(Pick(s, late(p)))
  <2> DEFINE I == late(p)
  <2>1. I \in SUBSET DOMAIN s /\ {s[i] : i \in I} = {t \in woken : priority[t] = p}
    BY <1>7
  <2> HIDE DEF I, woken
  <2>2. IsInjective(s) /\ s \in Seq(Task)
    BY <1>2, <1>3 DEF TimeoutsOK
  <2>3. Pick(s, I) \in Seq(Task) /\ Range(Pick(s, I)) = {s[i] : i \in I} /\ IsInjective(Pick(s, I))
    BY <2>1, <2>2, PickFacts
  <2> QED
    BY <2>1, <2>3 DEF I
<1>9. /\ Pick(s, DOMAIN s \ due) \in Seq(Task)
      /\ Range(Pick(s, DOMAIN s \ due)) = {s[i] : i \in DOMAIN s \ due}
      /\ IsInjective(Pick(s, DOMAIN s \ due))
  BY <1>2, <1>3, PickFacts DEF TimeoutsOK
<1>10. \A t \in Range(Pick(s, DOMAIN s \ due)) : t \in Range(s) /\ t \notin woken
  <2>1. \A i \in DOMAIN s, j \in due : s[i] = s[j] => i = j
    BY <1>3, <1>4 DEF TimeoutsOK, IsInjective
  <2> QED
    BY <1>9, <2>1 DEF Range
<1> HIDE DEF woken
<1>11. \A t \in Task : state'[t] = IF t \in woken THEN "READY" ELSE state[t]
  BY <1>1
<1>12. rd \in [Priority -> Seq(Task)] /\ ReadyQueuesOK(state', priority, rd)
  <2> SUFFICES ASSUME NEW p \in Priority
               PROVE  /\ rd[p] \in Seq(Task) /\ IsInjective(rd[p])
                      /\ Range(rd[p]) = {t \in Task : IsReady(state', t) /\ priority[t] = p}
    BY DEF ReadyQueuesOK, rd
  <2> DEFINE a == g_priorities[p]
             b == Pick(s, late(p))
  <2>1. rd[p] = a \o b
    BY DEF rd
  <2>2. /\ a \in Seq(Task) /\ IsInjective(a)
        /\ Range(a) = {t \in Task : IsReady(state, t) /\ priority[t] = p}
    BY <1>2, <1>3 DEF ReadyQueuesOK
  <2>3. b \in Seq(Task) /\ IsInjective(b) /\ Range(b) = {t \in woken : priority[t] = p}
    BY <1>8
  <2>4. Range(a) \cap Range(b) = {}
    BY <1>6, <2>2, <2>3 DEF IsReady
  <2> HIDE DEF a, b
  <2>5. a \o b \in Seq(Task) /\ Range(a \o b) = Range(a) \cup Range(b) /\ IsInjective(a \o b)
    BY <2>2, <2>3, <2>4, ConcatFacts
  <2>6. Range(a) \cup Range(b) = {t \in Task : IsReady(state', t) /\ priority[t] = p}
    BY <1>6, <1>11, <2>2, <2>3 DEF IsReady
  <2> QED
    BY <2>1, <2>5, <2>6
<1>13. g_priorities' \in [Priority -> Seq(Task)] /\ ReadyQueuesOK(state', priority, g_priorities')
  BY <1>1, <1>12, RotateStep
<1>14. waiters' \in [WaitQueue -> Seq(Task)] /\ WaitQueuesOK(state', wait_queue', waiters')
  <2>1. \A t \in Task : wait_queue'[t] = IF t \in woken THEN NULL ELSE wait_queue[t]
    BY <1>1
  <2>2. ASSUME NEW q \in WaitQueue
        PROVE  /\ waiters'[q] \in Seq(Task) /\ IsInjective(waiters'[q])
               /\ Range(waiters'[q]) = {t \in Task : state'[t] = "BLOCKED" /\ wait_queue'[t] = q}
    <3> DEFINE w == waiters[q]
    <3>1. w \in Seq(Task) /\ IsInjective(w)
          /\ Range(w) = {t \in Task : state[t] = "BLOCKED" /\ wait_queue[t] = q}
      BY <1>2, <1>3 DEF WaitQueuesOK
    <3>2. left(q) \in SUBSET DOMAIN w /\ {w[i] : i \in left(q)} = Range(w) \ woken
      BY DEF left, Range
    <3>3. waiters'[q] = Pick(w, left(q))
      BY <1>1
    <3> HIDE DEF w
    <3>4. Pick(w, left(q)) \in Seq(Task) /\ IsInjective(Pick(w, left(q)))
          /\ Range(Pick(w, left(q))) = Range(w) \ woken
      BY <3>1, <3>2, PickFacts
    <3>5. NULL \notin WaitQueue
      BY SchedulerAssumption
    <3>6. Range(w) \ woken = {t \in Task : state'[t] = "BLOCKED" /\ wait_queue'[t] = q}
      BY <1>11, <2>1, <3>1, <3>5
    <3> QED
      BY <3>3, <3>4, <3>6
  <2>3. \A t \in Task : state'[t] = "BLOCKED" <=> wait_queue'[t] # NULL
    BY <1>3, <1>11, <2>1 DEF WaitQueuesOK
  <2>4. waiters' \in [WaitQueue -> Seq(Task)]
    BY <1>1, <2>2
  <2> QED
    BY <2>2, <2>3, <2>4 DEF WaitQueuesOK
<1>15. g_timeout_queue' \in Seq(Task) /\ TimeoutsOK(state', g_timeout_queue')
  <2>1. \A t \in Range(s) : t \in Task /\ state[t] = "BLOCKED"
    BY <1>2, <1>3 DEF TimeoutsOK, Range
  <2> QED
    BY <1>1, <1>9, <1>10, <1>11, <2>1 DEF TimeoutsOK
<1>16. /\ state' \in [Task -> {"none", "READY", "RUNNING", "BLOCKED"}]
       /\ wait_queue' \in [Task -> WaitQueue \cup {NULL}]
       /\ wake_tick' \in [Task -> Tick]
  BY <1>1, <1>2, <1>5
<1>17. \A t \in Task :
         \/ state'[t] = state[t]
         \/ state[t] = "BLOCKED" /\ state'[t] = "READY"
  BY <1>6, <1>11
<1> QED
  BY <1>1, <1>2, <1>5, <1>13, <1>14, <1>15, <1>16, <1>17

-----------------------------------------------------------------------------
(* The inductive invariant *)

(***************************************************************************)
(* After the idle task's creation all of it holds.                         *)
(***************************************************************************)
LEMMA SchedInitInv == SchedInit => SchedInv
<1> SUFFICES ASSUME SchedInit PROVE SchedInv
  OBVIOUS
<1>1. /\ Idle \in Task /\ NULL \notin Task /\ NULL \notin WaitQueue
      /\ OS_TASK_IDLE \in Priority /\ 0 \in Tick
  BY SchedulerAssumption, TickFacts DEF OS_TASK_IDLE, Priority
<1>2. SchedTypeOK
  <2>1. <<Idle>> \in Seq(Task) /\ << >> \in Seq(Task)
    BY <1>1
  <2>2. /\ g_priorities \in [Priority -> Seq(Task)]
        /\ waiters \in [WaitQueue -> Seq(Task)]
        /\ g_timeout_queue \in Seq(Task)
    BY <2>1 DEF SchedInit
  <2>3. /\ state \in [Task -> {"none", "READY", "RUNNING", "BLOCKED"}]
        /\ sp \in [Task -> TaskOrNull]
    BY <1>1 DEF SchedInit, TaskOrNull
  <2> QED
    BY <1>1, <2>2, <2>3 DEF SchedInit, SchedTypeOK, TaskOrNull
<1>3. QueueDiscipline
  <2>1. Range(<<Idle>>) = {Idle} /\ IsInjective(<<Idle>>)
        /\ Range(<< >>) = {} /\ IsInjective(<< >>)
    BY DEF Range, IsInjective
  <2>2. ReadyQueuesOK(state, priority, g_priorities)
    BY <1>1, <2>1 DEF SchedInit, ReadyQueuesOK, IsReady
  <2>3. WaitQueuesOK(state, wait_queue, waiters)
    BY <1>1, <2>1 DEF SchedInit, WaitQueuesOK
  <2>4. TimeoutsOK(state, g_timeout_queue)
    BY <2>1 DEF SchedInit, TimeoutsOK
  <2> QED
    BY <2>2, <2>3, <2>4, QueueDisciplineParts
<1>4. ContextIntegrity /\ OnlyReadyTasksRun /\ SwitchControl
  BY <1>1 DEF SchedInit, ContextIntegrity, OnlyReadyTasksRun, SwitchControl, Ready, Created
<1> QED
  BY <1>2, <1>3, <1>4 DEF SchedInv

(***************************************************************************)
(* Whatever a handler leaves in the ready queues, if the idle task is      *)
(* ready then os_schedule has chosen a ready task.                         *)
(***************************************************************************)
LEMMA NextIsReady ==
    ASSUME SchedTypeOK', ReadyQueuesOK(state', priority', g_priorities'), Ready(Idle)',
           g_next' = os_schedule(g_priorities')
    PROVE  g_next' \in Task /\ Ready(g_next)'
<1>1. /\ g_priorities' \in [Priority -> Seq(Task)] /\ Idle \in Task
      /\ priority'[Idle] \in Priority /\ IsReady(state', Idle)
  BY SchedulerAssumption DEF SchedTypeOK, Ready, IsReady
<1>2. os_schedule(g_priorities') \in Task /\ IsReady(state', os_schedule(g_priorities'))
  BY <1>1, SchedulePicksReady
<1> QED
  BY <1>2 DEF IsReady, Ready

(***************************************************************************)
(* os_task_create adds one ready task.                                     *)
(***************************************************************************)
LEMMA CreateInv ==
    ASSUME SchedInv, NEW t \in Task, NEW p \in Priority, os_kernel_task_create(t, p)
    PROVE  SchedInv'
<1> USE DEF SchedInv
<1> DEFINE old == g_priorities[p]
           new == os_task_queue_add(old, t)
           rd == [g_priorities EXCEPT ![p] = new]
<1>1. /\ pc = "boot" \/ InTask
      /\ state[t] = "none"
      /\ state' = [state EXCEPT ![t] = "READY"]
      /\ priority' = [priority EXCEPT ![t] = p]
      /\ base_priority' = [base_priority EXCEPT ![t] = p]
      /\ wait_queue' = [wait_queue EXCEPT ![t] = NULL]
      /\ wake_tick' = [wake_tick EXCEPT ![t] = 0]
      /\ sp' = [sp EXCEPT ![t] = t]
      /\ g_priorities' = rd
      /\ g_next' = os_schedule(g_priorities')
      /\ pendsv' = (pendsv \/ (g_current # NULL /\ g_next' # g_current))
      /\ UNCHANGED <<waiters, g_timeout_queue, g_current, g_tick, g_first_switch, psp, pc, r_next>>
  BY DEF os_kernel_task_create, os_task_create_internal, Created
<1>2. /\ ReadyQueuesOK(state, priority, g_priorities)
      /\ WaitQueuesOK(state, wait_queue, waiters)
      /\ TimeoutsOK(state, g_timeout_queue)
  BY QueueDisciplineParts
<1>3. \A u \in Task : state'[u] = IF u = t THEN "READY" ELSE state[u]
  BY <1>1 DEF SchedTypeOK
<1>4. /\ old \in Seq(Task) /\ IsInjective(old) /\ t \notin Range(old)
      /\ Range(old) = {u \in Task : IsReady(state, u) /\ priority[u] = p}
  BY <1>1, <1>2 DEF ReadyQueuesOK, SchedTypeOK, IsReady
<1> HIDE DEF old
<1>5. new \in Seq(Task) /\ IsInjective(new) /\ Range(new) = Range(old) \cup {t}
  BY <1>4, AddFacts
<1> HIDE DEF new
<1>6. g_priorities' \in [Priority -> Seq(Task)]
  BY <1>1, <1>5 DEF SchedTypeOK
<1>7. SchedTypeOK'
  <2>1. g_next' \in TaskOrNull
    BY <1>1, <1>6, ScheduleType
  <2>2. /\ state' \in [Task -> {"none", "READY", "RUNNING", "BLOCKED"}]
        /\ priority' \in [Task -> Priority] /\ base_priority' \in [Task -> Priority]
        /\ wait_queue' \in [Task -> WaitQueue \cup {NULL}]
        /\ wake_tick' \in [Task -> Tick] /\ sp' \in [Task -> TaskOrNull]
        /\ pendsv' \in BOOLEAN
    BY <1>1, TickFacts DEF SchedTypeOK, TaskOrNull
  <2> QED
    BY <1>1, <1>6, <2>1, <2>2 DEF SchedTypeOK
<1>8. ReadyQueuesOK(state', priority', g_priorities')
  <2>1. \A u \in Task : priority'[u] = IF u = t THEN p ELSE priority[u]
    BY <1>1 DEF SchedTypeOK
  <2> SUFFICES ASSUME NEW x \in Priority
               PROVE  /\ IsInjective(g_priorities'[x])
                      /\ Range(g_priorities'[x]) = {u \in Task : IsReady(state', u) /\ priority'[u] = x}
    BY DEF ReadyQueuesOK
  <2>2. CASE x = p
    <3>1. g_priorities'[x] = new
      BY <1>1, <2>2 DEF SchedTypeOK
    <3> QED
      BY <1>3, <1>4, <1>5, <2>1, <2>2, <3>1 DEF IsReady
  <2>3. CASE x # p
    <3>1. g_priorities'[x] = g_priorities[x]
      BY <1>1, <2>3 DEF SchedTypeOK
    <3>2. IsInjective(g_priorities[x])
          /\ Range(g_priorities[x]) = {u \in Task : IsReady(state, u) /\ priority[u] = x}
      BY <1>2 DEF ReadyQueuesOK
    <3> QED
      BY <1>1, <1>3, <2>1, <2>3, <3>1, <3>2 DEF IsReady
  <2> QED
    BY <2>2, <2>3
<1>9. WaitQueuesOK(state', wait_queue', waiters')
  <2>1. \A u \in Task : wait_queue'[u] = wait_queue[u]
    BY <1>1, <1>2 DEF SchedTypeOK, WaitQueuesOK
  <2>2. \A u \in Task : state'[u] = "BLOCKED" <=> state[u] = "BLOCKED"
    BY <1>1, <1>3
  <2> QED
    BY <1>1, <1>2, <2>1, <2>2 DEF WaitQueuesOK
<1>10. TimeoutsOK(state', g_timeout_queue')
  <2>1. Range(g_timeout_queue) \subseteq Task
    BY DEF SchedTypeOK, Range
  <2> QED
    BY <1>1, <1>2, <1>3, <2>1 DEF TimeoutsOK
<1>11. QueueDiscipline'
  BY <1>8, <1>9, <1>10, QueueDisciplineNext
<1>12. Ready(Idle)'
  BY <1>1, <1>3, SchedulerAssumption DEF SwitchControl, Ready
<1>13. g_next' \in Task /\ Ready(g_next)'
  BY <1>1, <1>7, <1>8, <1>12, NextIsReady
<1>14. SwitchControl'
  BY <1>1, <1>3, <1>12, <1>13 DEF SwitchControl, Ready, Created, InTask
<1>15. ContextIntegrity'
  BY <1>1, <1>3 DEF ContextIntegrity, Created, SchedTypeOK
<1>16. OnlyReadyTasksRun'
  BY <1>1, <1>3 DEF OnlyReadyTasksRun, InTask
<1> QED
  BY <1>7, <1>11, <1>14, <1>15, <1>16

(***************************************************************************)
(* os_start makes the most urgent task current, on its own stack.          *)
(***************************************************************************)
LEMMA StartInv == SchedInv /\ os_start => SchedInv'
<1> SUFFICES ASSUME SchedInv, os_start PROVE SchedInv'
  OBVIOUS
<1> USE DEF SchedInv
<1>1. /\ g_next' = os_schedule(g_priorities) /\ g_current' = g_next' /\ psp' = sp[g_current']
      /\ pendsv' = TRUE /\ pc' = "thread" /\ g_first_switch' = TRUE
      /\ UNCHANGED <<tcbVars, queueVars, sp, r_next, g_tick>>
  BY DEF os_start
<1>2. /\ ReadyQueuesOK(state, priority, g_priorities)
      /\ Idle \in Task /\ IsReady(state, Idle) /\ priority[Idle] \in Priority
      /\ g_priorities \in [Priority -> Seq(Task)]
  BY QueueDisciplineParts, SchedulerAssumption DEF SwitchControl, Ready, IsReady, SchedTypeOK
<1>3. g_next' \in Task /\ IsReady(state, g_next')
  BY <1>1, <1>2, SchedulePicksReady
<1>4. psp' = g_current'
  BY <1>1, <1>3 DEF ContextIntegrity, Created, IsReady
<1>5. SchedTypeOK'
  BY <1>1, <1>3, <1>4 DEF SchedTypeOK, TaskOrNull, tcbVars, queueVars
<1>6. QueueDiscipline'
  BY <1>1 DEF QueueDiscipline, Ready, Blocked, tcbVars, queueVars
<1>7. SwitchControl' /\ ContextIntegrity' /\ OnlyReadyTasksRun'
  BY <1>1, <1>3, <1>4 DEF SwitchControl, ContextIntegrity, OnlyReadyTasksRun, Ready, Created,
     IsReady, tcbVars
<1> QED
  BY <1>5, <1>6, <1>7

(***************************************************************************)
(* os_yield reorders a ready queue.                                        *)
(***************************************************************************)
LEMMA YieldInv == SchedInv /\ os_kernel_yield => SchedInv'
<1> SUFFICES ASSUME SchedInv, os_kernel_yield PROVE SchedInv'
  OBVIOUS
<1> USE DEF SchedInv
<1>1. /\ g_priorities' = RotateCurrent(g_priorities)
      /\ g_next' = os_schedule(g_priorities')
      /\ pendsv' = TRUE
      /\ UNCHANGED <<tcbVars, waiters, g_timeout_queue, switchVars, g_tick>>
      /\ pc = "thread"
  BY DEF os_kernel_yield, InTask
<1>2. /\ ReadyQueuesOK(state, priority, g_priorities)
      /\ WaitQueuesOK(state, wait_queue, waiters) /\ TimeoutsOK(state, g_timeout_queue)
      /\ g_priorities \in [Priority -> Seq(Task)]
  BY QueueDisciplineParts DEF SchedTypeOK
<1>3. g_priorities' \in [Priority -> Seq(Task)] /\ ReadyQueuesOK(state, priority, g_priorities')
  BY <1>1, <1>2, RotateStep
<1>4. SchedTypeOK'
  <2>1. g_next' \in TaskOrNull
    BY <1>1, <1>3, ScheduleType
  <2> QED
    BY <1>1, <1>3, <2>1 DEF SchedTypeOK, tcbVars, switchVars
<1>5. /\ ReadyQueuesOK(state', priority', g_priorities')
      /\ WaitQueuesOK(state', wait_queue', waiters') /\ TimeoutsOK(state', g_timeout_queue')
  BY <1>1, <1>2, <1>3 DEF tcbVars
<1>6. QueueDiscipline'
  BY <1>5, QueueDisciplineNext
<1>7. Ready(Idle)'
  BY <1>1 DEF SwitchControl, Ready, tcbVars
<1>8. g_next' \in Task /\ Ready(g_next)'
  BY <1>1, <1>4, <1>5, <1>7, NextIsReady
<1>9. SwitchControl' /\ ContextIntegrity' /\ OnlyReadyTasksRun'
  BY <1>1, <1>7, <1>8 DEF SwitchControl, ContextIntegrity, OnlyReadyTasksRun, Created, Ready,
     tcbVars, switchVars
<1> QED
  BY <1>4, <1>6, <1>9

(***************************************************************************)
(* A system call that ends in os_task_block_locked: PendSV is pending      *)
(* before the caller can execute anything else.  The call may have changed *)
(* priorities, ready and wait queues before (mutex.c).                     *)
(***************************************************************************)
LEMMA BlockInv ==
    ASSUME SchedInv, InTask,
           NEW q \in WaitQueue, NEW ticks \in Tick, NEW ordered \in BOOLEAN,
           NEW rd \in [Priority -> Seq(Task)], NEW wt \in [WaitQueue -> Seq(Task)],
           NEW prio \in [Task -> Priority],
           ReadyQueuesOK(state, prio, rd), WaitQueuesOK(state, wait_queue, wt),
           os_task_block_locked(q, ticks, ordered, rd, wt, prio),
           priority' = prio, UNCHANGED <<base_priority, switchVars, g_tick>>
    PROVE  SchedInv'
<1> USE DEF SchedInv
<1>1. TimeoutsOK(state, g_timeout_queue)
  BY QueueDisciplineParts
<1>2. /\ g_current \in Task /\ IsReady(state, g_current) /\ g_current # Idle
      /\ pc = "thread"
  BY DEF InTask, OnlyReadyTasksRun, IsReady
<1>3. /\ state' \in [Task -> {"none", "READY", "RUNNING", "BLOCKED"}]
      /\ wait_queue' \in [Task -> WaitQueue \cup {NULL}]
      /\ wake_tick' \in [Task -> Tick]
      /\ g_priorities' \in [Priority -> Seq(Task)]
      /\ waiters' \in [WaitQueue -> Seq(Task)]
      /\ g_timeout_queue' \in Seq(Task)
      /\ pendsv' \in BOOLEAN
      /\ g_next' = os_schedule(g_priorities')
      /\ pendsv' = (pendsv \/ g_next' # g_current)
      /\ state' = [state EXCEPT ![g_current] = "BLOCKED"]
      /\ ReadyQueuesOK(state', prio, g_priorities')
      /\ WaitQueuesOK(state', wait_queue', waiters')
      /\ TimeoutsOK(state', g_timeout_queue')
  BY <1>1, <1>2, BlockStep
<1>4. SchedTypeOK'
  <2>1. g_next' \in TaskOrNull
    BY <1>3, ScheduleType
  <2> QED
    BY <1>3, <2>1 DEF SchedTypeOK, switchVars
<1>5. QueueDiscipline'
  BY <1>3, QueueDisciplineNext
<1>6. \A t \in Task : state'[t] = IF t = g_current THEN "BLOCKED" ELSE state[t]
  BY <1>3 DEF SchedTypeOK
<1>7. Ready(Idle)'
  BY <1>2, <1>6, SchedulerAssumption DEF SwitchControl, Ready
<1>8. g_next' \in Task /\ Ready(g_next)'
  BY <1>3, <1>4, <1>7, NextIsReady
<1>9. pendsv' = TRUE
  BY <1>2, <1>3, <1>6, <1>8 DEF Ready
<1>10. SwitchControl' /\ ContextIntegrity' /\ OnlyReadyTasksRun'
  BY <1>2, <1>6, <1>7, <1>8, <1>9 DEF SwitchControl, ContextIntegrity,
     OnlyReadyTasksRun, Created, switchVars
<1> QED
  BY <1>4, <1>5, <1>10

(***************************************************************************)
(* A system call that ends in os_task_wake_one_locked: it only makes the   *)
(* head of the wait queue ready.                                           *)
(***************************************************************************)
LEMMA WakeInv ==
    ASSUME SchedInv, InTask,
           NEW q \in WaitQueue, waiters[q] # << >>,
           NEW rd \in [Priority -> Seq(Task)], NEW prio \in [Task -> Priority],
           ReadyQueuesOK(state, prio, rd),
           \A u \in Range(g_timeout_queue) : u = Head(waiters[q]) => wake_tick[u] # OS_WAIT_FOREVER,
           os_task_wake_one_locked(q, rd, prio),
           priority' = prio, UNCHANGED <<base_priority, switchVars, g_tick>>
    PROVE  SchedInv'
<1> USE DEF SchedInv
<1> DEFINE h == Head(waiters[q])
<1>1. TimeoutsOK(state, g_timeout_queue) /\ WaitQueuesOK(state, wait_queue, waiters)
  BY QueueDisciplineParts
<1>2. g_current \in Task /\ state[g_current] = "RUNNING" /\ pc = "thread"
  BY DEF InTask, OnlyReadyTasksRun
<1>3. /\ h \in Task /\ state[h] = "BLOCKED"
      /\ state' \in [Task -> {"none", "READY", "RUNNING", "BLOCKED"}]
      /\ wait_queue' \in [Task -> WaitQueue \cup {NULL}]
      /\ wake_tick' \in [Task -> Tick]
      /\ g_priorities' \in [Priority -> Seq(Task)]
      /\ waiters' \in [WaitQueue -> Seq(Task)]
      /\ g_timeout_queue' \in Seq(Task)
      /\ pendsv' \in BOOLEAN
      /\ g_next' = os_schedule(g_priorities')
      /\ state' = [state EXCEPT ![h] = "READY"]
      /\ ReadyQueuesOK(state', prio, g_priorities')
      /\ WaitQueuesOK(state', wait_queue', waiters')
      /\ TimeoutsOK(state', g_timeout_queue')
  BY <1>1, WakeStep
<1> HIDE DEF h
<1>4. SchedTypeOK'
  <2>1. g_next' \in TaskOrNull
    BY <1>3, ScheduleType
  <2> QED
    BY <1>3, <2>1 DEF SchedTypeOK, switchVars
<1>5. QueueDiscipline'
  BY <1>3, QueueDisciplineNext
<1>6. \A t \in Task : state'[t] = IF t = h THEN "READY" ELSE state[t]
  BY <1>3 DEF SchedTypeOK
<1>7. Ready(Idle)'
  BY <1>6, SchedulerAssumption DEF SwitchControl, Ready
<1>8. g_next' \in Task /\ Ready(g_next)'
  BY <1>3, <1>4, <1>7, NextIsReady
<1>9. SwitchControl' /\ ContextIntegrity' /\ OnlyReadyTasksRun'
  BY <1>2, <1>3, <1>6, <1>7, <1>8 DEF SwitchControl, ContextIntegrity,
     OnlyReadyTasksRun, Created, switchVars
<1> QED
  BY <1>4, <1>5, <1>9

(***************************************************************************)
(* os_delay_ticks puts the caller to sleep.                                *)
(***************************************************************************)
LEMMA DelayInv ==
    ASSUME SchedInv, NEW ticks \in Delays, os_kernel_delay_ticks(ticks)
    PROVE  SchedInv'
<1>1. CASE ticks = 0 /\ os_kernel_yield
  BY <1>1, YieldInv
<1>2. CASE ~ (ticks = 0 /\ os_kernel_yield)
  <2>1. /\ InTask
        /\ os_task_block_locked(g_sleep_queue, ticks, FALSE, g_priorities, waiters, priority)
        /\ UNCHANGED <<priority, base_priority, switchVars, g_tick>>
    BY <1>2 DEF os_kernel_delay_ticks
  <2>2. /\ ReadyQueuesOK(state, priority, g_priorities)
        /\ WaitQueuesOK(state, wait_queue, waiters)
        /\ g_priorities \in [Priority -> Seq(Task)] /\ waiters \in [WaitQueue -> Seq(Task)]
        /\ priority \in [Task -> Priority]
    BY QueueDisciplineParts DEF SchedTypeOK, SchedInv
  <2>3. g_sleep_queue \in WaitQueue /\ ticks \in Tick /\ FALSE \in BOOLEAN
    BY SchedulerAssumption DEF Tick, TICKS
  <2> QED
    BY <2>1, <2>2, <2>3, BlockInv
<1> QED
  BY <1>1, <1>2

(***************************************************************************)
(* A tick, wherever it arrives, makes blocked tasks ready and nothing else *)
(* that PendSV or a task relies on.                                        *)
(***************************************************************************)
LEMMA TickInv == SchedInv /\ SysTick_Handler => SchedInv'
<1> SUFFICES ASSUME SchedInv, SysTick_Handler PROVE SchedInv'
  OBVIOUS
<1> USE DEF SchedInv
<1>1. pc # "boot" /\ UNCHANGED <<priority, base_priority, switchVars>>
  BY DEF SysTick_Handler
<1>2. /\ state' \in [Task -> {"none", "READY", "RUNNING", "BLOCKED"}]
      /\ wait_queue' \in [Task -> WaitQueue \cup {NULL}]
      /\ wake_tick' \in [Task -> Tick]
      /\ g_priorities' \in [Priority -> Seq(Task)]
      /\ waiters' \in [WaitQueue -> Seq(Task)]
      /\ g_timeout_queue' \in Seq(Task)
      /\ g_tick' \in Tick
      /\ pendsv' \in BOOLEAN
      /\ g_next' = os_schedule(g_priorities')
      /\ pendsv => pendsv'
      /\ ReadyQueuesOK(state', priority, g_priorities')
      /\ WaitQueuesOK(state', wait_queue', waiters')
      /\ TimeoutsOK(state', g_timeout_queue')
  BY TickStep
<1>3. \A t \in Task :
        \/ state'[t] = state[t]
        \/ state[t] = "BLOCKED" /\ state'[t] = "READY"
  BY TickStep
<1>4. SchedTypeOK'
  <2>1. g_next' \in TaskOrNull
    BY <1>2, ScheduleType
  <2> QED
    BY <1>1, <1>2, <2>1 DEF SchedTypeOK, switchVars
<1>5. QueueDiscipline'
  BY <1>1, <1>2, QueueDisciplineNext
<1>6. Ready(Idle)'
  BY <1>3, SchedulerAssumption DEF SwitchControl, Ready
<1>7. g_next' \in Task /\ Ready(g_next)'
  BY <1>1, <1>2, <1>4, <1>6, NextIsReady
<1>8. SwitchControl'
  BY <1>1, <1>3, <1>6, <1>7 DEF SwitchControl, Created, Ready, switchVars
<1>9. ContextIntegrity' /\ OnlyReadyTasksRun'
  BY <1>1, <1>2, <1>3 DEF ContextIntegrity, OnlyReadyTasksRun, Created, switchVars
<1> QED
  BY <1>4, <1>5, <1>8, <1>9

(***************************************************************************)
(* Each part of the context switch.                                        *)
(***************************************************************************)
LEMMA PendSVInv == SchedInv /\ PendSV_Handler => SchedInv'
<1> SUFFICES ASSUME SchedInv, PendSV_Handler PROVE SchedInv'
  OBVIOUS
<1> USE DEF SchedInv
<1>1. CASE PendSV_Save
  <2>1. /\ pc = "thread" /\ pc' = "commit" /\ pendsv' = FALSE /\ g_first_switch' = FALSE
        /\ sp' = IF g_first_switch THEN sp ELSE [sp EXCEPT ![g_current] = psp]
        /\ UNCHANGED <<tcbVars, queueVars, g_current, g_next, g_tick, psp, r_next>>
    BY <1>1 DEF PendSV_Save
  <2>2. sp' \in [Task -> TaskOrNull] /\ \A t \in Task : Created(t) => sp'[t] = t
    BY <2>1 DEF ContextIntegrity, SchedTypeOK
  <2>3. SchedTypeOK'
    BY <2>1, <2>2 DEF SchedTypeOK, tcbVars, queueVars
  <2>4. QueueDiscipline'
    BY <2>1 DEF QueueDiscipline, Ready, Blocked, tcbVars, queueVars
  <2>5. SwitchControl' /\ ContextIntegrity' /\ OnlyReadyTasksRun'
    BY <2>1, <2>2 DEF SwitchControl, ContextIntegrity, OnlyReadyTasksRun, Ready, Created, tcbVars
  <2> QED
    BY <2>3, <2>4, <2>5
<1>2. CASE os_commit_switch_demote
  <2>1. /\ pc = "commit" /\ pc' = "load"
        /\ state' = IF g_next \notin {NULL, g_current} /\ state[g_current] = "RUNNING"
                      THEN [state EXCEPT ![g_current] = "READY"] ELSE state
        /\ UNCHANGED <<priority, base_priority, wait_queue, wake_tick, queueVars, sp,
                       g_current, g_next, g_tick, g_first_switch, pendsv, psp, r_next>>
    BY <1>2, SchedulerAssumption DEF os_commit_switch_demote, SwitchControl
  <2>2. \A t \in Task : state'[t] = state[t] \/ (state[t] = "RUNNING" /\ state'[t] = "READY")
    BY <2>1 DEF SchedTypeOK
  <2>3. \A t \in Task : /\ IsReady(state', t) <=> IsReady(state, t)
                        /\ state'[t] = "BLOCKED" <=> state[t] = "BLOCKED"
                        /\ state'[t] = "none" <=> state[t] = "none"
    BY <2>2 DEF IsReady
  <2>4. SchedTypeOK'
    BY <2>1 DEF SchedTypeOK, queueVars
  <2>5. QueueDiscipline'
    BY <2>1, <2>3 DEF QueueDiscipline, Ready, Blocked, IsReady, SchedTypeOK, Range, queueVars
  <2>6. SwitchControl' /\ ContextIntegrity' /\ OnlyReadyTasksRun'
    BY <2>1, <2>3, SchedulerAssumption DEF SwitchControl, ContextIntegrity, OnlyReadyTasksRun,
       Ready, IsReady, Created
  <2> QED
    BY <2>4, <2>5, <2>6
<1>3. CASE os_commit_switch_load
  <2>1. /\ pc = "load" /\ pc' = "store" /\ r_next' = g_next
        /\ UNCHANGED <<tcbVars, queueVars, sp, g_current, g_next, g_tick, g_first_switch,
                       pendsv, psp>>
    BY <1>3 DEF os_commit_switch_load
  <2>2. SchedTypeOK'
    BY <2>1 DEF SchedTypeOK, tcbVars, queueVars
  <2>3. QueueDiscipline'
    BY <2>1 DEF QueueDiscipline, Ready, Blocked, tcbVars, queueVars
  <2>4. SwitchControl' /\ ContextIntegrity' /\ OnlyReadyTasksRun'
    BY <2>1 DEF SwitchControl, ContextIntegrity, OnlyReadyTasksRun, Ready, Created, tcbVars
  <2> QED
    BY <2>2, <2>3, <2>4
<1>4. CASE os_commit_switch_store
  <2>1. /\ pc = "store" /\ pc' = "restore" /\ g_current' = r_next /\ r_next' = NULL
        /\ state' = [state EXCEPT ![r_next] = "RUNNING"]
        /\ UNCHANGED <<priority, base_priority, wait_queue, wake_tick, queueVars, sp,
                       g_next, g_tick, g_first_switch, pendsv, psp>>
    BY <1>4 DEF os_commit_switch_store
  <2>2. r_next \in Task /\ IsReady(state, r_next)
    BY <2>1 DEF SwitchControl, Ready, IsReady
  <2>3. \A t \in Task : state'[t] = IF t = r_next THEN "RUNNING" ELSE state[t]
    BY <2>1 DEF SchedTypeOK
  <2>4. \A t \in Task : /\ IsReady(state', t) <=> IsReady(state, t)
                        /\ state'[t] = "BLOCKED" <=> state[t] = "BLOCKED"
                        /\ state'[t] = "none" <=> state[t] = "none"
    BY <2>2, <2>3 DEF IsReady
  <2>5. SchedTypeOK'
    BY <2>1 DEF SchedTypeOK, TaskOrNull, queueVars
  <2>6. QueueDiscipline'
    BY <2>1, <2>4 DEF QueueDiscipline, Ready, Blocked, IsReady, SchedTypeOK, Range, queueVars
  <2>7. SwitchControl' /\ ContextIntegrity' /\ OnlyReadyTasksRun'
    BY <2>1, <2>2, <2>3, <2>4, SchedulerAssumption DEF SwitchControl, ContextIntegrity,
       OnlyReadyTasksRun, Ready, IsReady, Created
  <2> QED
    BY <2>5, <2>6, <2>7
<1>5. CASE PendSV_Restore
  <2>1. /\ pc = "restore" /\ pc' = "thread" /\ psp' = sp[g_current]
        /\ UNCHANGED <<tcbVars, queueVars, sp, g_current, g_next, g_tick, g_first_switch,
                       pendsv, r_next>>
    BY <1>5 DEF PendSV_Restore
  <2>2. g_current \in Task /\ state[g_current] = "RUNNING" /\ psp' = g_current
    BY <2>1 DEF SwitchControl, ContextIntegrity, Created
  <2>3. SchedTypeOK'
    BY <2>1, <2>2 DEF SchedTypeOK, TaskOrNull, tcbVars, queueVars
  <2>4. QueueDiscipline'
    BY <2>1 DEF QueueDiscipline, Ready, Blocked, tcbVars, queueVars
  <2>5. SwitchControl' /\ ContextIntegrity' /\ OnlyReadyTasksRun'
    BY <2>1, <2>2 DEF SwitchControl, ContextIntegrity, OnlyReadyTasksRun, Ready, Created, tcbVars
  <2> QED
    BY <2>3, <2>4, <2>5
<1> QED
  BY <1>1, <1>2, <1>3, <1>4, <1>5 DEF PendSV_Handler

(***************************************************************************)
(* A step that leaves the scheduler alone keeps its invariant.             *)
(***************************************************************************)
LEMMA SchedStutter == SchedInv /\ UNCHANGED schedVars => SchedInv'
  BY DEF SchedInv, SchedTypeOK, QueueDiscipline, ContextIntegrity, OnlyReadyTasksRun,
     SwitchControl, Ready, Blocked, Created, schedVars, tcbVars, queueVars, switchVars

(***************************************************************************)
(* Every step of the scheduling core keeps the invariant.                  *)
(***************************************************************************)
LEMMA SchedStep == SchedInv /\ [SchedNext]_schedVars => SchedInv'
  BY CreateInv, StartInv, YieldInv, DelayInv, TickInv, PendSVInv, SchedStutter DEF SchedNext, RunStep

(***************************************************************************)
(* The inductive invariant holds of scheduler.c, task.c, tick.c and the    *)
(* PendSV handler.                                                         *)
(***************************************************************************)
THEOREM SchedInvariant == SchedSpec => []SchedInv
  BY SchedInitInv, SchedStep, PTL DEF SchedSpec

(***************************************************************************)
(* The TCBs, queues and globals keep their types.                          *)
(***************************************************************************)
THEOREM SchedTypeCorrect == SchedSpec => []SchedTypeOK
<1>1. SchedInv => SchedTypeOK
  BY DEF SchedInv
<1> QED
  BY <1>1, SchedInvariant, PTL

(***************************************************************************)
(* No task is lost or queued twice by scheduler.c, whatever the number of  *)
(* tasks and wherever ticks interrupt the context switch.                  *)
(***************************************************************************)
THEOREM QueueDisciplineHolds == SchedSpec => []QueueDiscipline
<1>1. SchedInv => QueueDiscipline
  BY DEF SchedInv
<1> QED
  BY <1>1, SchedInvariant, PTL

(***************************************************************************)
(* PendSV_Handler saves and restores each task's own context.              *)
(***************************************************************************)
THEOREM ContextIntegrityHolds == SchedSpec => []ContextIntegrity
<1>1. SchedInv => ContextIntegrity
  BY DEF SchedInv
<1> QED
  BY <1>1, SchedInvariant, PTL

(***************************************************************************)
(* After os_task_block_locked the blocked task executes nothing more       *)
(* before it has been woken.                                               *)
(***************************************************************************)
THEOREM OnlyReadyTasksRunHolds == SchedSpec => []OnlyReadyTasksRun
<1>1. SchedInv => OnlyReadyTasksRun
  BY DEF SchedInv
<1> QED
  BY <1>1, SchedInvariant, PTL

(***************************************************************************)
(* os_commit_switch never switches to a blocked task, or to none: g_next   *)
(* and its register copy stay ready while ticks rewrite g_next.            *)
(***************************************************************************)
THEOREM SwitchControlHolds == SchedSpec => []SwitchControl
<1>1. SchedInv => SwitchControl
  BY DEF SchedInv
<1> QED
  BY <1>1, SchedInvariant, PTL

-----------------------------------------------------------------------------
(* Sleeping tasks and the services built on the scheduler *)

(***************************************************************************)
(* Whoever has a timeout sleeps: the other services block with             *)
(* OS_WAIT_FOREVER.                                                        *)
(***************************************************************************)
SleepersWait == \A t \in Range(g_timeout_queue) : wait_queue[t] = g_sleep_queue

Due ==
    {i \in DOMAIN g_timeout_queue :
        \A j \in 1 .. i : os_tick_reached(TickPlus(1), wake_tick[g_timeout_queue[j]])}
Woken == {g_timeout_queue[i] : i \in Due}

(***************************************************************************)
(* What SysTick_Handler does to the wait and timeout queues.               *)
(***************************************************************************)
LEMMA TickEffect ==
    ASSUME SchedInv, SysTick_Handler
    PROVE  /\ g_tick' = TickPlus(1)
           /\ Due \in SUBSET DOMAIN g_timeout_queue
           /\ g_timeout_queue' = Pick(g_timeout_queue, DOMAIN g_timeout_queue \ Due)
           /\ Woken \subseteq Range(g_timeout_queue)
           /\ Range(g_timeout_queue') = Range(g_timeout_queue) \ Woken
           /\ \A t \in Task :
                /\ wait_queue'[t] = IF t \in Woken THEN NULL ELSE wait_queue[t]
                /\ wake_tick'[t] = IF t \in Woken THEN OS_WAIT_FOREVER ELSE wake_tick[t]
           /\ \A q \in WaitQueue : waiters'[q] =
                Pick(waiters[q], {i \in DOMAIN waiters[q] : waiters[q][i] \notin Woken})
<1> DEFINE s == g_timeout_queue
<1>1. /\ g_tick' = TickPlus(1)
      /\ g_timeout_queue' = Pick(s, DOMAIN s \ Due)
      /\ \A t \in Task :
           /\ wait_queue'[t] = IF t \in Woken THEN NULL ELSE wait_queue[t]
           /\ wake_tick'[t] = IF t \in Woken THEN OS_WAIT_FOREVER ELSE wake_tick[t]
      /\ \A q \in WaitQueue : waiters'[q] =
           Pick(waiters[q], {i \in DOMAIN waiters[q] : waiters[q][i] \notin Woken})
  BY DEF SysTick_Handler, TimedOut, Prefix, Due, Woken
<1>2. s \in Seq(Task) /\ IsInjective(s) /\ Due \in SUBSET DOMAIN s
  BY DEF SchedInv, SchedTypeOK, QueueDiscipline, Due
<1>3. Range(Pick(s, DOMAIN s \ Due)) = {s[i] : i \in DOMAIN s \ Due}
  BY <1>2, PickFacts
<1>4. Woken \subseteq Range(s) /\ {s[i] : i \in DOMAIN s \ Due} = Range(s) \ Woken
  BY <1>2 DEF Woken, Range, IsInjective
<1> QED
  BY <1>1, <1>2, <1>3, <1>4

(***************************************************************************)
(* scheduler.c, task.c and tick.c move tasks into and out of the sleep     *)
(* queue only: the wait queues of mutexes and semaphores are left to them. *)
(***************************************************************************)
LEMMA SleepStep ==
    ASSUME SchedInv, SleepersWait, [SchedNext]_schedVars
    PROVE  /\ SleepersWait'
           /\ \A q \in WaitQueue \ {g_sleep_queue} : waiters'[q] = waiters[q]
<1> DEFINE Goal == /\ SleepersWait'
                   /\ \A q \in WaitQueue \ {g_sleep_queue} : waiters'[q] = waiters[q]
<1>1. /\ g_timeout_queue \in Seq(Task) /\ Range(g_timeout_queue) \subseteq Task
      /\ wait_queue \in [Task -> WaitQueue \cup {NULL}]
      /\ waiters \in [WaitQueue -> Seq(Task)]
      /\ \A t \in Range(g_timeout_queue) : state[t] = "BLOCKED"
  BY DEF SchedInv, SchedTypeOK, QueueDiscipline, Blocked, Range
<1>2. CASE UNCHANGED <<g_timeout_queue, wait_queue, waiters>>
  BY <1>2 DEF SleepersWait
<1>3. ASSUME NEW t \in Task, NEW p \in Priority, os_kernel_task_create(t, p)
      PROVE  Goal
  <2>1. /\ UNCHANGED <<g_timeout_queue, waiters>> /\ state[t] = "none"
        /\ wait_queue' = [wait_queue EXCEPT ![t] = NULL]
    BY <1>3 DEF os_kernel_task_create, os_task_create_internal, Created
  <2>2. t \notin Range(g_timeout_queue)
    BY <1>1, <2>1
  <2> QED
    BY <1>1, <2>1, <2>2 DEF SleepersWait
<1>4. CASE os_start \/ os_kernel_yield
  BY <1>2, <1>4 DEF os_start, os_kernel_yield, tcbVars, queueVars
<1>5. ASSUME NEW ticks \in Delays, os_kernel_delay_ticks(ticks), ~ os_kernel_yield
      PROVE  Goal
  <2> DEFINE wake == [wake_tick EXCEPT ![g_current] =
                        IF ticks # OS_WAIT_FOREVER THEN TickPlus(ticks) ELSE OS_WAIT_FOREVER]
             new == os_timeout_queue_insert_sorted(g_timeout_queue, g_current, wake)
  <2>1. /\ InTask
        /\ wait_queue' = [wait_queue EXCEPT ![g_current] = g_sleep_queue]
        /\ waiters' = [waiters EXCEPT ![g_sleep_queue] = os_task_queue_add(@, g_current)]
        /\ g_timeout_queue' = new \/ g_timeout_queue' = g_timeout_queue
    BY <1>5 DEF os_kernel_delay_ticks, os_task_block_locked
  <2>2. g_current \in Task
    BY <2>1 DEF InTask, SchedInv, OnlyReadyTasksRun
  <2>3. Range(new) = Range(g_timeout_queue) \cup {g_current}
    BY <1>1, <2>2, TimeoutInsertFacts
  <2> HIDE DEF new
  <2> QED
    BY <1>1, <2>1, <2>2, <2>3 DEF SleepersWait
<1>6. CASE SysTick_Handler
  <2>1. /\ Range(g_timeout_queue') = Range(g_timeout_queue) \ Woken
        /\ \A t \in Task : wait_queue'[t] = IF t \in Woken THEN NULL ELSE wait_queue[t]
        /\ \A q \in WaitQueue : waiters'[q] =
             Pick(waiters[q], {i \in DOMAIN waiters[q] : waiters[q][i] \notin Woken})
        /\ Woken \subseteq Range(g_timeout_queue)
    BY <1>6, TickEffect
  <2>2. SleepersWait'
    BY <1>1, <2>1 DEF SleepersWait
  <2>3. ASSUME NEW q \in WaitQueue \ {g_sleep_queue}
        PROVE  waiters'[q] = waiters[q]
    <3>1. Range(waiters[q]) = {t \in Task : Blocked(t) /\ wait_queue[t] = q}
      BY DEF SchedInv, QueueDiscipline
    <3>2. \A t \in Range(waiters[q]) : t \notin Woken
      BY <2>1, <3>1 DEF SleepersWait
    <3>3. {i \in DOMAIN waiters[q] : waiters[q][i] \notin Woken} = DOMAIN waiters[q]
      BY <3>2 DEF Range
    <3>4. waiters[q] \in Seq(Task)
      BY <1>1
    <3>5. Pick(waiters[q], DOMAIN waiters[q]) = waiters[q]
      BY <3>4, PickAll
    <3> QED
      BY <2>1, <3>3, <3>5
  <2> QED
    BY <2>2, <2>3
<1>7. CASE PendSV_Handler
  BY <1>2, <1>7 DEF PendSV_Handler, PendSV_Save, os_commit_switch_demote, os_commit_switch_load,
     os_commit_switch_store, PendSV_Restore, tcbVars, queueVars
<1>8. CASE UNCHANGED schedVars
  BY <1>2, <1>8 DEF schedVars, tcbVars, queueVars
<1> QED
  BY <1>3, <1>4, <1>5, <1>6, <1>7, <1>8 DEF SchedNext, RunStep

(***************************************************************************)
(* A service that makes its caller wait without a timeout.                 *)
(***************************************************************************)
LEMMA BlockForever ==
    ASSUME SchedInv, SleepersWait, InTask,
           NEW q \in WaitQueue \ {g_sleep_queue}, NEW ordered \in BOOLEAN,
           NEW rd \in [Priority -> Seq(Task)], NEW wt \in [WaitQueue -> Seq(Task)],
           NEW prio \in [Task -> Priority],
           ReadyQueuesOK(state, prio, rd), WaitQueuesOK(state, wait_queue, wt),
           os_task_block_locked(q, OS_WAIT_FOREVER, ordered, rd, wt, prio),
           priority' = prio, UNCHANGED <<base_priority, switchVars, g_tick>>
    PROVE  /\ SchedInv' /\ SleepersWait'
           /\ g_current \in Task /\ state[g_current] = "RUNNING"
           /\ state' = [state EXCEPT ![g_current] = "BLOCKED"]
           /\ waiters' = [wt EXCEPT ![q] =
                IF ordered THEN os_task_queue_insert_by_priority(@, g_current, prio)
                ELSE os_task_queue_add(@, g_current)]
<1>1. OS_WAIT_FOREVER \in Tick
  BY TickFacts
<1>2. SchedInv'
  BY <1>1, BlockInv
<1>3. /\ g_timeout_queue' = g_timeout_queue
      /\ state' = [state EXCEPT ![g_current] = "BLOCKED"]
      /\ wait_queue' = [wait_queue EXCEPT ![g_current] = q]
      /\ waiters' = [wt EXCEPT ![q] =
           IF ordered THEN os_task_queue_insert_by_priority(@, g_current, prio)
           ELSE os_task_queue_add(@, g_current)]
  BY DEF os_task_block_locked
<1>4. g_current \in Task /\ state[g_current] = "RUNNING"
  BY DEF InTask, SchedInv, OnlyReadyTasksRun
<1>5. \A t \in Range(g_timeout_queue) : t \in Task /\ t # g_current
  <2>1. Range(g_timeout_queue) \subseteq Task
    BY DEF SchedInv, SchedTypeOK, Range
  <2>2. \A t \in Range(g_timeout_queue) : state[t] = "BLOCKED"
    BY DEF SchedInv, QueueDiscipline, Blocked
  <2> QED
    BY <1>4, <2>1, <2>2
<1>6. SleepersWait'
  BY <1>3, <1>5 DEF SleepersWait, SchedInv, SchedTypeOK
<1> QED
  BY <1>2, <1>3, <1>4, <1>6

(***************************************************************************)
(* A service that hands something to the head of a wait queue.             *)
(***************************************************************************)
LEMMA WakeHead ==
    ASSUME SchedInv, SleepersWait, InTask,
           NEW q \in WaitQueue \ {g_sleep_queue}, waiters[q] # << >>,
           NEW rd \in [Priority -> Seq(Task)], NEW prio \in [Task -> Priority],
           ReadyQueuesOK(state, prio, rd),
           os_task_wake_one_locked(q, rd, prio),
           priority' = prio, UNCHANGED <<base_priority, switchVars, g_tick>>
    PROVE  /\ SchedInv' /\ SleepersWait'
           /\ Head(waiters[q]) \in Task /\ state[Head(waiters[q])] = "BLOCKED"
           /\ state' = [state EXCEPT ![Head(waiters[q])] = "READY"]
           /\ waiters' = [waiters EXCEPT ![q] = Tail(@)]
<1> DEFINE h == Head(waiters[q])
<1>1. waiters[q] \in Seq(Task) /\ Range(waiters[q]) = {t \in Task : Blocked(t) /\ wait_queue[t] = q}
      /\ q # g_sleep_queue
  BY DEF SchedInv, SchedTypeOK, QueueDiscipline
<1>2. h \in Task /\ Blocked(h) /\ wait_queue[h] = q
  BY <1>1, PopFacts
<1>3. h \notin Range(g_timeout_queue)
  BY <1>1, <1>2 DEF SleepersWait
<1>4. SchedInv'
  BY <1>3, WakeInv
<1> DEFINE removed == os_timeout_queue_remove(g_timeout_queue, h)
<1>5. /\ g_timeout_queue' = g_timeout_queue \/ g_timeout_queue' = removed
      /\ state' = [state EXCEPT ![h] = "READY"]
      /\ wait_queue' = [wait_queue EXCEPT ![h] = NULL]
      /\ waiters' = [waiters EXCEPT ![q] = Tail(@)]
  BY DEF os_task_wake_one_locked
<1>6. Range(removed) \subseteq Range(g_timeout_queue)
  <2>1. g_timeout_queue \in Seq(Task)
    BY DEF SchedInv, SchedTypeOK
  <2> QED
    BY <2>1, TimeoutRemoveFacts
<1> HIDE DEF h, removed
<1>7. \A t \in Range(g_timeout_queue) : t \in Task /\ t # h
  BY <1>3 DEF SchedInv, SchedTypeOK, Range
<1>8. SleepersWait'
  BY <1>5, <1>6, <1>7 DEF SleepersWait, SchedInv, SchedTypeOK
<1> QED
  BY <1>2, <1>4, <1>5, <1>8 DEF h, Blocked

(***************************************************************************)
(* Nobody sleeps at first.                                                 *)
(***************************************************************************)
LEMMA SleepInit == SchedInit => SleepersWait
  BY DEF SchedInit, SleepersWait, Range

-----------------------------------------------------------------------------
(* The timeout queue across the wrap of the tick counter *)

(***************************************************************************)
(* Tasks sleep for at most half the range of the counter, or for ever:     *)
(* what the signed comparison of os_tick_reached can tell apart.           *)
(***************************************************************************)
DelaysInRange == Delays \subseteq (0 .. HALF) \cup {OS_WAIT_FOREVER}

\* The ticks from now to the tick w.
Left(w, now) == (w - now) % TICKS

(***************************************************************************)
(* A task whose wake tick is at most half the range ahead is due at the    *)
(* next tick exactly if that is its wake tick; otherwise it has one tick   *)
(* less to sleep.                                                          *)
(***************************************************************************)
LEMMA NextTick ==
    ASSUME NEW now \in Tick, NEW w \in Tick, Left(w, now) \in 1 .. HALF
    PROVE  LET next == (now + 1) % TICKS
           IN  /\ next # now
               /\ os_tick_reached(next, w) <=> Left(w, now) = 1
               /\ next = w <=> Left(w, now) = 1
               /\ Left(w, now) # 1 => Left(w, next) = Left(w, now) - 1
  BY SchedulerAssumption DEF Tick, TICKS, Left, os_tick_reached

(***************************************************************************)
(* Of two such wake ticks, os_tick_reached finds the later one.            *)
(***************************************************************************)
LEMMA LaterTick ==
    ASSUME NEW now \in Tick, NEW v \in Tick, NEW w \in Tick,
           Left(v, now) \in 1 .. HALF, Left(w, now) \in 1 .. HALF
    PROVE  os_tick_reached(v, w) <=> Left(w, now) <= Left(v, now)
  BY SchedulerAssumption DEF Tick, TICKS, Left, os_tick_reached

(***************************************************************************)
(* A task that asks for n ticks has n ticks left.                          *)
(***************************************************************************)
LEMMA AskedTicks ==
    ASSUME NEW now \in Tick, NEW n \in 1 .. HALF
    PROVE  (now + n) % TICKS \in Tick /\ Left((now + n) % TICKS, now) = n
  BY SchedulerAssumption DEF Tick, TICKS, Left

(***************************************************************************)
(* TimeoutQueueSorted of queues and wake ticks still being computed.       *)
(***************************************************************************)
LeftOf(wake, now) == [t \in Task |-> Left(wake[t], now)]

TimeoutsInOrder(s, key) ==
    /\ \A t \in Range(s) : key[t] \in 1 .. HALF
    /\ Sorted(s, key)

(***************************************************************************)
(* TimeoutQueueSorted is TimeoutsInOrder of the ticks left.                *)
(***************************************************************************)
LEMMA TimeoutParts ==
    ASSUME NEW s \in Seq(Task), NEW wake \in [Task -> Tick], NEW now \in Tick
    PROVE  TimeoutsInOrder(s, LeftOf(wake, now))
             <=> \A i, j \in DOMAIN s :
                    /\ (wake[s[i]] - now) % TICKS \in 1 .. HALF
                    /\ i < j => (wake[s[i]] - now) % TICKS <= (wake[s[j]] - now) % TICKS
<1> DEFINE key == LeftOf(wake, now)
<1>1. \A i \in DOMAIN s : s[i] \in Task /\ key[s[i]] = (wake[s[i]] - now) % TICKS
  BY DEF LeftOf, Left
<1>2. (\A t \in Range(s) : key[t] \in 1 .. HALF) <=> \A i \in DOMAIN s : key[s[i]] \in 1 .. HALF
  BY DEF Range
<1> HIDE DEF key
<1> QED
  BY <1>1, <1>2 DEF TimeoutsInOrder, Sorted, key

(***************************************************************************)
(* Nothing else than the wake ticks of the queued tasks matters.           *)
(***************************************************************************)
LEMMA SameTimeouts ==
    ASSUME NEW s \in Seq(Task), NEW k1, NEW k2, \A t \in Range(s) : k1[t] = k2[t],
           TimeoutsInOrder(s, k1)
    PROVE  TimeoutsInOrder(s, k2)
  BY DEF TimeoutsInOrder, Sorted, Range

(***************************************************************************)
(* os_process_timeouts wakes the tasks whose wake tick has come, all of    *)
(* them and no other, and leaves the queue in order.                       *)
(***************************************************************************)
LEMMA TickInOrder ==
    ASSUME SchedInv, TimeoutsInOrder(g_timeout_queue, LeftOf(wake_tick, g_tick)), SysTick_Handler
    PROVE  /\ TimeoutsInOrder(g_timeout_queue', LeftOf(wake_tick', g_tick'))
           /\ g_tick' # g_tick \/ g_timeout_queue = << >>
           /\ \A t \in Range(g_timeout_queue) :
                (t \notin Range(g_timeout_queue')) <=> g_tick' = wake_tick[t]
<1> DEFINE s == g_timeout_queue
           key == LeftOf(wake_tick, g_tick)
           new == LeftOf(wake_tick', g_tick')
<1>1. /\ s \in Seq(Task) /\ wake_tick \in [Task -> Tick] /\ g_tick \in Tick /\ HALF \in Nat
      /\ Range(s) \subseteq Task /\ Len(s) \in Nat /\ DOMAIN s = 1 .. Len(s)
  BY SchedulerAssumption DEF SchedInv, SchedTypeOK, Range
<1>2. /\ g_tick' = (g_tick + 1) % TICKS
      /\ Due \in SUBSET DOMAIN s
      /\ s' = Pick(s, DOMAIN s \ Due)
      /\ Range(s') = Range(s) \ Woken
      /\ \A t \in Task : wake_tick'[t] = IF t \in Woken THEN OS_WAIT_FOREVER ELSE wake_tick[t]
  BY TickEffect DEF TickPlus
<1>3. ASSUME NEW t \in Range(s)
      PROVE  /\ t \in Task /\ wake_tick[t] \in Tick
             /\ key[t] = Left(wake_tick[t], g_tick) /\ key[t] \in 1 .. HALF
             /\ g_tick' # g_tick
             /\ os_tick_reached(g_tick', wake_tick[t]) <=> key[t] = 1
             /\ g_tick' = wake_tick[t] <=> key[t] = 1
             /\ key[t] # 1 => Left(wake_tick[t], g_tick') = key[t] - 1
  <2>1. /\ t \in Task /\ wake_tick[t] \in Tick
        /\ key[t] = Left(wake_tick[t], g_tick) /\ key[t] \in 1 .. HALF
    BY <1>1 DEF TimeoutsInOrder, LeftOf
  <2> QED
    BY <1>1, <1>2, <2>1, NextTick
<1>4. \A i, j \in DOMAIN s : i < j => key[s[i]] <= key[s[j]]
  BY DEF TimeoutsInOrder, Sorted
<1>5. \A i \in DOMAIN s : s[i] \in Range(s)
  BY DEF Range
<1> HIDE DEF key
<1>6. \A i \in DOMAIN s : i \in Due <=> key[s[i]] = 1
  <2>1. ASSUME NEW i \in Due
        PROVE  key[s[i]] = 1
    <3>1. i \in DOMAIN s /\ i \in 1 .. i
      BY <1>1, <1>2
    <3>2. os_tick_reached(g_tick', wake_tick[s[i]])
      BY <1>2, <3>1 DEF Due, TickPlus
    <3> QED
      BY <1>3, <1>5, <3>1, <3>2
  <2>2. ASSUME NEW i \in DOMAIN s, key[s[i]] = 1
        PROVE  i \in Due
    <3>1. ASSUME NEW j \in 1 .. i
          PROVE  os_tick_reached(g_tick', wake_tick[s[j]])
      <4>1. j \in DOMAIN s /\ (j < i \/ j = i)
        BY <1>1
      <4>2. key[s[j]] <= key[s[i]] /\ key[s[j]] \in 1 .. HALF
        BY <1>1, <1>3, <1>4, <1>5, <2>2, <4>1
      <4>3. key[s[j]] = 1
        BY <1>1, <2>2, <4>2
      <4> QED
        BY <1>3, <1>5, <4>1, <4>3
    <3> QED
      BY <1>2, <3>1 DEF Due, TickPlus
  <2> QED
    BY <2>1, <2>2
<1>7. \A t \in Range(s) : t \in Woken <=> key[t] = 1
  BY <1>2, <1>6 DEF Woken, Range
<1>8. \A t \in Range(s') : t \in Range(s) /\ new[t] = key[t] - 1 /\ key[t] \in 2 .. HALF
  <2> SUFFICES ASSUME NEW t \in Range(s')
               PROVE  t \in Range(s) /\ new[t] = key[t] - 1 /\ key[t] \in 2 .. HALF
    OBVIOUS
  <2>1. t \in Range(s) /\ t \notin Woken
    BY <1>2
  <2>2. t \in Task /\ key[t] \in 1 .. HALF /\ key[t] # 1 /\ wake_tick'[t] = wake_tick[t]
    BY <1>2, <1>3, <1>7, <2>1
  <2>3. new[t] = Left(wake_tick[t], g_tick')
    BY <2>2 DEF LeftOf
  <2> QED
    BY <1>1, <1>3, <2>1, <2>2, <2>3
<1>9. Sorted(s', key)
  <2>1. Sorted(s, key) /\ DOMAIN s \ Due \in SUBSET DOMAIN s
    BY DEF TimeoutsInOrder, key
  <2> QED
    BY <1>1, <1>2, <2>1, PickSorted
<1> HIDE DEF new
<1>10. TimeoutsInOrder(s', new)
  <2>1. \A t \in Range(s') : new[t] \in 1 .. HALF
    BY <1>1, <1>8
  <2>2. ASSUME NEW a \in DOMAIN s', NEW b \in DOMAIN s', a < b
        PROVE  new[s'[a]] <= new[s'[b]]
    <3>1. s'[a] \in Range(s') /\ s'[b] \in Range(s')
      BY DEF Range
    <3>2. key[s'[a]] <= key[s'[b]]
      BY <1>9, <2>2 DEF Sorted
    <3> QED
      BY <1>1, <1>8, <3>1, <3>2
  <2> QED
    BY <2>1, <2>2 DEF TimeoutsInOrder, Sorted
<1>11. s = << >> \/ g_tick' # g_tick
  <2>1. CASE s # << >>
    <3>1. s[1] \in Range(s)
      BY <1>1, <1>5, <2>1
    <3> QED
      BY <1>3, <3>1
  <2> QED
    BY <2>1
<1> QED
  BY <1>2, <1>3, <1>7, <1>10, <1>11 DEF new

(***************************************************************************)
(* os_timeout_queue_insert_sorted keeps the order.                         *)
(***************************************************************************)
LEMMA InsertInOrder ==
    ASSUME NEW s \in Seq(Task), NEW wake \in [Task -> Tick], NEW now \in Tick, NEW t \in Task,
           TimeoutsInOrder(s, LeftOf(wake, now)), Left(wake[t], now) \in 1 .. HALF
    PROVE  TimeoutsInOrder(os_timeout_queue_insert_sorted(s, t, wake), LeftOf(wake, now))
<1> DEFINE key == LeftOf(wake, now)
           I == {i \in DOMAIN s : \A j \in 1 .. i : ~ os_tick_reached(wake[s[j]], wake[t])}
<1>1. os_timeout_queue_insert_sorted(s, t, wake) = InsertAfter(s, I, t)
  BY DEF os_timeout_queue_insert_sorted, Prefix
<1>2. /\ I \in SUBSET DOMAIN s /\ Len(s) \in Nat /\ DOMAIN s = 1 .. Len(s) /\ HALF \in Nat
      /\ \A i \in DOMAIN s : s[i] \in Range(s) /\ s[i] \in Task
  BY SchedulerAssumption DEF Range
<1>3. /\ key \in [Task -> Int] /\ Sorted(s, key)
      /\ \A u \in Range(s) : key[u] \in 1 .. HALF
      /\ \A u \in Task : key[u] = Left(wake[u], now)
      /\ key[t] \in 1 .. HALF
  <2>1. \A u \in Task : Left(wake[u], now) \in Int
    BY TickFacts DEF Left, Tick
  <2> QED
    BY <2>1 DEF LeftOf, TimeoutsInOrder
<1> HIDE DEF key
<1>4. \A i \in DOMAIN s : key[s[i]] \in 1 .. HALF
  BY <1>2, <1>3
<1>5. \A i \in DOMAIN s : os_tick_reached(wake[s[i]], wake[t]) <=> key[t] <= key[s[i]]
  <2> SUFFICES ASSUME NEW i \in DOMAIN s
               PROVE  os_tick_reached(wake[s[i]], wake[t]) <=> key[t] <= key[s[i]]
    OBVIOUS
  <2>1. s[i] \in Task /\ Left(wake[s[i]], now) \in 1 .. HALF
    BY <1>2, <1>3, <1>4
  <2> QED
    BY <1>3, <2>1, LaterTick
<1>6. \A i \in I : key[s[i]] <= key[t]
  <2> SUFFICES ASSUME NEW i \in I
               PROVE  key[s[i]] <= key[t]
    OBVIOUS
  <2>1. i \in DOMAIN s /\ i \in 1 .. i
    BY <1>2
  <2>2. ~ (key[t] <= key[s[i]])
    BY <1>5, <2>1
  <2> QED
    BY <1>2, <1>3, <1>4, <2>1, <2>2
<1>7. \A i \in DOMAIN s \ I : key[t] <= key[s[i]]
  <2> SUFFICES ASSUME NEW i \in DOMAIN s \ I
               PROVE  key[t] <= key[s[i]]
    OBVIOUS
  <2>1. PICK j \in 1 .. i : os_tick_reached(wake[s[j]], wake[t])
    OBVIOUS
  <2>2. j \in DOMAIN s /\ (j < i \/ j = i)
    BY <1>2
  <2>3. key[t] <= key[s[j]]
    BY <1>5, <2>1, <2>2
  <2>4. key[s[j]] \in 1 .. HALF /\ key[s[i]] \in 1 .. HALF
    BY <1>4, <2>2
  <2>5. CASE j = i
    BY <2>3, <2>5
  <2>6. CASE j < i
    <3>1. key[s[j]] <= key[s[i]]
      BY <1>3, <2>2, <2>6 DEF Sorted
    <3> QED
      BY <1>2, <1>3, <2>3, <2>4, <3>1
  <2> QED
    BY <2>2, <2>5, <2>6
<1> HIDE DEF I
<1>8. Sorted(InsertAfter(s, I, t), key)
  BY <1>2, <1>3, <1>6, <1>7, InsertSorted
<1>9. Range(InsertAfter(s, I, t)) = Range(s) \cup {t}
  BY <1>2, InsertFacts
<1> QED
  BY <1>1, <1>3, <1>8, <1>9 DEF TimeoutsInOrder, key

(***************************************************************************)
(* What a step does to the timeout queue, when nobody sleeps for longer    *)
(* than os_tick_reached can tell: the order is kept, and exactly those     *)
(* leave whose tick has come.                                              *)
(***************************************************************************)
LEMMA TimeoutStep ==
    ASSUME DelaysInRange, SchedInv,
           TimeoutsInOrder(g_timeout_queue, LeftOf(wake_tick, g_tick)), [SchedNext]_schedVars
    PROVE  /\ TimeoutsInOrder(g_timeout_queue', LeftOf(wake_tick', g_tick'))
           /\ \A t \in Range(g_timeout_queue) :
                (t \notin Range(g_timeout_queue')) <=> (g_tick' # g_tick /\ g_tick' = wake_tick[t])
<1> DEFINE Goal == /\ TimeoutsInOrder(g_timeout_queue', LeftOf(wake_tick', g_tick'))
                   /\ \A t \in Range(g_timeout_queue) : (t \notin Range(g_timeout_queue'))
                        <=> (g_tick' # g_tick /\ g_tick' = wake_tick[t])
<1>1. /\ g_timeout_queue \in Seq(Task) /\ Range(g_timeout_queue) \subseteq Task
      /\ wake_tick \in [Task -> Tick] /\ g_tick \in Tick
  BY DEF SchedInv, SchedTypeOK, Range
<1>2. \A t \in Range(g_timeout_queue) : state[t] = "BLOCKED"
  BY DEF SchedInv, QueueDiscipline, Blocked
<1>3. ASSUME UNCHANGED <<g_timeout_queue, g_tick>>,
             \A t \in Range(g_timeout_queue) : wake_tick'[t] = wake_tick[t]
      PROVE  Goal
  <2>1. \A t \in Range(g_timeout_queue) :
           LeftOf(wake_tick, g_tick)[t] = LeftOf(wake_tick', g_tick)[t]
    BY <1>1, <1>3 DEF LeftOf
  <2>2. TimeoutsInOrder(g_timeout_queue, LeftOf(wake_tick', g_tick))
    BY <1>1, <2>1, SameTimeouts
  <2> QED
    BY <1>3, <2>2
<1>4. ASSUME NEW t \in Task, NEW p \in Priority, os_kernel_task_create(t, p)
      PROVE  Goal
  <2>1. /\ UNCHANGED <<g_timeout_queue, g_tick>> /\ state[t] = "none"
        /\ wake_tick' = [wake_tick EXCEPT ![t] = 0]
    BY <1>4 DEF os_kernel_task_create, os_task_create_internal, Created
  <2>2. t \notin Range(g_timeout_queue)
    BY <1>2, <2>1
  <2> QED
    BY <1>1, <1>3, <2>1, <2>2
<1>5. CASE os_start \/ os_kernel_yield
  BY <1>3, <1>5 DEF os_start, os_kernel_yield, tcbVars, queueVars
<1>6. ASSUME NEW ticks \in Delays, os_kernel_delay_ticks(ticks), ~ os_kernel_yield
      PROVE  Goal
  <2> DEFINE wake == [wake_tick EXCEPT ![g_current] =
                        IF ticks # OS_WAIT_FOREVER THEN TickPlus(ticks) ELSE OS_WAIT_FOREVER]
             new == os_timeout_queue_insert_sorted(g_timeout_queue, g_current, wake)
  <2>1. /\ InTask /\ ticks # 0 /\ g_tick' = g_tick
        /\ wake_tick' = wake
        /\ g_timeout_queue' = IF ticks # OS_WAIT_FOREVER THEN new ELSE g_timeout_queue
    BY <1>6 DEF os_kernel_delay_ticks, os_task_block_locked
  <2>2. g_current \in Task /\ state[g_current] = "RUNNING"
    BY <2>1 DEF InTask, SchedInv, OnlyReadyTasksRun
  <2>3. g_current \notin Range(g_timeout_queue)
    BY <1>2, <2>2
  <2>4. \A t \in Range(g_timeout_queue) : wake_tick'[t] = wake_tick[t]
    BY <1>1, <2>1, <2>3
  <2>5. CASE ticks = OS_WAIT_FOREVER
    BY <1>3, <2>1, <2>4, <2>5
  <2>6. CASE ticks # OS_WAIT_FOREVER
    <3>1. ticks \in 1 .. HALF
      BY <2>1, <2>6, SchedulerAssumption DEF DelaysInRange
    <3>2. wake[g_current] = (g_tick + ticks) % TICKS
      BY <1>1, <2>2, <2>6 DEF TickPlus
    <3>3. wake[g_current] \in Tick /\ Left(wake[g_current], g_tick) = ticks
      BY <1>1, <3>1, <3>2, AskedTicks
    <3>4. wake \in [Task -> Tick]
      BY <1>1, <2>2, <3>2, <3>3
    <3> HIDE DEF wake
    <3>5. \A t \in Range(g_timeout_queue) :
             LeftOf(wake_tick, g_tick)[t] = LeftOf(wake, g_tick)[t]
      BY <1>1, <2>1, <2>4 DEF LeftOf
    <3>6. TimeoutsInOrder(g_timeout_queue, LeftOf(wake, g_tick))
      BY <1>1, <3>5, SameTimeouts
    <3>7. Left(wake[g_current], g_tick) \in 1 .. HALF
      BY <3>1, <3>3
    <3>8. TimeoutsInOrder(new, LeftOf(wake, g_tick))
      BY <1>1, <2>2, <3>4, <3>6, <3>7, InsertInOrder
    <3>9. Range(new) = Range(g_timeout_queue) \cup {g_current}
      BY <1>1, <2>2, TimeoutInsertFacts
    <3> QED
      BY <2>1, <2>6, <3>8, <3>9
  <2> QED
    BY <2>5, <2>6
<1>7. CASE SysTick_Handler
  <2>1. Range(<< >>) = {}
    BY DEF Range
  <2> QED
    BY <1>7, <2>1, TickInOrder
<1>8. CASE PendSV_Handler
  BY <1>3, <1>8 DEF PendSV_Handler, PendSV_Save, os_commit_switch_demote, os_commit_switch_load,
     os_commit_switch_store, PendSV_Restore, tcbVars, queueVars
<1>9. CASE UNCHANGED schedVars
  BY <1>3, <1>9 DEF schedVars, tcbVars, queueVars
<1> QED
  BY <1>4, <1>5, <1>6, <1>7, <1>8, <1>9 DEF SchedNext, RunStep

(***************************************************************************)
(* TimeoutQueueSorted, before and after a step.                            *)
(***************************************************************************)
LEMMA TimeoutPartsNow ==
    ASSUME SchedInv
    PROVE  TimeoutQueueSorted <=> TimeoutsInOrder(g_timeout_queue, LeftOf(wake_tick, g_tick))
<1>1. g_timeout_queue \in Seq(Task) /\ wake_tick \in [Task -> Tick] /\ g_tick \in Tick
  BY DEF SchedInv, SchedTypeOK
<1> QED
  BY <1>1, TimeoutParts DEF TimeoutQueueSorted, TicksLeft

(***************************************************************************)
(* The same of the next state.                                             *)
(***************************************************************************)
LEMMA TimeoutPartsNext ==
    ASSUME SchedInv'
    PROVE  TimeoutQueueSorted' <=> TimeoutsInOrder(g_timeout_queue', LeftOf(wake_tick', g_tick'))
<1>1. g_timeout_queue' \in Seq(Task) /\ wake_tick' \in [Task -> Tick] /\ g_tick' \in Tick
  BY DEF SchedInv, SchedTypeOK
<1> QED
  BY <1>1, TimeoutParts DEF TimeoutQueueSorted, TicksLeft

(***************************************************************************)
(* Sleeping times that os_tick_reached can compare keep the timeout queue  *)
(* in order, at every width of the tick counter and across its wrap.       *)
(***************************************************************************)
THEOREM TimeoutQueueSortedHolds ==
    ASSUME DelaysInRange
    PROVE  SchedSpec => []TimeoutQueueSorted
<1>1. SchedInit => TimeoutQueueSorted
  BY DEF SchedInit, TimeoutQueueSorted
<1>2. SchedInv /\ TimeoutQueueSorted /\ [SchedNext]_schedVars => (SchedInv /\ TimeoutQueueSorted)'
  BY SchedStep, TimeoutStep, TimeoutPartsNow, TimeoutPartsNext
<1> QED
  BY <1>1, <1>2, SchedInitInv, PTL DEF SchedSpec

(***************************************************************************)
(* A sleeping task is woken by the tick it asked for: os_process_timeouts  *)
(* wakes nobody early and passes over nobody, although it stops at the     *)
(* first task of the queue that is not due.                                *)
(***************************************************************************)
THEOREM WakeOnTimeHolds ==
    ASSUME DelaysInRange
    PROVE  SchedSpec => WakeOnTime
<1>1. SchedInv /\ TimeoutQueueSorted /\ [SchedNext]_schedVars =>
        [\A t \in Range(g_timeout_queue) : (t \notin Range(g_timeout_queue'))
            <=> (g_tick' # g_tick /\ g_tick' = wake_tick[t])]_schedVars
  BY TimeoutStep, TimeoutPartsNow
<1> QED
  BY <1>1, SchedInvariant, TimeoutQueueSortedHolds, PTL DEF SchedSpec, WakeOnTime

-----------------------------------------------------------------------------
(* Priorities *)

(***************************************************************************)
(* No ready task is more urgent than g_next.  (It may be so than           *)
(* g_current: see HighestPriorityRuns.)                                    *)
(***************************************************************************)
NextMostUrgent == \A t \in Task : Ready(t) => priority[g_next] <= priority[t]

(***************************************************************************)
(* It is so whenever os_schedule has been called last.                     *)
(***************************************************************************)
LEMMA ScheduledMostUrgent ==
    ASSUME SchedInv', g_next' = os_schedule(g_priorities')
    PROVE  NextMostUrgent'
<1>1. /\ g_priorities' \in [Priority -> Seq(Task)] /\ priority' \in [Task -> Priority]
      /\ ReadyQueuesOK(state', priority', g_priorities')
  BY DEF SchedInv, SchedTypeOK, QueueDiscipline, ReadyQueuesOK, IsReady, Ready
<1>2. Idle \in Task /\ IsReady(state', Idle) /\ priority'[Idle] \in Priority
  BY <1>1, SchedulerAssumption DEF SchedInv, SwitchControl, Ready, IsReady
<1>3. \A t \in Task : IsReady(state', t) /\ priority'[t] \in Priority
                        => priority'[os_schedule(g_priorities')] <= priority'[t]
  BY <1>1, <1>2, SchedulePicksReady
<1>4. \A t \in Task : priority'[t] \in Priority
  BY <1>1
<1> QED
  BY <1>3, <1>4 DEF NextMostUrgent, Ready, IsReady

(***************************************************************************)
(* Ticks and context switches do not change it, and no step but its        *)
(* creation changes a task's priority.                                     *)
(***************************************************************************)
LEMMA PriorityStep ==
    ASSUME SchedInv, NextMostUrgent, [SchedNext]_schedVars
    PROVE  /\ NextMostUrgent'
           /\ \A t \in Task : Created(t) =>
                /\ Created(t)' /\ priority'[t] = priority[t]
                /\ base_priority'[t] = base_priority[t]
           /\ \A t \in Task : ~ Created(t) /\ Created(t)' => priority'[t] = base_priority'[t]
<1> DEFINE Kept == /\ \A t \in Task : Created(t) =>
                        /\ Created(t)' /\ priority'[t] = priority[t]
                        /\ base_priority'[t] = base_priority[t]
                   /\ \A t \in Task : ~ Created(t) /\ Created(t)' => priority'[t] = base_priority'[t]
<1>1. SchedInv'
  BY SchedStep
<1>2. /\ state \in [Task -> {"none", "READY", "RUNNING", "BLOCKED"}]
      /\ priority \in [Task -> Priority] /\ base_priority \in [Task -> Priority]
  BY DEF SchedInv, SchedTypeOK
<1>3. ASSUME UNCHANGED <<state, priority, base_priority>>
      PROVE  Kept
  BY <1>3 DEF Created
<1>4. ASSUME NEW t \in Task, NEW p \in Priority, os_kernel_task_create(t, p)
      PROVE  NextMostUrgent' /\ Kept
  <2>1. /\ g_next' = os_schedule(g_priorities') /\ state[t] = "none"
        /\ state' = [state EXCEPT ![t] = "READY"]
        /\ priority' = [priority EXCEPT ![t] = p]
        /\ base_priority' = [base_priority EXCEPT ![t] = p]
    BY <1>4 DEF os_kernel_task_create, os_task_create_internal, Created
  <2>2. NextMostUrgent'
    BY <1>1, <2>1, ScheduledMostUrgent
  <2>3. Kept
    BY <1>2, <2>1 DEF Created
  <2> QED
    BY <2>2, <2>3
<1>5. CASE os_start
  <2>1. g_next' = os_schedule(g_priorities') /\ UNCHANGED <<state, priority, base_priority>>
    BY <1>5 DEF os_start, tcbVars, queueVars
  <2> QED
    BY <1>1, <1>3, <2>1, ScheduledMostUrgent
<1>6. CASE os_kernel_yield
  <2>1. g_next' = os_schedule(g_priorities') /\ UNCHANGED <<state, priority, base_priority>>
    BY <1>6 DEF os_kernel_yield, tcbVars
  <2> QED
    BY <1>1, <1>3, <2>1, ScheduledMostUrgent
<1>7. ASSUME NEW ticks \in Delays, os_kernel_delay_ticks(ticks), ~ os_kernel_yield
      PROVE  NextMostUrgent' /\ Kept
  <2>1. /\ InTask /\ g_next' = os_schedule(g_priorities')
        /\ state' = [state EXCEPT ![g_current] = "BLOCKED"]
        /\ UNCHANGED <<priority, base_priority>>
    BY <1>7 DEF os_kernel_delay_ticks, os_task_block_locked, ScheduleAndPend
  <2>2. g_current \in Task /\ state[g_current] = "RUNNING"
    BY <2>1 DEF InTask, SchedInv, OnlyReadyTasksRun
  <2>3. Kept
    BY <1>2, <2>1, <2>2 DEF Created
  <2> QED
    BY <1>1, <2>1, <2>3, ScheduledMostUrgent
<1>8. CASE SysTick_Handler
  <2>1. /\ g_next' = os_schedule(g_priorities') /\ UNCHANGED <<priority, base_priority>>
        /\ \A t \in Task : state'[t] \in {"READY", state[t]}
        /\ \A t \in Task : state'[t] # state[t] => t \in Woken
    BY <1>8 DEF SysTick_Handler, TimedOut, Prefix, Woken, Due
  <2>2. \A t \in Woken : state[t] = "BLOCKED"
    <3>1. Woken \subseteq Range(g_timeout_queue)
      BY <1>8, TickEffect
    <3> QED
      BY <3>1 DEF SchedInv, QueueDiscipline, Blocked
  <2>3. Kept
    BY <2>1, <2>2 DEF Created
  <2> QED
    BY <1>1, <2>1, <2>3, ScheduledMostUrgent
<1>9. CASE PendSV_Handler
  <2>1. UNCHANGED <<priority, base_priority, g_next>>
    BY <1>9 DEF PendSV_Handler, PendSV_Save, os_commit_switch_demote, os_commit_switch_load,
       os_commit_switch_store, PendSV_Restore, tcbVars
  <2>2. \A t \in Task : (Ready(t)' <=> Ready(t)) /\ (Created(t)' <=> Created(t))
    <3>1. CASE os_commit_switch_demote
      BY <1>2, <3>1 DEF os_commit_switch_demote, Ready, Created
    <3>2. CASE os_commit_switch_store
      <4>1. r_next \in Task /\ Ready(r_next) /\ state' = [state EXCEPT ![r_next] = "RUNNING"]
        BY <3>2 DEF os_commit_switch_store, SchedInv, SwitchControl
      <4> QED
        BY <1>2, <4>1 DEF Ready, Created
    <3>3. CASE PendSV_Save \/ os_commit_switch_load \/ PendSV_Restore
      <4>1. state' = state
        BY <3>3 DEF PendSV_Save, os_commit_switch_load, PendSV_Restore, tcbVars
      <4> QED
        BY <4>1 DEF Ready, Created
    <3> QED
      BY <1>9, <3>1, <3>2, <3>3 DEF PendSV_Handler
  <2> QED
    BY <2>1, <2>2 DEF NextMostUrgent
<1>10. CASE UNCHANGED schedVars
  <2>1. UNCHANGED <<state, priority, base_priority, g_next>>
    BY <1>10 DEF schedVars, tcbVars
  <2> QED
    BY <1>3, <2>1 DEF NextMostUrgent, Ready
<1> QED
  BY <1>4, <1>5, <1>6, <1>7, <1>8, <1>9, <1>10 DEF SchedNext, RunStep

(***************************************************************************)
(* The idle task, alone in its queue, is the first choice.                 *)
(***************************************************************************)
LEMMA FirstMostUrgent == SchedInit => NextMostUrgent
  BY SchedulerAssumption DEF SchedInit, NextMostUrgent, Ready, OS_TASK_IDLE
==============================================================================
