---------------------------- MODULE OSKernelProofs ----------------------------
(***************************************************************************)
(* What the routines that link and unlink threads do to a list, and what   *)
(* they do to a consistent scheduler state: which threads are linked, in   *)
(* which order, and which one runs.  Then, that OSKernel is well typed for *)
(* any number of threads, queues of any capacity, any priorities and       *)
(* events.                                                                 *)
(***************************************************************************)
EXTENDS OSKernel, SequenceTheorems, WellFoundedInduction, TLAPS

------------------------------------------------------------------------------
(* Lists *)

(* A nonempty set of naturals has a least member. *)
LEMMA LeastNat ==
  ASSUME NEW T \in SUBSET Nat, T # {}
  PROVE  \E x \in T : \A y \in T : x <= y
<1>1. PICK x \in T : \A y \in T : ~ (<<y, x>> \in OpToRel(<, Nat))
  BY NatLessThanWellFounded, WFMin
<1>2. \A y \in T : ~ (y < x)
  BY <1>1 DEF OpToRel
<1> QED BY <1>2

(* A sequence with one element put in at position i. *)
LEMMA InsertAtProperties ==
  ASSUME NEW l \in Seq(Threads), NEW i \in 1..(Len(l) + 1), NEW e \in Threads
  PROVE  /\ InsertAt(l, i, e) \in Seq(Threads)
         /\ Len(InsertAt(l, i, e)) = Len(l) + 1
         /\ \A j \in 1..(Len(l) + 1) :
              InsertAt(l, i, e)[j] = IF j < i THEN l[j]
                                     ELSE IF j = i THEN e ELSE l[j - 1]
<1> DEFINE u == SubSeq(l, 1, i - 1)
           v == SubSeq(l, i, Len(l))
<1>0. Len(l) \in Nat /\ i \in Nat
  BY LenProperties
<1>1. /\ u \in Seq(Threads) /\ Len(u) = i - 1
      /\ \A j \in 1..(i - 1) : u[j] = l[j]
  <2>1. \A j \in 1..(i - 1) : l[j] \in Threads
    BY <1>0, ElementOfSeq
  <2> QED BY <1>0, <2>1, SubSeqProperties
<1>2. /\ v \in Seq(Threads) /\ Len(v) = Len(l) - i + 1
      /\ \A j \in 1..(Len(l) - i + 1) : v[j] = l[i + j - 1]
  <2>1. \A j \in i..Len(l) : l[j] \in Threads
    BY <1>0, ElementOfSeq
  <2>2. /\ v \in Seq(Threads)
        /\ Len(v) = IF i <= Len(l) THEN Len(l) - i + 1 ELSE 0
        /\ \A j \in 1..(Len(l) - i + 1) : v[j] = l[i + j - 1]
    BY <1>0, <2>1, SubSeqProperties
  <2> QED BY <1>0, <2>2
<1>3. <<e>> \in Seq(Threads) /\ Len(<<e>>) = 1 /\ <<e>>[1] = e
  OBVIOUS
<1> HIDE DEF u, v
<1>4. /\ u \o <<e>> \in Seq(Threads) /\ Len(u \o <<e>>) = i
      /\ \A j \in 1..i : (u \o <<e>>)[j] = IF j < i THEN l[j] ELSE e
  <2>1. /\ u \o <<e>> \in Seq(Threads) /\ Len(u \o <<e>>) = Len(u) + 1
        /\ \A j \in 1..(Len(u) + 1) :
             (u \o <<e>>)[j] = IF j <= Len(u) THEN u[j] ELSE <<e>>[j - Len(u)]
    BY <1>1, <1>3, ConcatProperties
  <2> QED BY <1>0, <1>1, <1>3, <2>1
<1>5. /\ (u \o <<e>>) \o v \in Seq(Threads)
      /\ Len((u \o <<e>>) \o v) = i + Len(v)
      /\ \A j \in 1..(i + Len(v)) :
           ((u \o <<e>>) \o v)[j] = IF j <= i THEN (u \o <<e>>)[j] ELSE v[j - i]
  BY <1>2, <1>4, ConcatProperties
<1>6. InsertAt(l, i, e) = (u \o <<e>>) \o v
  BY DEF InsertAt, u, v
<1> QED BY <1>0, <1>2, <1>4, <1>5, <1>6

(* A sequence without its element at position i. *)
LEMMA RemoveAtProperties ==
  ASSUME NEW S, NEW l \in Seq(S), NEW i \in 1..Len(l)
  PROVE  /\ RemoveAt(l, i) \in Seq(S)
         /\ Len(RemoveAt(l, i)) = Len(l) - 1
         /\ \A j \in 1..(Len(l) - 1) :
              RemoveAt(l, i)[j] = IF j < i THEN l[j] ELSE l[j + 1]
<1> DEFINE u == SubSeq(l, 1, i - 1)
           v == SubSeq(l, i + 1, Len(l))
<1>0. Len(l) \in Nat /\ i \in Nat
  BY LenProperties
<1>1. /\ u \in Seq(S) /\ Len(u) = i - 1
      /\ \A j \in 1..(i - 1) : u[j] = l[j]
  <2>1. \A j \in 1..(i - 1) : l[j] \in S
    BY <1>0, ElementOfSeq
  <2> QED BY <1>0, <2>1, SubSeqProperties
<1>2. /\ v \in Seq(S) /\ Len(v) = Len(l) - i
      /\ \A j \in 1..(Len(l) - i) : v[j] = l[i + j]
  <2>1. \A j \in (i + 1)..Len(l) : l[j] \in S
    BY <1>0, ElementOfSeq
  <2>2. /\ v \in Seq(S)
        /\ Len(v) = IF i + 1 <= Len(l) THEN Len(l) - (i + 1) + 1 ELSE 0
        /\ \A j \in 1..(Len(l) - (i + 1) + 1) : v[j] = l[(i + 1) + j - 1]
    BY <1>0, <2>1, SubSeqProperties
  <2> QED BY <1>0, <2>2
<1> HIDE DEF u, v
<1>3. /\ u \o v \in Seq(S)
      /\ Len(u \o v) = Len(u) + Len(v)
      /\ \A j \in 1..(Len(u) + Len(v)) :
           (u \o v)[j] = IF j <= Len(u) THEN u[j] ELSE v[j - Len(u)]
  BY <1>1, <1>2, ConcatProperties
<1>4. RemoveAt(l, i) = u \o v
  BY DEF RemoveAt, u, v
<1>5. Len(u) + Len(v) = Len(l) - 1
  BY <1>0, <1>1, <1>2
<1>6. ASSUME NEW j \in 1..(Len(l) - 1)
      PROVE  (u \o v)[j] = IF j < i THEN l[j] ELSE l[j + 1]
  <2>1. (u \o v)[j] = IF j <= Len(u) THEN u[j] ELSE v[j - Len(u)]
    BY <1>3, <1>5
  <2>2. CASE j < i
    BY <1>0, <1>1, <2>1, <2>2
  <2>3. CASE ~ (j < i)
    <3>1. j - Len(u) \in 1..(Len(l) - i) /\ i + (j - Len(u)) = j + 1
      BY <1>0, <1>1, <2>3
    <3>2. v[j - Len(u)] = l[i + (j - Len(u))]
      BY <1>2, <3>1
    <3>3. ~ (j <= Len(u))
      BY <1>0, <1>1, <2>3
    <3> QED BY <2>1, <2>3, <3>1, <3>2, <3>3
  <2> QED BY <2>2, <2>3
<1> QED BY <1>3, <1>4, <1>5, <1>6

(* The position __osEnqueueThread looks for exists in every list, sorted or
   not: it stops at the first thread of lower priority or at the sentinel. *)
LEMMA InsertIndexExists ==
  ASSUME NEW l \in Seq(Threads), NEW pri \in [Threads -> Priorities],
         NEW t \in Threads
  PROVE  /\ InsertIndex(l, pri, t) \in 1..(Len(l) + 1)
         /\ \A j \in 1..(InsertIndex(l, pri, t) - 1) : pri[l[j]] >= pri[t]
         /\ InsertIndex(l, pri, t) <= Len(l)
              => pri[l[InsertIndex(l, pri, t)]] < pri[t]
<1> DEFINE Stop == {i \in 1..(Len(l) + 1) : i <= Len(l) => pri[l[i]] < pri[t]}
<1>1. Len(l) \in Nat
  BY LenProperties
<1>2. Stop \in SUBSET Nat /\ Len(l) + 1 \in Stop
  BY <1>1
<1>3. PICK i \in Stop : \A k \in Stop : i <= k
  BY <1>2, LeastNat
<1>4. \A j \in 1..(i - 1) : pri[l[j]] >= pri[t]
  <2> SUFFICES ASSUME NEW j \in 1..(i - 1) PROVE pri[l[j]] >= pri[t]
    OBVIOUS
  <2>1. j \in 1..(Len(l) + 1) /\ j \in 1..Len(l) /\ j \notin Stop
    BY <1>1, <1>3
  <2>2. ~ (pri[l[j]] < pri[t])
    BY <2>1
  <2>3. l[j] \in Threads
    BY <2>1, ElementOfSeq
  <2>4. pri[l[j]] \in 0..255 /\ pri[t] \in 0..255
    BY <2>3 DEF Priorities
  <2>5. \A x, y \in 0..255 : ~ (x < y) => x >= y
    OBVIOUS
  <2> HIDE DEF Stop
  <2> QED BY <2>2, <2>4, <2>5
<1>5. i \in 1..(Len(l) + 1) /\ (i <= Len(l) => pri[l[i]] < pri[t])
  OBVIOUS
<1> HIDE DEF Stop
<1> QED BY <1>4, <1>5 DEF InsertIndex

------------------------------------------------------------------------------
(* Types of the list routines. *)
LEMMA EnqueueListType ==
  ASSUME NEW l \in Seq(Threads), NEW pri \in [Threads -> Priorities],
         NEW t \in Threads
  PROVE  InsertAt(l, InsertIndex(l, pri, t), t) \in Seq(Threads)
BY InsertIndexExists, InsertAtProperties

LEMMA UnlinkIndex ==
  ASSUME NEW l \in Seq(Threads), NEW t \in Threads, IsIn(t, l)
  PROVE  \E i \in 1..Len(l) :
           /\ Unlink(l, t) = RemoveAt(l, i)
           /\ l[i] = t /\ \A j \in 1..(i - 1) : l[j] # t
<1> DEFINE At == {i \in 1..Len(l) : l[i] = t}
<1>1. Len(l) \in Nat
  BY LenProperties
<1>2. At \in SUBSET Nat /\ At # {}
  BY <1>1 DEF IsIn
<1>3. PICK i \in At : \A k \in At : i <= k
  BY <1>2, LeastNat
<1>4. \A j \in 1..(i - 1) : l[j] # t
  BY <1>1, <1>3
<1>5. i \in 1..Len(l) /\ l[i] = t
  OBVIOUS
<1> HIDE DEF At
<1> DEFINE Spot(k) == l[k] = t /\ \A j \in 1..(k - 1) : l[j] # t
           c == CHOOSE k \in 1..Len(l) : Spot(k)
<1>6. \E k \in 1..Len(l) : Spot(k)
  BY <1>4, <1>5
<1>7. c \in 1..Len(l) /\ Spot(c)
  <2> HIDE DEF Spot
  <2> QED BY <1>6
<1>8. Unlink(l, t) = RemoveAt(l, c)
  BY DEF Unlink
<1> QED BY <1>7, <1>8

LEMMA UnlinkType ==
  ASSUME NEW l \in Seq(Threads), NEW t \in Threads
  PROVE  Unlink(l, t) \in Seq(Threads)
<1>1. CASE IsIn(t, l)
  BY <1>1, UnlinkIndex, RemoveAtProperties
<1>2. CASE ~ IsIn(t, l)
  BY <1>2 DEF Unlink
<1> QED BY <1>1, <1>2

(* No wait queue is the run queue, and no list is NoList. *)
LEMMA ListsDistinct ==
  /\ NoList \notin Lists /\ RunQ \in Lists
  /\ \A q \in Queues : /\ MtQ(q) \in Lists /\ FullQ(q) \in Lists
                       /\ MtQ(q) # RunQ /\ FullQ(q) # RunQ
                       /\ \A p \in Queues : MtQ(q) # FullQ(p)
BY DEF Lists, RunQ, MtQ, FullQ, NoList

------------------------------------------------------------------------------
(* Types of the scheduler routines, and what they leave alone. *)
LEMMA EnqueueThreadType ==
  ASSUME NEW s \in SchedType, NEW lst \in Lists \cup {NoList}, NEW t \in Threads
  PROVE  /\ EnqueueThread(s, lst, t) \in SchedType
         /\ EnqueueThread(s, lst, t).running = s.running
         /\ lst \in Lists => EnqueueThread(s, lst, t).list[lst] # <<>>
<1>1. s.list \in [Lists -> Seq(Threads)] /\ s.priority \in [Threads -> Priorities]
  BY DEF SchedType
<1>2. \A l \in Lists :
        InsertAt(s.list[l], InsertIndex(s.list[l], s.priority, t), t) \in Seq(Threads)
  BY <1>1, EnqueueListType
<1>3. EnqueueThread(s, lst, t) \in SchedType
  BY <1>1, <1>2 DEF EnqueueThread, SchedType
<1>4. EnqueueThread(s, lst, t).running = s.running
  BY DEF EnqueueThread, SchedType
<1>5. ASSUME lst \in Lists PROVE EnqueueThread(s, lst, t).list[lst] # <<>>
  <2> DEFINE l == s.list[lst]
             i == InsertIndex(l, s.priority, t)
  <2>1. l \in Seq(Threads)
    BY <1>1, <1>5
  <2>2. i \in 1..(Len(l) + 1)
    BY <1>1, <2>1, InsertIndexExists
  <2>3. Len(InsertAt(l, i, t)) = Len(l) + 1 /\ Len(l) \in Nat
    <3> HIDE DEF i, l
    <3> QED BY <2>1, <2>2, InsertAtProperties, LenProperties
  <2>4. EnqueueThread(s, lst, t).list[lst] = InsertAt(l, i, t)
    BY <1>1, <1>5 DEF EnqueueThread, SchedType
  <2> HIDE DEF i, l
  <2> QED BY <2>3, <2>4, EmptySeq
<1> QED BY <1>3, <1>4, <1>5

LEMMA PopThreadType ==
  ASSUME NEW s \in SchedType, NEW lst \in Lists, s.list[lst] # <<>>
  PROVE  /\ PopThread(s, lst) \in SchedType
         /\ PopThread(s, lst).running = s.running
         /\ Head(s.list[lst]) \in Threads
<1>1. s.list[lst] \in Seq(Threads)
  BY DEF SchedType
<1>2. Tail(s.list[lst]) \in Seq(Threads) /\ Head(s.list[lst]) \in Threads
  BY <1>1, HeadTailProperties
<1> QED BY <1>2 DEF PopThread, SchedType

LEMMA DequeueThreadType ==
  ASSUME NEW s \in SchedType, NEW lst \in Lists \cup {NoList}, NEW t \in Threads
  PROVE  /\ DequeueThread(s, lst, t) \in SchedType
         /\ DequeueThread(s, lst, t).running = s.running
         /\ DequeueThread(s, lst, t).queue = s.queue
<1>1. \A l \in Lists : Unlink(s.list[l], t) \in Seq(Threads)
  BY UnlinkType DEF SchedType
<1> QED BY <1>1 DEF DequeueThread, SchedType

LEMMA StateType ==
  ASSUME NEW s \in SchedType, NEW t \in Threads, NEW st \in States
  PROVE  /\ [s EXCEPT !.state[t] = st] \in SchedType
         /\ [s EXCEPT !.state[t] = st].running = s.running
BY DEF SchedType

LEMMA DispatchThreadType ==
  ASSUME NEW s \in SchedType
  PROVE  DispatchThread(s) \in SchedType
<1>1. CASE s.list[RunQ] = <<>>
  BY <1>1 DEF DispatchThread, SchedType
<1>2. CASE s.list[RunQ] # <<>>
  <2>1. PopThread(s, RunQ) \in SchedType /\ Head(s.list[RunQ]) \in Threads
    BY <1>2, ListsDistinct, PopThreadType
  <2>2. "RUNNING" \in States
    BY DEF States
  <2> HIDE DEF PopThread
  <2> QED BY <1>2, <2>1, <2>2 DEF DispatchThread, SchedType
<1> QED BY <1>1, <1>2

LEMMA EnqueueAndYieldType ==
  ASSUME NEW s \in SchedType, NEW lst \in Lists, s.running \in Threads
  PROVE  EnqueueAndYield(s, lst) \in SchedType
BY EnqueueThreadType, DispatchThreadType DEF EnqueueAndYield

LEMMA YieldIfLowerType ==
  ASSUME NEW s \in SchedType, s.running \in Threads
  PROVE  YieldIfLower(s) \in SchedType
<1>1. "RUNNABLE" \in States
  BY DEF States
<1>2. /\ [s EXCEPT !.state[s.running] = "RUNNABLE"] \in SchedType
      /\ [s EXCEPT !.state[s.running] = "RUNNABLE"].running = s.running
  BY <1>1, StateType
<1>3. EnqueueAndYield([s EXCEPT !.state[s.running] = "RUNNABLE"], RunQ) \in SchedType
  BY <1>2, ListsDistinct, EnqueueAndYieldType
<1> QED BY <1>3 DEF YieldIfLower

LEMMA MakeReadyType ==
  ASSUME NEW s \in SchedType, NEW t \in Threads
  PROVE  MakeReady(s, t) \in SchedType /\ MakeReady(s, t).running = s.running
<1> DEFINE r == [s EXCEPT !.state[t] = "RUNNABLE"]
           w == [s EXCEPT !.state[t] = "WAITING"]
           back == EnqueueThread(w, s.queue[t], t)
           next == Head(back.list[s.queue[t]])
<1>1. /\ r \in SchedType /\ r.running = s.running
      /\ w \in SchedType /\ w.running = s.running
  BY StateType DEF States
<1> HIDE DEF r, w
<1>2. /\ EnqueueThread(r, RunQ, t) \in SchedType
      /\ EnqueueThread(r, RunQ, t).running = s.running
  BY <1>1, ListsDistinct, EnqueueThreadType
<1>3. ASSUME s.queue[t] \notin {NoList, RunQ}
      PROVE  /\ EnqueueThread(PopThread(back, s.queue[t]), RunQ, next) \in SchedType
             /\ EnqueueThread(PopThread(back, s.queue[t]), RunQ, next).running
                  = s.running
  <2>1. s.queue[t] \in Lists
    BY <1>3 DEF SchedType
  <2>2. back \in SchedType /\ back.running = s.running /\ back.list[s.queue[t]] # <<>>
    BY <1>1, <2>1, EnqueueThreadType
  <2> HIDE DEF back
  <2>3. /\ PopThread(back, s.queue[t]) \in SchedType /\ next \in Threads
        /\ PopThread(back, s.queue[t]).running = s.running
    BY <2>1, <2>2, PopThreadType
  <2> QED BY <2>3, ListsDistinct, EnqueueThreadType
<1> HIDE DEF back, next
<1>4. CASE s.state[t] = "WAITING"
  BY <1>2, <1>4 DEF MakeReady, r
<1>5. CASE s.state[t] = "STOPPED" /\ s.queue[t] \in {NoList, RunQ}
  BY <1>2, <1>5 DEF MakeReady, r
<1>6. CASE s.state[t] = "STOPPED" /\ s.queue[t] \notin {NoList, RunQ}
  BY <1>3, <1>6 DEF MakeReady, w, back, next
<1>7. CASE s.state[t] \notin {"WAITING", "STOPPED"}
  BY <1>7 DEF MakeReady
<1> QED BY <1>4, <1>5, <1>6, <1>7

LEMMA StartThreadType ==
  ASSUME NEW s \in SchedType, NEW t \in Threads,
         s.running \in Threads \cup {NoThread}
  PROVE  StartThread(s, t) \in SchedType
BY MakeReadyType, DispatchThreadType, YieldIfLowerType DEF StartThread

LEMMA WakeFirstType ==
  ASSUME NEW s \in SchedType, NEW lst \in Lists, s.running \in Threads
  PROVE  WakeFirst(s, lst) \in SchedType
BY PopThreadType, StartThreadType DEF WakeFirst

LEMMA WakeFromInterruptType ==
  ASSUME NEW s \in SchedType, NEW lst \in Lists
  PROVE  /\ WakeFromInterrupt(s, lst) \in SchedType
         /\ WakeFromInterrupt(s, lst).running = s.running
BY PopThreadType, EnqueueThreadType, ListsDistinct DEF WakeFromInterrupt

LEMMA RedispatchType ==
  ASSUME NEW s \in SchedType, s.running \in Threads
  PROVE  Redispatch(s) \in SchedType
<1> DEFINE f == [s EXCEPT !.list[RunQ] = <<s.running>> \o @]
<1>1. <<s.running>> \o s.list[RunQ] \in Seq(Threads)
  <2>1. <<s.running>> \in Seq(Threads) /\ s.list[RunQ] \in Seq(Threads)
    BY ListsDistinct DEF SchedType
  <2> QED BY <2>1, ConcatProperties
<1>2. f \in SchedType
  BY <1>1 DEF SchedType
<1>3. EnqueueThread(s, RunQ, s.running) \in SchedType
  BY ListsDistinct, EnqueueThreadType
<1> QED BY <1>2, <1>3, DispatchThreadType DEF Redispatch

------------------------------------------------------------------------------
(* The state of the scheduler *)

(* A list holds a thread once, and the more urgent threads first. *)
Ordered(l, pri) ==
  /\ \A i, j \in 1..Len(l) : l[i] = l[j] => i = j
  /\ \A i, j \in 1..Len(l) : i < j => pri[l[i]] >= pri[l[j]]

(* The threads linked in some list. *)
On(s) == {t \in Threads : \E l \in Lists : IsIn(t, s.list[l])}

(* OSThread.queue names the list a linked thread is in, and its state fits. *)
Fits(s, t, l) ==
  /\ s.queue[t] = l
  /\ s.state[t] \in {"RUNNABLE", "WAITING"}
  /\ l # RunQ => s.state[t] = "WAITING"

Consistent(s) ==
  /\ s \in SchedType
  /\ \A l \in Lists : Ordered(s.list[l], s.priority)
  /\ \A l \in Lists, t \in Threads : IsIn(t, s.list[l]) => Fits(s, t, l)

(* Linked in the run queue: by Consistent, OSThread.queue tells. *)
Ready(s, t) == t \in On(s) /\ s.queue[t] = RunQ

(* No ready thread is more urgent than t. *)
MostUrgentIs(s, t) == \A u \in Threads : Ready(s, u) => s.priority[u] <= s.priority[t]

(* Whatever a routine does to the queue fields, it moves threads to the run queue
   only. *)
OnlyToRunQ(s, r) == \A t \in Threads : r.queue[t] \in {s.queue[t], RunQ}

------------------------------------------------------------------------------
LEMMA PriorityInt == \A p \in Priorities : p \in Int
BY DEF Priorities

LEMMA OrderedInsert ==
  ASSUME NEW l \in Seq(Threads), NEW pri \in [Threads -> Priorities],
         NEW t \in Threads, ~ IsIn(t, l), Ordered(l, pri)
  PROVE  LET m == InsertAt(l, InsertIndex(l, pri, t), t)
         IN Ordered(m, pri) /\ \A u : IsIn(u, m) <=> IsIn(u, l) \/ u = t
<1> DEFINE k == InsertIndex(l, pri, t)
           m == InsertAt(l, k, t)
           n == Len(l)
<1>0. n \in Nat
  BY LenProperties
<1>1. /\ k \in 1..(n + 1)
      /\ \A j \in 1..(k - 1) : pri[l[j]] >= pri[t]
      /\ k <= n => pri[l[k]] < pri[t]
  BY InsertIndexExists
<1> HIDE DEF k
<1>2. /\ Len(m) = n + 1
      /\ \A j \in 1..(n + 1) : m[j] = IF j < k THEN l[j]
                                       ELSE IF j = k THEN t ELSE l[j - 1]
  <2>1. k \in 1..(Len(l) + 1)
    BY <1>1
  <2>2. Len(m) = n + 1
    BY <2>1, InsertAtProperties
  <2>3. ASSUME NEW j \in 1..(n + 1), j < k PROVE m[j] = l[j]
    BY <1>0, <2>1, <2>3, InsertAtProperties
  <2>4. ASSUME NEW j \in 1..(n + 1), j = k PROVE m[j] = t
    BY <1>0, <2>1, <2>4, InsertAtProperties
  <2>5. ASSUME NEW j \in 1..(n + 1), j > k PROVE m[j] = l[j - 1]
    BY <1>0, <2>1, <2>5, InsertAtProperties
  <2> HIDE DEF m
  <2> QED BY <1>0, <2>1, <2>2, <2>3, <2>4, <2>5
<1>3. \A j \in 1..n : l[j] \in Threads /\ pri[l[j]] \in Int /\ l[j] # t
  <2> SUFFICES ASSUME NEW j \in 1..n
               PROVE  l[j] \in Threads /\ pri[l[j]] \in Int /\ l[j] # t
    OBVIOUS
  <2>1. l[j] \in Threads
    BY ElementOfSeq
  <2>2. pri[l[j]] \in Priorities
    BY <2>1
  <2>3. l[j] # t
    BY DEF IsIn
  <2>4. pri[l[j]] \in Int
    BY <2>2, PriorityInt
  <2> QED BY <2>1, <2>3, <2>4
<1>4. pri[t] \in Int
  BY PriorityInt
<1> HIDE DEF m, n
<1>5. /\ \A i, j \in 1..n : l[i] = l[j] => i = j
      /\ \A i, j \in 1..n : i < j => pri[l[i]] >= pri[l[j]]
  BY DEF Ordered, n
<1>6. ASSUME NEW i \in 1..(n + 1), NEW j \in 1..(n + 1), m[i] = m[j]
      PROVE  i = j
  <2>1. \A x \in 1..(n + 1) : x < k => x \in 1..n /\ m[x] = l[x]
    BY <1>0, <1>1, <1>2
  <2>2. \A x \in 1..(n + 1) : x > k => x - 1 \in 1..n /\ m[x] = l[x - 1]
    BY <1>0, <1>1, <1>2
  <2>3. m[k] = t
    BY <1>0, <1>1, <1>2
  <2>4. i \in Int /\ j \in Int /\ k \in Int
    BY <1>0, <1>1
  <2>5. CASE i < k /\ j < k
    BY <2>1, <2>5, <1>5, <1>6
  <2>6. CASE i > k /\ j > k
    <3>1. i - 1 = j - 1
      BY <2>2, <2>6, <1>5, <1>6
    <3> QED BY <3>1, <2>4
  <2>7. CASE i < k /\ j > k
    <3>1. i = j - 1
      BY <2>1, <2>2, <2>7, <1>5, <1>6
    <3> QED BY <3>1, <2>4, <2>7
  <2>8. CASE i > k /\ j < k
    <3>1. i - 1 = j
      BY <2>1, <2>2, <2>8, <1>5, <1>6
    <3> QED BY <3>1, <2>4, <2>8
  <2>9. CASE i = k /\ j # k
    BY <2>1, <2>2, <2>3, <2>4, <2>9, <1>3, <1>6
  <2>10. CASE i # k /\ j = k
    BY <2>1, <2>2, <2>3, <2>4, <2>10, <1>3, <1>6
  <2> QED BY <2>4, <2>5, <2>6, <2>7, <2>8, <2>9, <2>10
<1>7. ASSUME NEW i \in 1..(n + 1), NEW j \in 1..(n + 1), i < j
      PROVE  pri[m[i]] >= pri[m[j]]
  <2>1. \A x \in 1..(n + 1) : x < k => x \in 1..n /\ m[x] = l[x]
    BY <1>0, <1>1, <1>2
  <2>2. \A x \in 1..(n + 1) : x > k => x - 1 \in 1..n /\ m[x] = l[x - 1]
    BY <1>0, <1>1, <1>2
  <2>3. m[k] = t
    BY <1>0, <1>1, <1>2
  <2>4. i \in Int /\ j \in Int /\ k \in Int /\ n \in Int
    BY <1>0, <1>1
  <2>5. CASE j < k
    <3>1. i < k
      BY <2>4, <2>5, <1>7
    <3> QED BY <2>1, <2>5, <3>1, <1>5, <1>7
  <2>6. CASE i > k
    <3>1. j > k /\ i - 1 < j - 1
      BY <2>4, <2>6, <1>7
    <3> QED BY <2>2, <2>6, <3>1, <1>5
  <2>7. CASE i < k /\ j > k
    <3>1. i \in 1..n /\ j - 1 \in 1..n /\ m[i] = l[i] /\ m[j] = l[j - 1]
      BY <2>1, <2>2, <2>7
    <3>2. i < j - 1 \/ i = j - 1
      BY <2>4, <2>7
    <3> QED BY <3>1, <3>2, <1>3, <1>5
  <2>8. CASE j = k
    <3>1. i \in 1..(k - 1) /\ m[i] = l[i]
      BY <2>1, <2>4, <2>8, <1>7
    <3> QED BY <2>3, <2>8, <3>1, <1>1
  <2>9. CASE i = k
    <3>1. j - 1 \in 1..n /\ m[j] = l[j - 1] /\ k <= n /\ k \in 1..n
      BY <2>2, <2>4, <2>9, <1>1, <1>7
    <3>2. pri[l[k]] >= pri[l[j - 1]]
      <4>1. k < j - 1 \/ k = j - 1
        BY <2>4, <2>9, <1>7
      <4> QED BY <3>1, <4>1, <1>3, <1>5
    <3>3. pri[l[k]] < pri[t]
      BY <3>1, <1>1
    <3>4. pri[l[k]] \in Int /\ pri[l[j - 1]] \in Int
      BY <3>1, <1>3
    <3> QED BY <2>3, <2>9, <3>1, <3>2, <3>3, <3>4, <1>4
  <2> QED BY <2>4, <2>5, <2>6, <2>7, <2>8, <2>9
<1>8. Ordered(m, pri)
  BY <1>2, <1>6, <1>7 DEF Ordered
<1>9. ASSUME NEW u
      PROVE  IsIn(u, m) <=> IsIn(u, l) \/ u = t
  <2>1. ASSUME NEW j \in 1..n, l[j] = u PROVE IsIn(u, m)
    <3>1. CASE j < k
      <4>1. j \in 1..(n + 1) /\ m[j] = l[j]
        BY <3>1, <1>0, <1>2
      <4> QED BY <4>1, <2>1, <1>2 DEF IsIn
    <3>2. CASE ~ (j < k)
      <4>1. j + 1 \in 1..(n + 1) /\ ~ (j + 1 < k) /\ j + 1 # k /\ (j + 1) - 1 = j
        BY <3>2, <1>0, <1>1
      <4>2. m[j + 1] = l[j]
        BY <4>1, <1>2
      <4> QED BY <4>1, <4>2, <2>1, <1>2 DEF IsIn
    <3> QED BY <3>1, <3>2
  <2>2. IsIn(t, m)
    BY <1>0, <1>1, <1>2 DEF IsIn
  <2>3. ASSUME NEW j \in 1..(n + 1), m[j] = u, u # t PROVE IsIn(u, l)
    <3>1. CASE j < k
      <4>1. j \in 1..n /\ m[j] = l[j]
        BY <3>1, <1>0, <1>1, <1>2
      <4> QED BY <4>1, <2>3 DEF IsIn, n
    <3>2. CASE ~ (j < k)
      <4>1. j - 1 \in 1..n /\ m[j] = l[j - 1]
        BY <3>2, <2>3, <1>0, <1>1, <1>2
      <4> QED BY <4>1, <2>3 DEF IsIn, n
    <3> QED BY <3>1, <3>2
  <2> QED BY <2>1, <2>2, <2>3, <1>2 DEF IsIn, n
<1> QED BY <1>8, <1>9 DEF m, k

LEMMA OrderedRemove ==
  ASSUME NEW l \in Seq(Threads), NEW pri \in [Threads -> Priorities],
         Ordered(l, pri), NEW k \in 1..Len(l)
  PROVE  LET m == RemoveAt(l, k)
         IN Ordered(m, pri) /\ \A u : IsIn(u, m) <=> IsIn(u, l) /\ u # l[k]
<1> DEFINE m == RemoveAt(l, k)
           n == Len(l)
<1>0. n \in Nat /\ n # 0
  BY LenProperties
<1>1. /\ Len(m) = n - 1
      /\ \A j \in 1..(n - 1) : m[j] = IF j < k THEN l[j] ELSE l[j + 1]
  BY RemoveAtProperties
<1>2. /\ \A i, j \in 1..n : l[i] = l[j] => i = j
      /\ \A i, j \in 1..n : i < j => pri[l[i]] >= pri[l[j]]
  BY DEF Ordered
<1> HIDE DEF m
<1>3. \A j \in 1..(n - 1) :
        \/ j < k /\ j \in 1..n /\ m[j] = l[j]
        \/ ~ (j < k) /\ j + 1 \in 1..n /\ m[j] = l[j + 1]
  BY <1>0, <1>1
<1>4. k \in 1..n
  OBVIOUS
<1> HIDE DEF n
<1>5. ASSUME NEW i \in 1..(n - 1), NEW j \in 1..(n - 1), m[i] = m[j]
      PROVE  i = j
  BY <1>0, <1>2, <1>3, <1>4, <1>5
<1>6. ASSUME NEW i \in 1..(n - 1), NEW j \in 1..(n - 1), i < j
      PROVE  pri[m[i]] >= pri[m[j]]
  <2>1. PICK x \in 1..n : m[i] = l[x] /\ x = IF i < k THEN i ELSE i + 1
    BY <1>0, <1>3
  <2>2. PICK y \in 1..n : m[j] = l[y] /\ y = IF j < k THEN j ELSE j + 1
    BY <1>0, <1>3
  <2>3. x < y
    BY <2>1, <2>2, <1>0, <1>4, <1>6
  <2> QED BY <2>1, <2>2, <2>3, <1>2
<1>7. Ordered(m, pri)
  BY <1>1, <1>5, <1>6 DEF Ordered
<1>8. ASSUME NEW u
      PROVE  IsIn(u, m) <=> IsIn(u, l) /\ u # l[k]
  <2>1. ASSUME NEW j \in 1..(n - 1), m[j] = u PROVE IsIn(u, l) /\ u # l[k]
    <3>1. PICK x \in 1..n : x # k /\ m[j] = l[x]
      <4>1. CASE j < k
        <5>1. j \in 1..n /\ m[j] = l[j] /\ j # k
          BY <4>1, <1>0, <1>3, <1>4
        <5> QED BY <5>1
      <4>2. CASE ~ (j < k)
        <5>1. j + 1 \in 1..n /\ m[j] = l[j + 1] /\ j + 1 # k
          BY <4>2, <1>0, <1>3, <1>4
        <5> QED BY <5>1
      <4> QED BY <4>1, <4>2
    <3> QED BY <3>1, <2>1, <1>2, <1>4 DEF IsIn, n
  <2>2. ASSUME NEW j \in 1..n, l[j] = u, u # l[k] PROVE IsIn(u, m)
    <3>1. CASE j < k
      <4>1. j \in 1..(n - 1) /\ m[j] = l[j]
        BY <3>1, <1>0, <1>1, <1>4
      <4> QED BY <4>1, <2>2, <1>1 DEF IsIn
    <3>2. CASE ~ (j < k)
      <4>1. j - 1 \in 1..(n - 1) /\ ~ (j - 1 < k) /\ (j - 1) + 1 = j
        BY <3>2, <2>2, <1>0, <1>4
      <4>2. m[j - 1] = l[j]
        BY <4>1, <1>1
      <4> QED BY <4>1, <4>2, <2>2, <1>1 DEF IsIn
    <3> QED BY <3>1, <3>2
  <2> QED BY <2>1, <2>2, <1>1 DEF IsIn, n
<1> QED BY <1>7, <1>8 DEF m

LEMMA OrderedUnlink ==
  ASSUME NEW l \in Seq(Threads), NEW pri \in [Threads -> Priorities],
         Ordered(l, pri), NEW t \in Threads
  PROVE  Ordered(Unlink(l, t), pri) /\ \A u : IsIn(u, Unlink(l, t)) <=> IsIn(u, l) /\ u # t
<1>1. CASE IsIn(t, l)
  BY <1>1, UnlinkIndex, OrderedRemove
<1>2. CASE ~ IsIn(t, l)
  BY <1>2 DEF Unlink
<1> QED BY <1>1, <1>2

LEMMA OrderedTail ==
  ASSUME NEW l \in Seq(Threads), NEW pri \in [Threads -> Priorities],
         Ordered(l, pri), l # <<>>
  PROVE  /\ Ordered(Tail(l), pri)
         /\ \A u : IsIn(u, Tail(l)) <=> IsIn(u, l) /\ u # Head(l)
         /\ Head(l) \in Threads /\ IsIn(Head(l), l)
         /\ \A u \in Threads : IsIn(u, l) => pri[u] <= pri[Head(l)]
<1> DEFINE m == Tail(l)
           n == Len(l)
<1>1. n \in Nat /\ n # 0
  BY LenProperties, EmptySeq
<1>2. Len(m) = n - 1 /\ \A j \in 1..(n - 1) : m[j] = l[j + 1]
  BY <1>1, HeadTailProperties
<1>3. Head(l) = l[1] /\ Head(l) \in Threads
  BY HeadTailProperties
<1>4. /\ \A i, j \in 1..n : l[i] = l[j] => i = j
      /\ \A i, j \in 1..n : i < j => pri[l[i]] >= pri[l[j]]
  BY DEF Ordered
<1> HIDE DEF m
<1>5. Ordered(m, pri)
  <2>1. ASSUME NEW i \in 1..(n - 1), NEW j \in 1..(n - 1)
        PROVE  /\ m[i] = m[j] => i = j
               /\ i < j => pri[m[i]] >= pri[m[j]]
    <3>1. i + 1 \in 1..n /\ j + 1 \in 1..n /\ m[i] = l[i + 1] /\ m[j] = l[j + 1]
      BY <1>1, <1>2
    <3>2. /\ i < j => i + 1 < j + 1
          /\ i + 1 = j + 1 => i = j
      OBVIOUS
    <3> HIDE DEF n
    <3> QED BY <3>1, <3>2, <1>4
  <2> QED BY <2>1, <1>2 DEF Ordered
<1>6. 1 \in 1..n
  BY <1>1
<1>7. ASSUME NEW u PROVE IsIn(u, m) <=> IsIn(u, l) /\ u # l[1]
  <2>1. ASSUME NEW j \in 1..(n - 1), m[j] = u PROVE IsIn(u, l) /\ u # l[1]
    <3>1. j + 1 \in 1..n /\ m[j] = l[j + 1] /\ j + 1 # 1
      BY <1>1, <1>2
    <3> QED BY <3>1, <2>1, <1>4, <1>6 DEF IsIn
  <2>2. ASSUME NEW j \in 1..n, l[j] = u, u # l[1] PROVE IsIn(u, m)
    <3>1. j - 1 \in 1..(n - 1) /\ (j - 1) + 1 = j
      BY <1>1, <2>2
    <3>2. m[j - 1] = l[j]
      BY <3>1, <1>2
    <3> QED BY <3>1, <3>2, <2>2, <1>2 DEF IsIn
  <2> QED BY <2>1, <2>2, <1>2 DEF IsIn
<1>8. ASSUME NEW u \in Threads, IsIn(u, l) PROVE pri[u] <= pri[l[1]]
  <2>1. PICK j \in 1..n : l[j] = u
    BY <1>8 DEF IsIn
  <2>2. pri[u] \in Int /\ pri[l[1]] \in Int
    BY <1>3, PriorityInt
  <2>3. CASE j = 1
    BY <2>1, <2>2, <2>3
  <2>4. CASE j # 1
    <3>1. 1 < j
      BY <2>4
    <3>2. pri[l[1]] >= pri[u]
      BY <3>1, <2>1, <1>4, <1>6
    <3> QED BY <3>2, <2>2
  <2> QED BY <2>3, <2>4
<1> QED BY <1>3, <1>5, <1>6, <1>7, <1>8 DEF m, IsIn

(* The thread redispatch puts in front must be at least as urgent as the first. *)
LEMMA OrderedFront ==
  ASSUME NEW l \in Seq(Threads), NEW pri \in [Threads -> Priorities],
         Ordered(l, pri), NEW t \in Threads, ~ IsIn(t, l),
         \A u \in Threads : IsIn(u, l) => pri[u] <= pri[t]
  PROVE  /\ <<t>> \o l \in Seq(Threads) /\ <<t>> \o l # <<>>
         /\ Ordered(<<t>> \o l, pri)
         /\ \A u : IsIn(u, <<t>> \o l) <=> IsIn(u, l) \/ u = t
<1> DEFINE m == <<t>> \o l
           n == Len(l)
<1>1. n \in Nat
  BY LenProperties
<1>2. /\ m \in Seq(Threads) /\ Len(m) = n + 1
      /\ \A j \in 1..(n + 1) : m[j] = IF j = 1 THEN t ELSE l[j - 1]
  <2>1. <<t>> \in Seq(Threads) /\ Len(<<t>>) = 1 /\ <<t>>[1] = t
    OBVIOUS
  <2>2. /\ m \in Seq(Threads) /\ Len(m) = Len(<<t>>) + Len(l)
        /\ \A j \in 1..(Len(<<t>>) + Len(l)) :
             m[j] = IF j <= Len(<<t>>) THEN <<t>>[j] ELSE l[j - Len(<<t>>)]
    BY <2>1, ConcatProperties
  <2> HIDE DEF m
  <2> QED BY <2>1, <2>2, <1>1
<1> HIDE DEF m
<1>3. \A j \in 1..n : l[j] \in Threads /\ l[j] # t /\ pri[l[j]] <= pri[t]
  <2>1. \A j \in 1..n : l[j] \in Threads
    BY ElementOfSeq
  <2> QED BY <2>1 DEF IsIn
<1>4. /\ \A i, j \in 1..n : l[i] = l[j] => i = j
      /\ \A i, j \in 1..n : i < j => pri[l[i]] >= pri[l[j]]
  BY DEF Ordered
<1>5. \A j \in 1..(n + 1) :
        \/ j = 1 /\ m[j] = t
        \/ j # 1 /\ j - 1 \in 1..n /\ m[j] = l[j - 1]
  BY <1>1, <1>2
<1>6. ASSUME NEW i \in 1..(n + 1), NEW j \in 1..(n + 1)
      PROVE  /\ m[i] = m[j] => i = j
             /\ i < j => pri[m[i]] >= pri[m[j]]
  <2>1. i \in Int /\ j \in Int
    OBVIOUS
  <2>2. CASE i # 1 /\ j # 1
    <3>1. /\ i - 1 \in 1..n /\ m[i] = l[i - 1]
          /\ j - 1 \in 1..n /\ m[j] = l[j - 1]
      BY <1>5, <2>2
    <3>2. /\ i < j => i - 1 < j - 1
          /\ i - 1 = j - 1 => i = j
      BY <2>1
    <3> HIDE DEF n
    <3> QED BY <3>1, <3>2, <1>4
  <2>3. CASE i = 1 /\ j # 1
    <3>1. m[i] = t /\ j - 1 \in 1..n /\ m[j] = l[j - 1]
      BY <1>5, <2>3
    <3>2. pri[t] \in Int /\ pri[l[j - 1]] \in Int
      BY <3>1, <1>3, PriorityInt
    <3> QED BY <3>1, <3>2, <1>3
  <2>4. CASE i # 1 /\ j = 1
    <3>1. m[j] = t /\ i - 1 \in 1..n /\ m[i] = l[i - 1] /\ ~ (i < j)
      BY <1>5, <2>4
    <3> QED BY <3>1, <1>3
  <2>5. CASE i = 1 /\ j = 1
    BY <2>5
  <2> QED BY <2>2, <2>3, <2>4, <2>5
<1>7. ASSUME NEW u PROVE IsIn(u, m) <=> IsIn(u, l) \/ u = t
  <2>1. ASSUME NEW j \in 1..n, l[j] = u PROVE IsIn(u, m)
    <3>1. j + 1 \in 1..(n + 1) /\ j + 1 # 1 /\ (j + 1) - 1 = j
      BY <1>1
    <3>2. m[j + 1] = l[j]
      BY <3>1, <1>2
    <3> QED BY <3>1, <3>2, <2>1, <1>2 DEF IsIn
  <2>2. 1 \in 1..(n + 1) /\ m[1] = t
    BY <1>1, <1>2
  <2>3. ASSUME NEW j \in 1..(n + 1), m[j] = u PROVE IsIn(u, l) \/ u = t
    BY <2>3, <1>5 DEF IsIn
  <2> QED BY <2>1, <2>2, <2>3, <1>2 DEF IsIn
<1>8. m # <<>>
  BY <1>1, <1>2, EmptySeq
<1> QED BY <1>2, <1>6, <1>7, <1>8 DEF m, Ordered

------------------------------------------------------------------------------
(* In a consistent state a thread is in one list at most, the one its queue
   field names. *)
LEMMA Membership ==
  ASSUME NEW s, Consistent(s), NEW t \in Threads, NEW l \in Lists
  PROVE  IsIn(t, s.list[l]) <=> t \in On(s) /\ s.queue[t] = l
BY DEF Consistent, Fits, On

(* A state with the same threads linked, given by what its lists contain. *)
LEMMA ConsistentIf ==
  ASSUME NEW r \in SchedType, NEW O \in SUBSET Threads,
         \A l \in Lists : Ordered(r.list[l], r.priority),
         \A l \in Lists, u \in Threads :
           IsIn(u, r.list[l]) <=> u \in O /\ r.queue[u] = l,
         \A u \in O : r.queue[u] \in Lists /\ Fits(r, u, r.queue[u])
  PROVE  Consistent(r) /\ On(r) = O
<1>1. Consistent(r)
  BY DEF Consistent
<1>2. On(r) = O
  BY DEF On
<1> QED BY <1>1, <1>2

LEMMA OnInLists ==
  ASSUME NEW s, Consistent(s), NEW t \in On(s)
  PROVE  t \in Threads /\ s.queue[t] \in Lists /\ Fits(s, t, s.queue[t])
BY DEF Consistent, Fits, On

LEMMA EnqueueLinks ==
  ASSUME NEW s, Consistent(s), NEW lst \in Lists, NEW t \in Threads, t \notin On(s),
         s.state[t] \in {"RUNNABLE", "WAITING"}, lst # RunQ => s.state[t] = "WAITING"
  PROVE  LET r == EnqueueThread(s, lst, t)
         IN /\ Consistent(r) /\ On(r) = On(s) \cup {t}
            /\ r.queue = [s.queue EXCEPT ![t] = lst]
            /\ r.running = s.running /\ r.state = s.state /\ r.priority = s.priority
<1> DEFINE r == EnqueueThread(s, lst, t)
           m == InsertAt(s.list[lst], InsertIndex(s.list[lst], s.priority, t), t)
<1>1. s \in SchedType /\ s.list[lst] \in Seq(Threads)
      /\ s.priority \in [Threads -> Priorities] /\ Ordered(s.list[lst], s.priority)
  BY DEF Consistent, SchedType
<1>2. ~ IsIn(t, s.list[lst])
  BY DEF On
<1>3. Ordered(m, s.priority) /\ \A u : IsIn(u, m) <=> IsIn(u, s.list[lst]) \/ u = t
  BY <1>1, <1>2, OrderedInsert
<1>4. r \in SchedType
  BY <1>1, EnqueueThreadType
<1> HIDE DEF m
<1>5. /\ r.queue = [s.queue EXCEPT ![t] = lst] /\ r.list = [s.list EXCEPT ![lst] = m]
      /\ r.running = s.running /\ r.state = s.state /\ r.priority = s.priority
  BY <1>1 DEF EnqueueThread, SchedType, m
<1> HIDE DEF r
<1>6. \A l \in Lists : Ordered(r.list[l], r.priority)
  BY <1>1, <1>3, <1>5 DEF Consistent, SchedType
<1>7. ASSUME NEW l \in Lists, NEW u \in Threads
      PROVE  IsIn(u, r.list[l]) <=> u \in On(s) \cup {t} /\ r.queue[u] = l
  <2>1. IsIn(u, s.list[l]) <=> u \in On(s) /\ s.queue[u] = l
    BY Membership
  <2>2. r.list[l] = IF l = lst THEN m ELSE s.list[l]
    BY <1>1, <1>5 DEF SchedType
  <2>3. r.queue[u] = IF u = t THEN lst ELSE s.queue[u]
    BY <1>1, <1>5 DEF SchedType
  <2> QED BY <2>1, <2>2, <2>3, <1>3
<1>8. ASSUME NEW u \in On(s) \cup {t}
      PROVE  r.queue[u] \in Lists /\ Fits(r, u, r.queue[u])
  <2>1. r.queue[u] = IF u = t THEN lst ELSE s.queue[u]
    BY <1>1, <1>5 DEF SchedType, On
  <2> QED BY <2>1, <1>5, OnInLists DEF Fits
<1>9. Consistent(r) /\ On(r) = On(s) \cup {t}
  <2> DEFINE O == On(s) \cup {t}
  <2>1. O \in SUBSET Threads
    BY DEF On
  <2>2. /\ \A l \in Lists, u \in Threads :
             IsIn(u, r.list[l]) <=> u \in O /\ r.queue[u] = l
        /\ \A u \in O : r.queue[u] \in Lists /\ Fits(r, u, r.queue[u])
    BY <1>7, <1>8
  <2> HIDE DEF O
  <2>3. Consistent(r) /\ On(r) = O
    BY <2>1, <2>2, <1>4, <1>6, ConsistentIf
  <2> QED BY <2>3 DEF O
<1> QED BY <1>5, <1>9 DEF r

(* A list is not empty when a thread is linked in it. *)
LEMMA EmptyList ==
  ASSUME NEW s, Consistent(s), NEW l \in Lists
  PROVE  s.list[l] = <<>> <=> \A t \in On(s) : s.queue[t] # l
<1>1. s.list[l] \in Seq(Threads)
  BY DEF Consistent, SchedType
<1>2. ASSUME s.list[l] = <<>>, NEW t \in On(s) PROVE s.queue[t] # l
  <2>1. ~ IsIn(t, s.list[l])
    <3>1. Len(<<>>) = 0
      OBVIOUS
    <3> QED BY <1>2, <3>1 DEF IsIn
  <2> QED BY <2>1, Membership DEF On
<1>3. ASSUME s.list[l] # <<>> PROVE \E t \in On(s) : s.queue[t] = l
  <2>1. Head(s.list[l]) \in Threads /\ IsIn(Head(s.list[l]), s.list[l])
    BY <1>1, <1>3, OrderedTail DEF Consistent, SchedType
  <2> QED BY <2>1, Membership
<1> QED BY <1>2, <1>3

LEMMA PopLinks ==
  ASSUME NEW s, Consistent(s), NEW lst \in Lists, s.list[lst] # <<>>
  PROVE  LET r == PopThread(s, lst)
             h == Head(s.list[lst])
         IN /\ Consistent(r) /\ On(r) = On(s) \ {h}
            /\ h \in On(s) /\ s.queue[h] = lst
            /\ \A u \in Threads : u \in On(s) /\ s.queue[u] = lst
                                    => s.priority[u] <= s.priority[h]
            /\ r.queue = s.queue
            /\ r.running = s.running /\ r.state = s.state /\ r.priority = s.priority
<1> DEFINE r == PopThread(s, lst)
           h == Head(s.list[lst])
           m == Tail(s.list[lst])
<1>1. s \in SchedType /\ s.list[lst] \in Seq(Threads)
      /\ s.priority \in [Threads -> Priorities] /\ Ordered(s.list[lst], s.priority)
  BY DEF Consistent, SchedType
<1>2. /\ Ordered(m, s.priority)
      /\ \A u : IsIn(u, m) <=> IsIn(u, s.list[lst]) /\ u # h
      /\ h \in Threads /\ IsIn(h, s.list[lst])
      /\ \A u \in Threads : IsIn(u, s.list[lst]) => s.priority[u] <= s.priority[h]
  BY <1>1, OrderedTail
<1>3. r \in SchedType
  BY <1>1, PopThreadType
<1> HIDE DEF m, h
<1>4. /\ r.queue = s.queue /\ r.list = [s.list EXCEPT ![lst] = m]
      /\ r.running = s.running /\ r.state = s.state /\ r.priority = s.priority
  BY <1>1 DEF PopThread, SchedType, m
<1> HIDE DEF r
<1>5. h \in On(s) /\ s.queue[h] = lst
  BY <1>2, Membership
<1>6. \A l \in Lists : Ordered(r.list[l], r.priority)
  BY <1>1, <1>2, <1>4 DEF Consistent, SchedType
<1>7. ASSUME NEW l \in Lists, NEW u \in Threads
      PROVE  IsIn(u, r.list[l]) <=> u \in On(s) \ {h} /\ r.queue[u] = l
  <2>1. IsIn(u, s.list[l]) <=> u \in On(s) /\ s.queue[u] = l
    BY Membership
  <2>2. r.list[l] = IF l = lst THEN m ELSE s.list[l]
    BY <1>1, <1>4 DEF SchedType
  <2> QED BY <2>1, <2>2, <1>2, <1>4, <1>5
<1>8. ASSUME NEW u \in On(s) \ {h}
      PROVE  r.queue[u] \in Lists /\ Fits(r, u, r.queue[u])
  BY <1>4, OnInLists DEF Fits
<1>9. Consistent(r) /\ On(r) = On(s) \ {h}
  <2>1. On(s) \ {h} \in SUBSET Threads
    BY DEF On
  <2> QED BY <2>1, <1>3, <1>6, <1>7, <1>8, ConsistentIf
<1>10. \A u \in Threads : u \in On(s) /\ s.queue[u] = lst => s.priority[u] <= s.priority[h]
  BY <1>2, Membership
<1> QED BY <1>4, <1>5, <1>9, <1>10 DEF r, h

(* Unlinking a thread from the list its queue field names, if it is linked. *)
LEMMA DequeueUnlinks ==
  ASSUME NEW s, Consistent(s), NEW t \in Threads
  PROVE  LET r == DequeueThread(s, s.queue[t], t)
         IN /\ Consistent(r) /\ On(r) = On(s) \ {t}
            /\ r.queue = s.queue
            /\ r.running = s.running /\ r.state = s.state /\ r.priority = s.priority
<1> DEFINE lst == s.queue[t]
           r == DequeueThread(s, lst, t)
<1>1. /\ s \in SchedType /\ s.list \in [Lists -> Seq(Threads)]
      /\ s.priority \in [Threads -> Priorities] /\ lst \in Lists \cup {NoList}
  BY DEF Consistent, SchedType
<1>2. r \in SchedType
  BY <1>1, DequeueThreadType
<1>3. /\ r.queue = s.queue
      /\ r.running = s.running /\ r.state = s.state /\ r.priority = s.priority
      /\ \A l \in Lists : r.list[l] = IF l = lst THEN Unlink(s.list[l], t) ELSE s.list[l]
  BY <1>1 DEF DequeueThread, SchedType
<1>4. \A l \in Lists :
        /\ Ordered(Unlink(s.list[l], t), s.priority)
        /\ \A u : IsIn(u, Unlink(s.list[l], t)) <=> IsIn(u, s.list[l]) /\ u # t
  BY <1>1, OrderedUnlink DEF Consistent
<1> HIDE DEF r
<1>5. \A l \in Lists : Ordered(r.list[l], r.priority)
  BY <1>3, <1>4 DEF Consistent
<1>6. ASSUME NEW l \in Lists, NEW u \in Threads
      PROVE  IsIn(u, r.list[l]) <=> u \in On(s) \ {t} /\ r.queue[u] = l
  <2>1. IsIn(u, s.list[l]) <=> u \in On(s) /\ s.queue[u] = l
    BY Membership
  <2>2. CASE l = lst
    BY <2>1, <2>2, <1>3, <1>4
  <2>3. CASE l # lst
    BY <2>1, <2>3, <1>3
  <2> QED BY <2>2, <2>3
<1>7. ASSUME NEW u \in On(s) \ {t}
      PROVE  r.queue[u] \in Lists /\ Fits(r, u, r.queue[u])
  BY <1>3, OnInLists DEF Fits
<1>8. Consistent(r) /\ On(r) = On(s) \ {t}
  <2>1. On(s) \ {t} \in SUBSET Threads
    BY DEF On
  <2> QED BY <2>1, <1>2, <1>5, <1>6, <1>7, ConsistentIf
<1> QED BY <1>3, <1>8 DEF r

(* The fields of a thread that is in no list may change. *)
LEMMA UnlinkedChanges ==
  ASSUME NEW s, Consistent(s), NEW t \in Threads, t \notin On(s),
         NEW r \in SchedType, r.list = s.list,
         \A u \in Threads \ {t} : /\ r.state[u] = s.state[u] /\ r.queue[u] = s.queue[u]
                                  /\ r.priority[u] = s.priority[u]
  PROVE  Consistent(r) /\ On(r) = On(s)
<1>1. s.list \in [Lists -> Seq(Threads)]
  BY DEF Consistent, SchedType
<1>2. ASSUME NEW l \in Lists PROVE Ordered(r.list[l], r.priority)
  <2> DEFINE m == s.list[l]
  <2>1. Ordered(m, s.priority) /\ m \in Seq(Threads)
    BY <1>1 DEF Consistent
  <2>2. ASSUME NEW i \in 1..Len(m) PROVE r.priority[m[i]] = s.priority[m[i]]
    <3>1. m[i] \in Threads
      BY <2>1, ElementOfSeq
    <3>2. m[i] \in On(s)
      BY <3>1 DEF On, IsIn
    <3> QED BY <3>1, <3>2
  <2> HIDE DEF m
  <2>3. Ordered(m, r.priority)
    BY <2>1, <2>2 DEF Ordered
  <2> QED BY <2>3 DEF m
<1>3. On(r) = On(s)
  BY DEF On
<1>4. ASSUME NEW l \in Lists, NEW u \in Threads, IsIn(u, r.list[l])
      PROVE  Fits(r, u, l)
  <2>1. u \in On(s) /\ u \in Threads \ {t}
    BY <1>4 DEF On
  <2>2. Fits(s, u, l)
    BY <1>4 DEF Consistent
  <2> QED BY <2>1, <2>2 DEF Fits
<1> QED BY <1>2, <1>3, <1>4 DEF Consistent

LEMMA DispatchRuns ==
  ASSUME NEW s, Consistent(s), NEW t \in Threads, Ready(s, t)
  PROVE  LET r == DispatchThread(s)
             h == r.running
         IN /\ Consistent(r) /\ On(r) = On(s) \ {h}
            /\ h \in Threads /\ Ready(s, h) /\ MostUrgentIs(r, h)
            /\ r.queue = s.queue /\ r.priority = s.priority
            /\ r.state = [s.state EXCEPT ![h] = "RUNNING"]
<1> DEFINE r == DispatchThread(s)
           p == PopThread(s, RunQ)
           h == Head(s.list[RunQ])
<1>1. s.list[RunQ] # <<>>
  BY EmptyList, ListsDistinct DEF Ready
<1>2. /\ Consistent(p) /\ On(p) = On(s) \ {h}
      /\ h \in On(s) /\ s.queue[h] = RunQ
      /\ \A u \in Threads : u \in On(s) /\ s.queue[u] = RunQ
                              => s.priority[u] <= s.priority[h]
      /\ p.queue = s.queue
      /\ p.running = s.running /\ p.state = s.state /\ p.priority = s.priority
  BY <1>1, PopLinks, ListsDistinct
<1>3. p \in SchedType /\ h \in Threads
  BY <1>2 DEF Consistent, On
<1>4. r = [p EXCEPT !.running = h, !.state[h] = "RUNNING"]
  BY <1>1 DEF DispatchThread
<1> HIDE DEF p, h
<1>5. /\ r \in SchedType /\ r.running = h /\ r.list = p.list /\ r.queue = p.queue
      /\ r.priority = p.priority /\ r.state = [p.state EXCEPT ![h] = "RUNNING"]
  <2> HIDE DEF r
  <2> QED BY <1>3, <1>4 DEF SchedType, States
<1> HIDE DEF r
<1>6. \A u \in Threads \ {h} : r.state[u] = p.state[u]
  BY <1>3, <1>5 DEF SchedType
<1>7. Consistent(r) /\ On(r) = On(p)
  <2>1. h \notin On(p)
    BY <1>2
  <2>2. \A u \in Threads \ {h} : /\ r.state[u] = p.state[u] /\ r.queue[u] = p.queue[u]
                                  /\ r.priority[u] = p.priority[u]
    BY <1>5, <1>6
  <2>3. r \in SchedType /\ r.list = p.list
    BY <1>5
  <2>4. Consistent(p) /\ h \in Threads
    BY <1>2, <1>3
  <2> QED BY <2>1, <2>2, <2>3, <2>4, UnlinkedChanges
<1>8. MostUrgentIs(r, h)
  BY <1>2, <1>5, <1>7 DEF MostUrgentIs, Ready
<1> QED BY <1>2, <1>3, <1>5, <1>7, <1>8 DEF r, Ready

LEMMA HeadPriorityBounds ==
  ASSUME NEW s, Consistent(s)
  PROVE  /\ HeadPriority(s) \in Int
         /\ \A p \in Priorities :
              HeadPriority(s) <= p
                <=> \A u \in Threads : Ready(s, u) => s.priority[u] <= p
<1>1. s.priority \in [Threads -> Priorities]
  BY DEF Consistent, SchedType
<1>2. CASE s.list[RunQ] = <<>>
  <2>1. \A u \in Threads : ~ Ready(s, u)
    BY <1>2, EmptyList, ListsDistinct DEF Ready
  <2> QED BY <1>2, <2>1 DEF HeadPriority, Priorities
<1>3. CASE s.list[RunQ] # <<>>
  <2> DEFINE h == Head(s.list[RunQ])
  <2>1. /\ h \in On(s) /\ s.queue[h] = RunQ
        /\ \A u \in Threads : u \in On(s) /\ s.queue[u] = RunQ
                                => s.priority[u] <= s.priority[h]
    BY <1>3, PopLinks, ListsDistinct
  <2>2. HeadPriority(s) = s.priority[h]
    BY <1>3 DEF HeadPriority
  <2> HIDE DEF h
  <2>3. h \in Threads /\ Ready(s, h)
    BY <2>1 DEF On, Ready
  <2>4. \A u \in Threads : s.priority[u] \in Int
    BY <1>1, PriorityInt
  <2>5. ASSUME NEW p \in Priorities
        PROVE  HeadPriority(s) <= p
                 <=> \A u \in Threads : Ready(s, u) => s.priority[u] <= p
    <3>1. p \in Int
      BY PriorityInt
    <3> QED BY <3>1, <2>1, <2>2, <2>3, <2>4 DEF Ready
  <2> QED BY <2>2, <2>3, <2>4, <2>5
<1> QED BY <1>2, <1>3

(* osStartThread on a thread that is in no list: it is linked, or it goes back to
   its wait queue and the head of that queue is made ready. *)
LEMMA MakeReadyLinks ==
  ASSUME NEW s, Consistent(s), NEW t \in Threads, t \notin On(s),
         s.state[t] \in {"STOPPED", "WAITING"}
  PROVE  LET r == MakeReady(s, t)
         IN /\ Consistent(r) /\ On(r) = On(s) \cup {t}
            /\ r.running = s.running /\ r.priority = s.priority
            /\ \E x \in {"RUNNABLE", "WAITING"} : r.state = [s.state EXCEPT ![t] = x]
            /\ OnlyToRunQ(s, r) /\ r.queue[t] # NoList
<1> DEFINE W(x) == [s EXCEPT !.state[t] = x]
<1>1. ASSUME NEW x \in {"RUNNABLE", "WAITING"}
      PROVE  /\ Consistent(W(x)) /\ On(W(x)) = On(s)
             /\ W(x).state = [s.state EXCEPT ![t] = x] /\ W(x).state[t] = x
             /\ W(x).running = s.running /\ W(x).queue = s.queue
             /\ W(x).priority = s.priority
  <2>1. s \in SchedType /\ x \in States
    BY DEF Consistent, States
  <2>2. /\ W(x) \in SchedType /\ W(x).list = s.list
        /\ W(x).state = [s.state EXCEPT ![t] = x]
        /\ W(x).running = s.running /\ W(x).queue = s.queue
        /\ W(x).priority = s.priority
    BY <2>1 DEF SchedType
  <2> HIDE DEF W
  <2>3. W(x).state[t] = x /\ \A u \in Threads \ {t} : W(x).state[u] = s.state[u]
    BY <2>1, <2>2 DEF SchedType
  <2> QED BY <2>2, <2>3, UnlinkedChanges
<1>2. s \in SchedType /\ s.queue \in [Threads -> Lists \cup {NoList}]
  BY DEF Consistent, SchedType
<1> DEFINE ready == EnqueueThread(W("RUNNABLE"), RunQ, t)
           back  == EnqueueThread(W("WAITING"), s.queue[t], t)
           h     == Head(back.list[s.queue[t]])
           moved == EnqueueThread(PopThread(back, s.queue[t]), RunQ, h)
<1>3. MakeReady(s, t) = IF s.state[t] = "WAITING" \/ s.queue[t] \in {NoList, RunQ}
                        THEN ready ELSE moved
  BY DEF MakeReady
<1> HIDE DEF W
<1>4. /\ Consistent(ready) /\ On(ready) = On(s) \cup {t}
      /\ ready.running = s.running /\ ready.priority = s.priority
      /\ ready.state = [s.state EXCEPT ![t] = "RUNNABLE"]
      /\ ready.queue = [s.queue EXCEPT ![t] = RunQ]
  BY <1>1, EnqueueLinks, ListsDistinct
<1>5. CASE s.state[t] = "WAITING" \/ s.queue[t] \in {NoList, RunQ}
  <2> HIDE DEF ready
  <2>1. OnlyToRunQ(s, ready) /\ ready.queue[t] = RunQ
    BY <1>2, <1>4 DEF OnlyToRunQ
  <2> QED BY <1>3, <1>4, <1>5, <2>1, ListsDistinct
<1>6. CASE ~ (s.state[t] = "WAITING" \/ s.queue[t] \in {NoList, RunQ})
  <2>1. s.queue[t] \in Lists /\ s.queue[t] # RunQ
    BY <1>2, <1>6
  <2>2. /\ Consistent(back) /\ On(back) = On(s) \cup {t}
        /\ back.running = s.running /\ back.priority = s.priority
        /\ back.state = [s.state EXCEPT ![t] = "WAITING"]
        /\ back.queue = [s.queue EXCEPT ![t] = s.queue[t]]
    BY <1>1, <2>1, EnqueueLinks
  <2>3. back.queue = s.queue
    BY <1>2, <2>2
  <2>4. back.list[s.queue[t]] # <<>>
    BY <2>1, <2>2, <2>3, EmptyList
  <2> HIDE DEF back
  <2> DEFINE p == PopThread(back, s.queue[t])
  <2>5. /\ Consistent(p) /\ On(p) = On(back) \ {h}
        /\ h \in On(back) /\ back.queue[h] = s.queue[t]
        /\ p.queue = back.queue
        /\ p.running = back.running /\ p.state = back.state /\ p.priority = back.priority
    <3> DEFINE lst == s.queue[t]
    <3>1. Consistent(back) /\ lst \in Lists /\ back.list[lst] # <<>>
      BY <2>1, <2>2, <2>4
    <3> HIDE DEF lst
    <3>2. /\ Consistent(PopThread(back, lst))
          /\ On(PopThread(back, lst)) = On(back) \ {Head(back.list[lst])}
          /\ Head(back.list[lst]) \in On(back)
          /\ back.queue[Head(back.list[lst])] = lst
          /\ PopThread(back, lst).queue = back.queue
          /\ PopThread(back, lst).running = back.running
          /\ PopThread(back, lst).state = back.state
          /\ PopThread(back, lst).priority = back.priority
      BY <3>1, PopLinks
    <3> QED BY <3>2 DEF lst
  <2> HIDE DEF p, h
  <2>6. h \in Threads /\ p.state[h] = "WAITING"
    <3>1. h \in Threads /\ Fits(back, h, back.queue[h])
      BY <2>2, <2>5, OnInLists
    <3> QED BY <3>1, <2>1, <2>5 DEF Fits
  <2>7. /\ Consistent(moved) /\ On(moved) = On(p) \cup {h}
        /\ moved.queue = [p.queue EXCEPT ![h] = RunQ]
        /\ moved.running = p.running /\ moved.state = p.state
        /\ moved.priority = p.priority
    BY <2>5, <2>6, EnqueueLinks, ListsDistinct DEF p
  <2> HIDE DEF moved
  <2>8. OnlyToRunQ(s, moved) /\ moved.queue[t] # NoList
    BY <1>2, <2>1, <2>3, <2>5, <2>7, ListsDistinct DEF OnlyToRunQ
  <2>9. On(moved) = On(s) \cup {t}
    BY <2>2, <2>5, <2>7
  <2> QED BY <1>3, <1>6, <2>2, <2>5, <2>7, <2>8, <2>9
<1> QED BY <1>5, <1>6

(* An interrupt moves the first thread of a wait queue to the run queue. *)
LEMMA InterruptMoves ==
  ASSUME NEW s, Consistent(s), NEW lst \in Lists, lst # RunQ
  PROVE  LET r == WakeFromInterrupt(s, lst)
         IN /\ Consistent(r) /\ On(r) = On(s)
            /\ r.running = s.running /\ r.state = s.state /\ r.priority = s.priority
            /\ OnlyToRunQ(s, r)
<1>1. CASE s.list[lst] = <<>>
  BY <1>1 DEF WakeFromInterrupt, OnlyToRunQ
<1>2. CASE s.list[lst] # <<>>
  <2> DEFINE h == Head(s.list[lst])
             p == PopThread(s, lst)
             r == EnqueueThread(p, RunQ, h)
  <2>1. /\ Consistent(p) /\ On(p) = On(s) \ {h}
        /\ h \in On(s) /\ s.queue[h] = lst /\ p.queue = s.queue
        /\ p.running = s.running /\ p.state = s.state /\ p.priority = s.priority
    BY <1>2, PopLinks
  <2>2. WakeFromInterrupt(s, lst) = r
    BY <1>2 DEF WakeFromInterrupt
  <2> HIDE DEF p, h
  <2>3. h \in Threads /\ p.state[h] = "WAITING"
    <3>1. h \in Threads /\ Fits(s, h, s.queue[h])
      BY <2>1, OnInLists
    <3> QED BY <3>1, <2>1 DEF Fits
  <2>4. /\ Consistent(r) /\ On(r) = On(p) \cup {h}
        /\ r.queue = [p.queue EXCEPT ![h] = RunQ]
        /\ r.running = p.running /\ r.state = p.state /\ r.priority = p.priority
    BY <2>1, <2>3, EnqueueLinks, ListsDistinct
  <2> HIDE DEF r
  <2>5. OnlyToRunQ(s, r)
    <3>1. s.queue \in [Threads -> Lists \cup {NoList}]
      BY DEF Consistent, SchedType
    <3> QED BY <3>1, <2>1, <2>4 DEF OnlyToRunQ
  <2>6. On(r) = On(s)
    BY <2>1, <2>4
  <2> QED BY <2>1, <2>2, <2>4, <2>5, <2>6
<1> QED BY <1>1, <1>2

------------------------------------------------------------------------------
(* Types *)

(* The handler runs on behalf of the thread it interrupted, so that thread can
   be put back: with TypeOK this is inductive. *)
InterruptedThread == exc => sched.running \in Threads

TypeInv == TypeOK /\ InterruptedThread

USE DEF nmiVars

------------------------------------------------------------------------------
LEMMA TypeInit == Init => TypeInv
<1> SUFFICES ASSUME Init PROVE TypeInv
  OBVIOUS
<1>1. sched \in SchedType
  <2>1. [l \in Lists |-> <<>>] \in [Lists -> Seq(Threads)]
    BY EmptySeq
  <2> QED BY <2>1 DEF Init, SchedType, States, Priorities
<1>2. active \subseteq Threads
  BY KernelAssumption DEF Init
<1>3. call \in [Threads -> CallType]
  BY DEF Init, CallType, User
<1>4. DOMAIN ring = Queues /\ \A q \in Queues : ring[q] \in RingType(q)
  <2>1. ASSUME NEW q \in Queues PROVE ring[q] \in RingType(q)
    <3>1. Capacity[q] \in Nat \ {0}
      BY KernelAssumption
    <3>2. ring[q] = [first |-> 0, valid |-> 0,
                     buf |-> [i \in 0..(Capacity[q] - 1) |-> NoMsg]]
      BY DEF Init
    <3>3. 0 \in 0..(Capacity[q] - 1) /\ 0 \in 0..Capacity[q]
      BY <3>1
    <3> QED BY <3>2, <3>3 DEF RingType
  <2> QED BY <2>1 DEF Init
<1>5. evtab \in [Events -> Queues \cup {NoQueue}]
  BY DEF Init
<1>6. /\ exc \in BOOLEAN /\ pend \subseteq Events
      /\ shutdown \in BOOLEAN /\ preNMI \in BOOLEAN /\ nmiLost \in BOOLEAN
      /\ InterruptedThread
  BY Zenon DEF Init, InterruptedThread
<1>7. nmiOff \subseteq Threads \cup {ThreadTail} /\ nmiSent \in 0..NmiSentMax
  BY DEF Init, NmiSentMax
<1> QED BY <1>1, <1>2, <1>3, <1>4, <1>5, <1>6, <1>7 DEF TypeInv, TypeOK

------------------------------------------------------------------------------
(* An index reduced to the ring's length is an index of the ring. *)
LEMMA ModRange ==
  ASSUME NEW x \in Nat, NEW c \in Nat \ {0}
  PROVE  x % c \in 0..(c - 1)
OBVIOUS

(* The rings stay within their capacity. *)
LEMMA PutType ==
  ASSUME NEW q \in Queues, NEW r \in RingType(q), ~ (r.valid >= Capacity[q]),
         NEW m \in AllMsgs
  PROVE  /\ PutLast(r, Capacity[q], m) \in RingType(q)
         /\ PutFirst(r, Capacity[q], m) \in RingType(q)
<1> DEFINE cap == Capacity[q]
           f == (r.first + cap - 1) % cap
<1>1. cap \in Nat \ {0}
  BY KernelAssumption
<1> HIDE DEF cap
<1>2. /\ r.first \in 0..(cap - 1) /\ r.valid \in 0..cap
      /\ r.buf \in [0..(cap - 1) -> AllMsgs \cup {NoMsg}]
  BY DEF RingType, cap
<1>3. r.valid + 1 \in 0..cap /\ f \in 0..(cap - 1)
  <2>1. ~ (r.valid >= cap)
    BY DEF cap
  <2>2. r.first + cap - 1 \in Nat
    BY <1>1, <1>2
  <2>3. f \in 0..(cap - 1)
    BY <1>1, <2>2, ModRange
  <2>4. r.valid + 1 \in 0..cap
    BY <1>1, <1>2, <2>1
  <2> QED BY <2>3, <2>4
<1> HIDE DEF f
<1>4. \A i : [r.buf EXCEPT ![i] = m] \in [0..(cap - 1) -> AllMsgs \cup {NoMsg}]
  BY <1>2
<1>5. PutLast(r, Capacity[q], m) \in RingType(q)
  BY <1>3, <1>4 DEF PutLast, RingType, cap
<1>6. PutFirst(r, Capacity[q], m) \in RingType(q)
  BY <1>3, <1>4 DEF PutFirst, RingType, cap, f
<1> QED BY <1>5, <1>6

LEMMA TakeType ==
  ASSUME NEW q \in Queues, NEW r \in RingType(q), r.valid # 0
  PROVE  TakeFirst(r, Capacity[q]) \in RingType(q)
<1>1. Capacity[q] \in Nat \ {0}
  BY KernelAssumption
<1>2. (r.first + 1) % Capacity[q] \in 0..(Capacity[q] - 1)
      /\ r.valid - 1 \in 0..Capacity[q]
  BY <1>1 DEF RingType
<1> QED BY <1>2 DEF RingType, TakeFirst

LEMMA PostType ==
  ASSUME TypeInv, NEW e \in Events, NEW s \in SchedType
  PROVE  /\ DOMAIN PostRing(e) = Queues
         /\ \A q \in Queues : PostRing(e)[q] \in RingType(q)
         /\ PostSched(s, e) \in SchedType
         /\ PostSched(s, e).running = s.running
<1>1. CASE Posts(e)
  <2>1. evtab[e] \in Queues
    BY <1>1 DEF Posts, TypeInv, TypeOK
  <2>2. ~ (ring[evtab[e]].valid >= Capacity[evtab[e]])
    BY <1>1 DEF Posts, IsFull
  <2>3. EventMsg \in AllMsgs
    BY DEF AllMsgs
  <2>4. PutLast(ring[evtab[e]], Capacity[evtab[e]], EventMsg) \in RingType(evtab[e])
    BY <2>1, <2>2, <2>3, PutType DEF TypeInv, TypeOK
  <2>5. MtQ(evtab[e]) \in Lists
    BY <2>1, ListsDistinct
  <2>6. PostSched(s, e) \in SchedType /\ PostSched(s, e).running = s.running
    BY <1>1, <2>5, WakeFromInterruptType DEF PostSched
  <2>7. PostRing(e) =
          [ring EXCEPT ![evtab[e]] = PutLast(@, Capacity[evtab[e]], EventMsg)]
    BY <1>1 DEF PostRing
  <2> QED BY <2>1, <2>4, <2>6, <2>7 DEF TypeInv, TypeOK
<1>2. CASE ~ Posts(e)
  BY <1>2 DEF PostRing, PostSched, TypeInv, TypeOK
<1> QED BY <1>1, <1>2

(* The message calls, whether entered by the application or resumed. *)
MesgStep == sched' \in SchedType /\ call' \in [Threads -> CallType]
            /\ DOMAIN ring' = Queues /\ \A q \in Queues : ring'[q] \in RingType(q)

LEMMA BlockType ==
  ASSUME TypeInv, NEW t \in Threads, sched.running = t,
         NEW op, NEW q \in Queues, NEW m, NEW lst \in Lists,
         \/ op \in {"send", "jam"} /\ m \in Msgs
         \/ op = "recv" /\ m = NoMsg,
         Block(t, op, q, m, lst)
  PROVE  MesgStep
<1>1. Pending(op, q, m) \in CallType
  BY DEF Pending, CallType
<1>2. call' \in [Threads -> CallType]
  BY <1>1 DEF Block, TypeInv, TypeOK
<1>3. /\ [sched EXCEPT !.state[t] = "WAITING"] \in SchedType
      /\ [sched EXCEPT !.state[t] = "WAITING"].running = t
  BY StateType DEF States, TypeInv, TypeOK
<1>4. sched' \in SchedType
  BY <1>3, EnqueueAndYieldType DEF Block
<1> QED BY <1>2, <1>4 DEF MesgStep, Block, TypeInv, TypeOK

LEMMA MesgCallType ==
  ASSUME TypeInv, NEW t \in Threads, sched.running = t, NEW q \in Queues,
         NEW m,
         \/ m \in Msgs /\ (TrySend(t, q, m) \/ TryJam(t, q, m))
         \/ TryRecv(t, q)
  PROVE  MesgStep
<1>0. User \in CallType
  BY DEF User, CallType
<1>1. Return(t) => call' \in [Threads -> CallType]
  BY <1>0 DEF Return, TypeInv, TypeOK
<1>2. MtQ(q) \in Lists /\ FullQ(q) \in Lists
  BY ListsDistinct
<1>3. \A l \in Lists : WakeFirst(sched, l) \in SchedType
  BY WakeFirstType DEF TypeInv, TypeOK
<1>4. ring[q] \in RingType(q) /\ DOMAIN ring = Queues
  BY DEF TypeInv, TypeOK
<1>5. \A r \in RingType(q) :
        ring' = [ring EXCEPT ![q] = r]
          => DOMAIN ring' = Queues /\ \A p \in Queues : ring'[p] \in RingType(p)
  BY DEF TypeInv, TypeOK
<1>6. CASE m \in Msgs /\ TrySend(t, q, m)
  <2>1. CASE Block(t, "send", q, m, FullQ(q))
    BY <1>2, <1>6, <2>1, BlockType
  <2>2. CASE /\ ~IsFull(q)
             /\ ring' = [ring EXCEPT ![q] = PutLast(@, Capacity[q], m)]
             /\ sched' = WakeFirst(sched, MtQ(q))
             /\ Return(t)
    <3>1. PutLast(ring[q], Capacity[q], m) \in RingType(q)
      BY <1>4, <1>6, <2>2, PutType DEF IsFull, AllMsgs
    <3> QED BY <1>1, <1>2, <1>3, <1>5, <2>2, <3>1 DEF MesgStep
  <2> QED BY <1>6, <2>1, <2>2 DEF TrySend
<1>7. CASE m \in Msgs /\ TryJam(t, q, m)
  <2>1. CASE Block(t, "jam", q, m, FullQ(q))
    BY <1>2, <1>7, <2>1, BlockType
  <2>2. CASE /\ ~IsFull(q)
             /\ ring' = [ring EXCEPT ![q] = PutFirst(@, Capacity[q], m)]
             /\ sched' = WakeFirst(sched, MtQ(q))
             /\ Return(t)
    <3>1. PutFirst(ring[q], Capacity[q], m) \in RingType(q)
      BY <1>4, <1>7, <2>2, PutType DEF IsFull, AllMsgs
    <3> QED BY <1>1, <1>2, <1>3, <1>5, <2>2, <3>1 DEF MesgStep
  <2> QED BY <1>7, <2>1, <2>2 DEF TryJam
<1>8. CASE TryRecv(t, q)
  <2>1. CASE Block(t, "recv", q, NoMsg, MtQ(q))
    BY <1>2, <2>1, BlockType
  <2>2. CASE /\ ~IsEmpty(q)
             /\ ring' = [ring EXCEPT ![q] = TakeFirst(@, Capacity[q])]
             /\ sched' = WakeFirst(sched, FullQ(q))
             /\ Return(t)
    <3>1. TakeFirst(ring[q], Capacity[q]) \in RingType(q)
      BY <1>4, <2>2, TakeType DEF IsEmpty
    <3> QED BY <1>1, <1>2, <1>3, <1>5, <2>2, <3>1 DEF MesgStep
  <2> QED BY <1>8, <2>1, <2>2 DEF TryRecv
<1> QED BY <1>6, <1>7, <1>8

------------------------------------------------------------------------------
(* One lemma per group of actions: each preserves TypeInv. *)
LEMMA MesgTypeStep ==
  ASSUME TypeInv, NEW t \in Threads, MesgCall(t) \/ ResumeMesg(t)
  PROVE  TypeInv'
<1>1. MesgStep => DOMAIN ring' = Queues /\ \A q \in Queues : (ring[q] \in RingType(q))'
  BY DEF MesgStep, RingType
<1>2. ASSUME MesgStep, UNCHANGED kernelRest, ~exc
      PROVE  TypeInv'
  BY <1>1, <1>2 DEF MesgStep, kernelRest, TypeInv, TypeOK, InterruptedThread
<1>4. ASSUME NEW q \in Queues, NEW m \in Msgs, SendMesg(t, q, m)
      PROVE  TypeInv'
  <2>1. ~exc /\ sched.running = t /\ TrySend(t, q, m) /\ UNCHANGED kernelRest
    BY <1>4 DEF SendMesg, InUser, Running
  <2> QED BY <1>2, <2>1, MesgCallType
<1>5. ASSUME NEW q \in Queues, NEW m \in Msgs, JamMesg(t, q, m)
      PROVE  TypeInv'
  <2>1. ~exc /\ sched.running = t /\ TryJam(t, q, m) /\ UNCHANGED kernelRest
    BY <1>5 DEF JamMesg, InUser, Running
  <2> QED BY <1>2, <2>1, MesgCallType
<1>6. ASSUME NEW q \in Queues, RecvMesg(t, q)
      PROVE  TypeInv'
  <2>1. ~exc /\ sched.running = t /\ TryRecv(t, q) /\ UNCHANGED kernelRest
    BY <1>6 DEF RecvMesg, InUser, Running
  <2>2. MesgStep
    BY <2>1, MesgCallType
  <2> QED BY <1>2, <2>1, <2>2
<1>7. ASSUME ResumeMesg(t)
      PROVE  TypeInv'
  <2>1. ~exc /\ sched.running = t /\ UNCHANGED kernelRest
    BY <1>7 DEF ResumeMesg, Running
  <2>2. call[t] \in CallType
    BY DEF TypeInv, TypeOK
  <2>3. CASE call[t].op = "send" /\ TrySend(t, call[t].q, call[t].m)
    <3>1. call[t].q \in Queues /\ call[t].m \in Msgs
      BY <2>2, <2>3 DEF CallType, User, Pending
    <3> QED BY <1>2, <2>1, <2>3, <3>1, MesgCallType
  <2>4. CASE call[t].op = "jam" /\ TryJam(t, call[t].q, call[t].m)
    <3>1. call[t].q \in Queues /\ call[t].m \in Msgs
      BY <2>2, <2>4 DEF CallType, User, Pending
    <3> QED BY <1>2, <2>1, <2>4, <3>1, MesgCallType
  <2>5. CASE call[t].op = "recv" /\ TryRecv(t, call[t].q)
    <3>1. call[t].q \in Queues
      BY <2>2, <2>5 DEF CallType, User, Pending
    <3>2. MesgStep
      BY <2>1, <2>5, <3>1, MesgCallType
    <3> QED BY <1>2, <2>1, <3>2
  <2> QED BY <1>7, <2>3, <2>4, <2>5 DEF ResumeMesg
<1> QED BY <1>4, <1>5, <1>6, <1>7 DEF MesgCall

(* The thread calls change the scheduler, the set of threads and SR masks only. *)
LEMMA ThreadCallFrame ==
  ASSUME TypeInv, ~exc, UNCHANGED threadRest, sched' \in SchedType,
         active' \subseteq Threads, call' \in [Threads -> CallType],
         nmiOff' \subseteq nmiOff
  PROVE  TypeInv'
<1>1. \A q \in Queues : (ring[q] \in RingType(q))'
  BY DEF threadRest, RingType, TypeInv, TypeOK
<1> QED BY <1>1 DEF threadRest, TypeInv, TypeOK, InterruptedThread

LEMMA ThreadCallTypeStep ==
  ASSUME TypeInv, NEW t \in Threads, ThreadCall(t)
  PROVE  TypeInv'
<1>0. /\ sched \in SchedType /\ active \subseteq Threads
      /\ call \in [Threads -> CallType] /\ User \in CallType
  BY DEF TypeInv, TypeOK, CallType
<1>1. ASSUME NEW u \in Threads \ {Idle}, NEW p \in Prios, CreateThread(t, u, p)
      PROVE  TypeInv'
  <2>1. /\ ~exc /\ UNCHANGED << call, threadRest >>
        /\ active' = active \cup {u} /\ nmiOff' = nmiOff \ {u}
        /\ sched' = [sched EXCEPT !.state[u] = "STOPPED", !.priority[u] = p,
                                  !.queue[u] = NoList]
    BY <1>1 DEF CreateThread, InUser, Running
  <2>2. p \in Priorities
    BY KernelAssumption DEF Priorities
  <2>3. sched' \in SchedType
    BY <1>0, <2>1, <2>2 DEF SchedType, States
  <2> QED BY <1>0, <2>1, <2>3, ThreadCallFrame
<1>2. ASSUME NEW u \in Threads, OSStartThread(t, u)
      PROVE  TypeInv'
  <2>1. /\ ~exc /\ UNCHANGED << active, call, nmiOff, threadRest >>
        /\ sched.running = t /\ sched' = StartThread(sched, u)
    BY <1>2 DEF OSStartThread, InUser, Running
  <2>2. sched' \in SchedType
    BY <1>0, <2>1, StartThreadType
  <2> QED BY <1>0, <2>1, <2>2, ThreadCallFrame
<1>3. ASSUME NEW u \in Threads, StopThread(t, u)
      PROVE  TypeInv'
  <2> DEFINE s == [sched EXCEPT !.state[u] = "STOPPED"]
  <2>1. /\ ~exc /\ UNCHANGED << active, call, nmiOff, threadRest >>
        /\ \/ sched' = DispatchThread(s)
           \/ sched' = DequeueThread(s, sched.queue[u], u)
    BY <1>3 DEF StopThread, InUser, Running
  <2>2. s \in SchedType /\ sched.queue[u] \in Lists \cup {NoList}
    BY <1>0, StateType DEF SchedType, States
  <2>3. sched' \in SchedType
    <3> HIDE DEF s
    <3> QED BY <2>1, <2>2, DispatchThreadType, DequeueThreadType
  <2> QED BY <1>0, <2>1, <2>3, ThreadCallFrame
<1>4. ASSUME NEW u \in Threads, NEW p \in Prios, SetThreadPri(t, u, p)
      PROVE  TypeInv'
  <2> DEFINE s == [sched EXCEPT !.priority[u] = p]
  <2>1. /\ ~exc /\ UNCHANGED << active, call, nmiOff, threadRest >>
        /\ sched.running = t /\ sched' = YieldIfLower(Requeue(s, u))
    BY <1>4 DEF SetThreadPri, InUser, Running
  <2>2. p \in Priorities
    BY KernelAssumption DEF Priorities
  <2>3. s \in SchedType /\ s.running = t /\ s.queue[u] \in Lists \cup {NoList}
    BY <1>0, <2>1, <2>2 DEF SchedType
  <2> HIDE DEF s
  <2>4. /\ DequeueThread(s, s.queue[u], u) \in SchedType
        /\ DequeueThread(s, s.queue[u], u).running = t
    BY <2>3, DequeueThreadType
  <2>5. Requeue(s, u) \in SchedType /\ Requeue(s, u).running = t
    BY <2>3, <2>4, EnqueueThreadType DEF Requeue
  <2>6. sched' \in SchedType
    BY <2>1, <2>5, YieldIfLowerType
  <2> QED BY <1>0, <2>1, <2>6, ThreadCallFrame
<1>5. ASSUME NEW u \in Threads, DestroyThread(t, u)
      PROVE  TypeInv'
  <2>1. /\ ~exc /\ UNCHANGED << nmiOff, threadRest >>
        /\ active' = active \ {u} /\ call' = [call EXCEPT ![u] = User]
        /\ \/ sched' = DispatchThread(sched)
           \/ sched' = DequeueThread(sched, sched.queue[u], u)
           \/ sched' = sched
    BY <1>5 DEF DestroyThread, InUser, Running
  <2>2. sched.queue[u] \in Lists \cup {NoList}
    BY <1>0 DEF SchedType
  <2>3. sched' \in SchedType
    BY <1>0, <2>1, <2>2, DispatchThreadType, DequeueThreadType
  <2>4. call' \in [Threads -> CallType]
    BY <1>0, <2>1
  <2> QED BY <1>0, <2>1, <2>3, <2>4, ThreadCallFrame
<1>6. ASSUME YieldThread(t)
      PROVE  TypeInv'
  <2> DEFINE s == [sched EXCEPT !.state[t] = "RUNNABLE"]
  <2>1. /\ ~exc /\ UNCHANGED << active, call, nmiOff, threadRest >>
        /\ sched.running = t /\ sched' = EnqueueAndYield(s, RunQ)
    BY <1>6 DEF YieldThread, InUser, Running
  <2>2. s \in SchedType /\ s.running = t
    BY <1>0, <2>1, StateType DEF States
  <2>3. sched' \in SchedType
    <3> HIDE DEF s
    <3> QED BY <2>1, <2>2, ListsDistinct, EnqueueAndYieldType
  <2> QED BY <1>0, <2>1, <2>3, ThreadCallFrame
<1> QED BY <1>1, <1>2, <1>3, <1>4, <1>5, <1>6 DEF ThreadCall

(* Registering for an event, with the PRENMI message it may send. *)
LEMMA CountNMIType == ASSUME TypeInv PROVE CountNMI \in 0..NmiSentMax
BY DEF CountNMI, NmiSentMax, TypeInv, TypeOK

LEMMA EventTypeStep ==
  ASSUME TypeInv, NEW t \in Threads, EventCall(t) \/ ResumeSetEvent(t)
  PROVE  TypeInv'
<1>0. /\ sched \in SchedType /\ DOMAIN ring = Queues
      /\ \A q \in Queues : ring[q] \in RingType(q)
      /\ call \in [Threads -> CallType]
      /\ User \in CallType /\ Pending("nmi", NoQueue, NoMsg) \in CallType
  BY DEF TypeInv, TypeOK, CallType
<1>1. ASSUME NEW e \in RegEvents, NEW q \in Queues, SetEventMesg(t, e, q)
      PROVE  TypeInv'
  <2>1. /\ ~exc /\ sched.running = t
        /\ evtab' = [evtab EXCEPT ![e] = q]
        /\ UNCHANGED << active, exc, pend, shutdown, nmiOff >>
    BY <1>1 DEF SetEventMesg, InUser, Running
  <2>2. evtab' \in [Events -> Queues \cup {NoQueue}]
    BY <2>1 DEF TypeInv, TypeOK
  <2>3. CASE SendsNMI(e) /\ ~IsFull(q)
    <3>1. /\ ring' = [ring EXCEPT ![q] = PutLast(@, Capacity[q], EventMsg)]
          /\ sched' = WakeFirst(sched, MtQ(q))
          /\ nmiSent' = CountNMI /\ nmiLost' = nmiLost
          /\ \/ preNMI' = TRUE /\ call' = call
             \/ /\ preNMI' = FALSE
                /\ call' = [call EXCEPT ![t] = Pending("nmi", NoQueue, NoMsg)]
      BY <1>1, <2>3 DEF SetEventMesg
    <3>2. PutLast(ring[q], Capacity[q], EventMsg) \in RingType(q)
      BY <1>0, <2>3, PutType DEF IsFull, AllMsgs
    <3>3. DOMAIN ring' = Queues /\ \A p \in Queues : (ring[p] \in RingType(p))'
      BY <1>0, <3>1, <3>2 DEF RingType
    <3>4. sched' \in SchedType
      BY <1>0, <2>1, <3>1, ListsDistinct, WakeFirstType
    <3>5. call' \in [Threads -> CallType] /\ preNMI' \in BOOLEAN
      BY <1>0, <3>1
    <3>6. nmiSent' \in 0..NmiSentMax /\ nmiLost' \in BOOLEAN
      BY <3>1, CountNMIType DEF TypeInv, TypeOK
    <3> QED BY <2>1, <2>2, <3>3, <3>4, <3>5, <3>6
            DEF TypeInv, TypeOK, InterruptedThread
  <2>4. CASE ~ (SendsNMI(e) /\ ~IsFull(q))
    <3>1. /\ preNMI' = (preNMI \/ e = "PRENMI")
          /\ nmiLost' = (nmiLost \/ SendsNMI(e))
          /\ UNCHANGED << ring, sched, call, nmiSent >>
      BY <1>1, <2>4 DEF SetEventMesg
    <3>2. preNMI' \in BOOLEAN /\ nmiLost' \in BOOLEAN
      BY Zenon, <3>1
    <3>3. \A p \in Queues : (ring[p] \in RingType(p))'
      BY <1>0, <3>1 DEF RingType
    <3> QED BY <2>1, <2>2, <3>1, <3>2, <3>3 DEF TypeInv, TypeOK, InterruptedThread
  <2> QED BY <2>3, <2>4
<1>2. ASSUME ResumeSetEvent(t)
      PROVE  TypeInv'
  <2>1. /\ ~exc /\ preNMI' = TRUE /\ call' = [call EXCEPT ![t] = User]
        /\ UNCHANGED << sched, active, ring, evtab, exc, pend, shutdown, nmiOff,
                        nmiSent, nmiLost >>
    BY <1>2 DEF ResumeSetEvent, Running, Return
  <2>2. call' \in [Threads -> CallType]
    BY <1>0, <2>1
  <2>3. \A p \in Queues : (ring[p] \in RingType(p))'
    BY <1>0, <2>1 DEF RingType
  <2> QED BY <2>1, <2>2, <2>3 DEF TypeInv, TypeOK, InterruptedThread
<1> QED BY <1>1, <1>2 DEF EventCall

(* The steps of an exception keep the interrupted thread; only the return from
   it dispatches. *)
LEMMA HandlerFrame ==
  ASSUME TypeInv, NEW e \in Events,
         ring' = PostRing(e), UNCHANGED << active, call, evtab >>,
         sched' \in SchedType, exc' => sched'.running \in Threads,
         exc' \in BOOLEAN, pend' \subseteq Events,
         shutdown' \in BOOLEAN /\ preNMI' \in BOOLEAN,
         nmiOff' \subseteq Threads \cup {ThreadTail},
         nmiSent' \in 0..NmiSentMax /\ nmiLost' \in BOOLEAN
  PROVE  TypeInv'
<1>1. sched \in SchedType
  BY DEF TypeInv, TypeOK
<1>2. DOMAIN ring' = Queues /\ \A q \in Queues : (ring[q] \in RingType(q))'
  BY <1>1, PostType DEF RingType
<1> QED BY <1>2 DEF TypeInv, TypeOK, InterruptedThread

LEMMA IdleFrame ==
  ASSUME TypeInv, UNCHANGED << sched, active, call, ring, evtab >>,
         exc' \in BOOLEAN, exc' => exc, pend' \subseteq pend,
         UNCHANGED << shutdown, preNMI, nmiSent, nmiLost >>,
         nmiOff' \subseteq nmiOff \cup {sched.running} /\ exc
  PROVE  TypeInv'
<1>1. \A q \in Queues : (ring[q] \in RingType(q))'
  BY DEF RingType, TypeInv, TypeOK
<1> QED BY <1>1 DEF TypeInv, TypeOK, InterruptedThread

LEMMA HandlerTypeStep ==
  ASSUME TypeInv, Handler
  PROVE  TypeInv'
<1>0. /\ sched \in SchedType /\ pend \subseteq Events /\ exc \in BOOLEAN
      /\ exc => sched.running \in Threads
      /\ shutdown \in BOOLEAN /\ preNMI \in BOOLEAN /\ nmiLost \in BOOLEAN
      /\ nmiSent \in 0..NmiSentMax /\ nmiOff \subseteq Threads \cup {ThreadTail}
      /\ \A q \in Queues : ring[q] \in RingType(q)
  BY DEF TypeInv, TypeOK, InterruptedThread
<1>1. ASSUME NEW e \in HwEvents, ServeCause(e)
      PROVE  TypeInv'
  <2>1. /\ exc /\ e \in Events /\ ring' = PostRing(e) /\ pend' = pend \ {e}
        /\ sched' = PostSched(sched, e)
        /\ UNCHANGED << active, call, evtab, exc, shutdown, preNMI, nmiOff,
                        nmiSent, nmiLost >>
    BY <1>1, KernelAssumption DEF ServeCause, IsNext
  <2>2. sched' \in SchedType /\ sched'.running \in Threads
    BY <1>0, <2>1, PostType
  <2> QED BY <1>0, <2>1, <2>2, HandlerFrame
<1>2. CASE PiCallback
  <2>1. /\ exc /\ pend' \subseteq pend
        /\ UNCHANGED << sched, active, call, ring, evtab, exc, shutdown, preNMI,
                        nmiOff, nmiSent, nmiLost >>
    BY <1>2 DEF PiCallback, IsNext
  <2> QED BY <1>0, <2>1, IdleFrame
<1>3. CASE CartCallback
  <2>1. /\ exc /\ pend' \subseteq pend
        /\ UNCHANGED << sched, active, call, ring, evtab, exc, shutdown, preNMI,
                        nmiOff, nmiSent, nmiLost >>
    BY <1>3 DEF CartCallback, IsNext
  <2> QED BY <1>0, <2>1, IdleFrame
<1>4. CASE FirstPreNMI
  <2>1. /\ exc /\ shutdown' = TRUE /\ pend' = {}
        /\ ring' = PostRing("PRENMI") /\ sched' = PostSched(sched, "PRENMI")
        /\ nmiSent' = IF Posts("PRENMI") THEN CountNMI ELSE nmiSent
        /\ nmiLost' = (nmiLost \/ (evtab["PRENMI"] # NoQueue /\ ~Posts("PRENMI")))
        /\ nmiOff' = nmiOff \cup {sched.running, FirstReady(sched')}
        /\ UNCHANGED << active, call, evtab, exc, preNMI >>
    BY <1>4 DEF FirstPreNMI, IsNext
  <2>2. "PRENMI" \in Events
    <3>1. HwOrder[2] = "PRENMI" /\ 2 \in 1..Len(HwOrder)
      BY DEF HwOrder
    <3> QED BY <3>1 DEF Events
  <2>3. sched' \in SchedType /\ sched'.running \in Threads
    BY <1>0, <2>1, <2>2, PostType
  <2>4. nmiLost' \in BOOLEAN
    BY Zenon, <2>1
  <2>5. nmiSent' \in 0..NmiSentMax
    BY <1>0, <2>1, CountNMIType
  <2>6. FirstReady(sched') \in Threads \cup {ThreadTail}
    <3>1. sched'.list[RunQ] \in Seq(Threads)
      BY <2>3, ListsDistinct DEF SchedType
    <3> QED BY <3>1, HeadTailProperties DEF FirstReady
  <2>7. nmiOff' \subseteq Threads \cup {ThreadTail}
    BY <1>0, <2>1, <2>6
  <2> QED BY <1>0, <2>1, <2>2, <2>3, <2>4, <2>5, <2>7, HandlerFrame
<1>5. CASE LaterPreNMI
  <2>1. /\ exc /\ pend' \subseteq pend /\ nmiOff' = nmiOff \cup {sched.running}
        /\ UNCHANGED << sched, active, call, ring, evtab, exc, shutdown, preNMI,
                        nmiSent, nmiLost >>
    BY <1>5 DEF LaterPreNMI, IsNext
  <2> QED BY <1>0, <2>1, IdleFrame
<1>6. CASE ReturnFromException
  <2>1. /\ exc /\ exc' = FALSE /\ sched' = Redispatch(sched)
        /\ UNCHANGED << active, call, ring, evtab, pend, shutdown, preNMI, nmiOff,
                        nmiSent, nmiLost >>
    BY <1>6 DEF ReturnFromException
  <2>2. sched' \in SchedType
    BY <1>0, <2>1, RedispatchType
  <2>3. \A q \in Queues : (ring[q] \in RingType(q))'
    BY <1>0, <2>1 DEF RingType
  <2> QED BY <2>1, <2>2, <2>3 DEF TypeInv, TypeOK, InterruptedThread
<1> QED BY <1>1, <1>2, <1>3, <1>4, <1>5, <1>6 DEF Handler

(* Taking an interrupt, and the exceptions that are no interrupt. *)
LEMMA ExceptionTypeStep ==
  ASSUME TypeInv,
         \/ \E S \in SUBSET HwEvents : Exception(S)
         \/ \E t \in Threads : Fault(t) \/ Break(t)
  PROVE  TypeInv'
<1>0. sched \in SchedType /\ \A q \in Queues : ring[q] \in RingType(q)
  BY DEF TypeInv, TypeOK
<1>1. ASSUME NEW S \in SUBSET HwEvents, Exception(S)
      PROVE  TypeInv'
  <2>1. /\ sched.running \in Threads /\ exc' = TRUE /\ pend' = S
        /\ sched' = [sched EXCEPT !.state[sched.running] = "RUNNABLE"]
        /\ UNCHANGED << active, call, ring, evtab, shutdown, preNMI, nmiOff,
                        nmiSent, nmiLost >>
    BY <1>1 DEF Exception
  <2>2. sched' \in SchedType /\ sched'.running = sched.running
    BY <1>0, <2>1, StateType DEF States
  <2>3. \A q \in Queues : (ring[q] \in RingType(q))'
    BY <1>0, <2>1 DEF RingType
  <2>4. pend' \subseteq Events
    BY <2>1, KernelAssumption
  <2> QED BY <2>1, <2>2, <2>3, <2>4 DEF TypeInv, TypeOK, InterruptedThread
<1>2. ASSUME NEW t \in Threads, Fault(t)
      PROVE  TypeInv'
  <2> DEFINE s == [sched EXCEPT !.state[t] = "STOPPED"]
  <2>1. /\ ~exc /\ "FAULT" \in Events /\ ring' = PostRing("FAULT")
        /\ sched' = DispatchThread(PostSched(s, "FAULT"))
        /\ UNCHANGED << active, call, evtab, exc, pend, shutdown, preNMI, nmiOff,
                        nmiSent, nmiLost >>
    BY <1>2 DEF Fault, InUser, Running, Events
  <2>2. s \in SchedType
    BY <1>0, StateType DEF States
  <2>3. sched' \in SchedType
    <3> HIDE DEF s
    <3> QED BY <2>1, <2>2, PostType, DispatchThreadType
  <2> QED BY <2>1, <2>3, HandlerFrame DEF TypeInv, TypeOK
<1>3. ASSUME NEW t \in Threads, Break(t)
      PROVE  TypeInv'
  <2> DEFINE s == [sched EXCEPT !.state[t] = "RUNNABLE"]
  <2>1. /\ ~exc /\ sched.running = t
        /\ "CPU_BREAK" \in Events /\ ring' = PostRing("CPU_BREAK")
        /\ sched' = Redispatch(PostSched(s, "CPU_BREAK"))
        /\ UNCHANGED << active, call, evtab, exc, pend, shutdown, preNMI, nmiOff,
                        nmiSent, nmiLost >>
    BY <1>3 DEF Break, InUser, Running, Events
  <2>2. s \in SchedType /\ s.running = t
    BY <1>0, <2>1, StateType DEF States
  <2>3. sched' \in SchedType
    <3> HIDE DEF s
    <3> QED BY <2>1, <2>2, PostType, RedispatchType
  <2> QED BY <2>1, <2>3, HandlerFrame DEF TypeInv, TypeOK
<1> QED BY <1>1, <1>2, <1>3

LEMMA TypeStep == TypeInv /\ [Next]_vars => TypeInv'
<1> SUFFICES ASSUME TypeInv, [Next]_vars PROVE TypeInv'
  OBVIOUS
<1>1. CASE Boot
  <2>1. /\ sched.running = NoThread /\ sched' = StartThread(sched, Idle)
        /\ UNCHANGED << active, call, nmiOff, threadRest >>
    BY <1>1 DEF Boot
  <2>2. sched \in SchedType /\ sched' \in SchedType
    BY <2>1, KernelAssumption, StartThreadType DEF TypeInv, TypeOK
  <2>3. ~exc
    BY <2>1, DistinctAssumption DEF TypeInv, InterruptedThread
  <2> QED BY <2>1, <2>2, <2>3, ThreadCallFrame DEF TypeInv, TypeOK
<1>2. ASSUME NEW t \in Threads,
             MesgCall(t) \/ ThreadCall(t) \/ EventCall(t) \/ Resume(t)
               \/ Fault(t) \/ Break(t)
      PROVE  TypeInv'
  BY <1>2, MesgTypeStep, ThreadCallTypeStep, EventTypeStep, ExceptionTypeStep
     DEF Resume
<1>3. CASE \E S \in SUBSET HwEvents : Exception(S)
  BY <1>3, ExceptionTypeStep
<1>4. CASE Handler
  BY <1>4, HandlerTypeStep
<1>5. CASE UNCHANGED vars
  <2>1. \A q \in Queues : (ring[q] \in RingType(q))'
    BY <1>5 DEF vars, RingType, TypeInv, TypeOK
  <2> QED BY <1>5, <2>1 DEF vars, TypeInv, TypeOK, InterruptedThread
<1> QED BY <1>1, <1>2, <1>3, <1>4, <1>5 DEF Next

(* Every reachable state is well typed: thread states, queue pointers, list
   contents, ring indices and pending calls stay in their ranges through every
   call, yield and exception. *)
THEOREM TypeCorrect == Spec => []TypeOK
<1>1. TypeInv => TypeOK
  BY DEF TypeInv
<1> QED BY <1>1, TypeInit, TypeStep, PTL DEF Spec
==============================================================================
