------------------------- MODULE OSKernelSafetyProofs -------------------------
(***************************************************************************)
(* Scheduling in OSKernel is right for any number of threads and queues:   *)
(* every thread is where its state says, the most urgent ready thread      *)
(* runs, threads of equal priority take turns, and the sentinel of the     *)
(* lists is never dispatched.  Its message queues implement MesgBox, and   *)
(* no wake-up is lost, for any capacities and messages.                    *)
(***************************************************************************)
EXTENDS OSKernelProofs, FiniteSetTheorems

(* The threads A exist and one of them has the processor; the others are linked
   unless they are stopped.  The idle thread is never stopped nor waits for a
   message, so that the run queue is never empty when it is popped. *)
Booted(s, A) ==
  /\ Consistent(s)
  /\ s.running \in A
  /\ On(s) = {t \in A : t # s.running /\ s.state[t] # "STOPPED"}
  /\ s.queue[s.running] = RunQ
  /\ Idle \in A /\ s.state[Idle] # "STOPPED" /\ s.queue[Idle] = RunQ

Executing(s, A) ==
  Booted(s, A) /\ \A t \in A : s.state[t] = "RUNNING" <=> t = s.running

(* The running thread is about to be linked: it gives way, waits, or was
   interrupted. *)
Leaving(s, A) ==
  /\ Booted(s, A) /\ s.state[s.running] \in {"RUNNABLE", "WAITING"}
  /\ \A t \in A : s.state[t] # "RUNNING"

(* The exception handler works for the thread it interrupted. *)
Interrupted(s, A) == Leaving(s, A) /\ s.state[s.running] = "RUNNABLE"

(* No ready thread is more urgent than the running one. *)
Settled(s, A) == Executing(s, A) /\ MostUrgentIs(s, s.running)

(* The thread u is about to be made ready, and linked nowhere. *)
Waking(s, A, u) ==
  /\ Consistent(s)
  /\ s.running \in A /\ s.queue[s.running] = RunQ
  /\ Idle \in A /\ s.state[Idle] # "STOPPED" /\ s.queue[Idle] = RunQ
  /\ u \in A /\ u # s.running /\ s.state[u] \in {"STOPPED", "WAITING"}
  /\ On(s) = {t \in A \ {u} : t # s.running /\ s.state[t] # "STOPPED"}
  /\ \A t \in A : s.state[t] = "RUNNING" <=> t = s.running

------------------------------------------------------------------------------
(* Dispatching when every thread that is not stopped is linked. *)
LEMMA DispatchSettles ==
  ASSUME NEW A \in SUBSET Threads, NEW s, Consistent(s),
         On(s) = {t \in A : s.state[t] # "STOPPED"},
         \A t \in A : s.state[t] # "RUNNING",
         Idle \in A, s.state[Idle] # "STOPPED", s.queue[Idle] = RunQ
  PROVE  /\ Settled(DispatchThread(s), A)
         /\ DispatchThread(s).queue = s.queue
<1> DEFINE r == DispatchThread(s)
<1>1. Idle \in Threads /\ Ready(s, Idle)
  BY DEF Ready
<1>2. /\ Consistent(r) /\ On(r) = On(s) \ {r.running}
      /\ r.running \in Threads /\ Ready(s, r.running) /\ MostUrgentIs(r, r.running)
      /\ r.queue = s.queue /\ r.state = [s.state EXCEPT ![r.running] = "RUNNING"]
  BY <1>1, DispatchRuns
<1> HIDE DEF r
<1>3. s.state \in [Threads -> States]
  BY DEF Consistent, SchedType
<1>4. r.running \in A /\ r.queue[r.running] = RunQ
  BY <1>2 DEF Ready
<1>5. \A t \in A : r.state[t] = IF t = r.running THEN "RUNNING" ELSE s.state[t]
  BY <1>2, <1>3
<1>6. On(r) = {t \in A : t # r.running /\ r.state[t] # "STOPPED"}
  BY <1>2, <1>5
<1>7. Executing(r, A)
  BY <1>2, <1>4, <1>5, <1>6 DEF Executing, Booted
<1> QED BY <1>2, <1>7 DEF Settled, r

(* The running thread changes state before it is linked. *)
LEMMA LeavingState ==
  ASSUME NEW A \in SUBSET Threads, NEW s, Executing(s, A),
         NEW x \in {"RUNNABLE", "WAITING"}
  PROVE  LET w == [s EXCEPT !.state[s.running] = x]
         IN /\ Leaving(w, A) /\ w.state[w.running] = x
            /\ w.running = s.running /\ w.queue = s.queue
<1> DEFINE w == [s EXCEPT !.state[s.running] = x]
<1>1. /\ Consistent(s) /\ s.running \in A /\ s.running \in Threads /\ s.running \notin On(s)
      /\ s.queue[s.running] = RunQ
      /\ On(s) = {u \in A : u # s.running /\ s.state[u] # "STOPPED"}
      /\ Idle \in A /\ s.state[Idle] # "STOPPED" /\ s.queue[Idle] = RunQ
      /\ \A u \in A : s.state[u] = "RUNNING" <=> u = s.running
  BY DEF Executing, Booted
<1>2. s \in SchedType /\ x \in States
  BY <1>1 DEF Consistent, States
<1>3. /\ w \in SchedType /\ w.list = s.list /\ w.queue = s.queue
      /\ w.running = s.running /\ w.priority = s.priority
      /\ \A u \in Threads : w.state[u] = IF u = s.running THEN x ELSE s.state[u]
  BY <1>1, <1>2 DEF SchedType
<1> HIDE DEF w
<1>4. Consistent(w) /\ On(w) = On(s)
  <2> DEFINE t == s.running
  <2>1. \A u \in Threads \ {t} : /\ w.state[u] = s.state[u] /\ w.queue[u] = s.queue[u]
                                  /\ w.priority[u] = s.priority[u]
    BY <1>3
  <2>2. t \in Threads /\ t \notin On(s) /\ Consistent(s) /\ w \in SchedType /\ w.list = s.list
    BY <1>1, <1>3
  <2> HIDE DEF t
  <2> QED BY <2>1, <2>2, UnlinkedChanges
<1>5. Leaving(w, A) /\ w.state[w.running] = x
  BY <1>1, <1>3, <1>4 DEF Leaving, Booted
<1> QED BY <1>3, <1>5 DEF w

(* Ceasing to run, for a message or for a more urgent thread. *)
LEMMA YieldSettles ==
  ASSUME NEW A \in SUBSET Threads, NEW w, Leaving(w, A), NEW lst \in Lists,
         lst # RunQ => w.state[w.running] = "WAITING" /\ w.running # Idle
  PROVE  /\ Settled(EnqueueAndYield(w, lst), A)
         /\ EnqueueAndYield(w, lst).queue = [w.queue EXCEPT ![w.running] = lst]
<1> DEFINE t == w.running
           e == EnqueueThread(w, lst, t)
<1>1. /\ Consistent(w) /\ t \in A /\ t \in Threads /\ t \notin On(w)
      /\ On(w) = {u \in A : u # t /\ w.state[u] # "STOPPED"}
      /\ Idle \in A /\ w.state[Idle] # "STOPPED" /\ w.queue[Idle] = RunQ
      /\ w.state[t] \in {"RUNNABLE", "WAITING"}
      /\ \A u \in A : w.state[u] # "RUNNING"
  BY DEF Leaving, Booted
<1>2. lst # RunQ => w.state[t] = "WAITING" /\ t # Idle
  OBVIOUS
<1>3. w \in SchedType
  BY <1>1 DEF Consistent
<1>4. EnqueueAndYield(w, lst) = DispatchThread(e)
  BY DEF EnqueueAndYield
<1> HIDE DEF t
<1>5. /\ Consistent(e) /\ On(e) = On(w) \cup {t}
      /\ e.queue = [w.queue EXCEPT ![t] = lst] /\ e.state = w.state
  BY <1>1, <1>2, EnqueueLinks
<1> HIDE DEF e
<1>6. On(e) = {u \in A : e.state[u] # "STOPPED"}
  BY <1>1, <1>5
<1>7. \A u \in A : e.state[u] # "RUNNING"
  BY <1>1, <1>5
<1>8. e.state[Idle] # "STOPPED" /\ e.queue[Idle] = RunQ
  <2>1. w.queue \in [Threads -> Lists \cup {NoList}]
    BY <1>3 DEF SchedType
  <2> QED BY <2>1, <1>1, <1>2, <1>5
<1>9. Settled(DispatchThread(e), A) /\ DispatchThread(e).queue = e.queue
  BY <1>1, <1>5, <1>6, <1>7, <1>8, DispatchSettles
<1> QED BY <1>4, <1>5, <1>9 DEF t

(* Back to the run queue. *)
LEMMA RequeueSettles ==
  ASSUME NEW A \in SUBSET Threads, NEW w, Leaving(w, A)
  PROVE  /\ Settled(EnqueueAndYield(w, RunQ), A)
         /\ EnqueueAndYield(w, RunQ).queue = w.queue
<1>1. /\ Settled(EnqueueAndYield(w, RunQ), A)
      /\ EnqueueAndYield(w, RunQ).queue = [w.queue EXCEPT ![w.running] = RunQ]
  BY YieldSettles, ListsDistinct
<1>2. [w.queue EXCEPT ![w.running] = RunQ] = w.queue
  <2>1. w.queue \in [Threads -> Lists \cup {NoList}] /\ w.queue[w.running] = RunQ
    BY DEF Leaving, Booted, Consistent, SchedType
  <2> QED BY <2>1
<1> QED BY <1>1, <1>2

(* The comparison that every call ends with. *)
LEMMA YieldIfLowerSettles ==
  ASSUME NEW A \in SUBSET Threads, NEW s, Executing(s, A)
  PROVE  Settled(YieldIfLower(s), A) /\ YieldIfLower(s).queue = s.queue
<1>1. /\ Consistent(s) /\ s \in SchedType /\ s.running \in A /\ s.running \in Threads
  BY DEF Executing, Booted, Consistent
<1>2. s.priority[s.running] \in Priorities /\ s.priority[s.running] \in Int
  BY <1>1, PriorityInt DEF SchedType
<1>3. CASE s.priority[s.running] < HeadPriority(s)
  <2> DEFINE w == [s EXCEPT !.state[s.running] = "RUNNABLE"]
  <2>1. Leaving(w, A) /\ w.queue = s.queue
    BY LeavingState
  <2>2. YieldIfLower(s) = EnqueueAndYield(w, RunQ)
    BY <1>3 DEF YieldIfLower
  <2> HIDE DEF w
  <2> QED BY <2>1, <2>2, RequeueSettles
<1>4. CASE ~ (s.priority[s.running] < HeadPriority(s))
  <2>1. HeadPriority(s) \in Int
    BY <1>1, HeadPriorityBounds
  <2>2. HeadPriority(s) <= s.priority[s.running]
    BY <1>2, <1>4, <2>1
  <2>3. MostUrgentIs(s, s.running)
    BY <1>1, <1>2, <2>2, HeadPriorityBounds DEF MostUrgentIs
  <2> QED BY <1>4, <2>3 DEF YieldIfLower, Settled
<1> QED BY <1>3, <1>4

(* Making a thread ready: the comparison is still to come. *)
LEMMA ReadyExecutes ==
  ASSUME NEW A \in SUBSET Threads, NEW s, NEW u, Waking(s, A, u)
  PROVE  LET r == MakeReady(s, u)
         IN /\ Executing(r, A) /\ OnlyToRunQ(s, r)
            /\ r.running = s.running /\ r.priority = s.priority
            /\ StartThread(s, u) = YieldIfLower(r)
<1> DEFINE r == MakeReady(s, u)
<1>1. /\ Consistent(s) /\ u \in Threads /\ u \notin On(s) /\ u \in A
      /\ s.running \in A /\ s.running \in Threads /\ u # s.running
      /\ On(s) = {t \in A \ {u} : t # s.running /\ s.state[t] # "STOPPED"}
      /\ s.state[u] \in {"STOPPED", "WAITING"}
  BY DEF Waking
<1>2. /\ Consistent(r) /\ On(r) = On(s) \cup {u}
      /\ r.running = s.running /\ r.priority = s.priority
      /\ \E x \in {"RUNNABLE", "WAITING"} : r.state = [s.state EXCEPT ![u] = x]
      /\ OnlyToRunQ(s, r)
  BY <1>1, MakeReadyLinks
<1> HIDE DEF r
<1>3. PICK x \in {"RUNNABLE", "WAITING"} :
        \A t \in Threads : r.state[t] = IF t = u THEN x ELSE s.state[t]
  <2>1. s.state \in [Threads -> States]
    BY <1>1 DEF Consistent, SchedType
  <2> QED BY <1>2, <2>1
<1>4. Executing(r, A)
  <2>1. r.queue[r.running] = RunQ /\ r.queue[Idle] = RunQ
    BY <1>1, <1>2 DEF Waking, OnlyToRunQ
  <2>2. On(r) = {t \in A : t # r.running /\ r.state[t] # "STOPPED"}
    BY <1>1, <1>2, <1>3
  <2>3. \A t \in A : r.state[t] = "RUNNING" <=> t = r.running
    BY <1>1, <1>2, <1>3 DEF Waking
  <2>4. Idle \in A /\ r.state[Idle] # "STOPPED"
    BY <1>1, <1>3 DEF Waking
  <2> QED BY <1>1, <1>2, <2>1, <2>2, <2>3, <2>4 DEF Executing, Booted
<1>5. StartThread(s, u) = YieldIfLower(r)
  BY <1>1, <1>2, DistinctAssumption DEF StartThread, r
<1> QED BY <1>2, <1>4, <1>5 DEF r

(* Making a thread ready, then comparing. *)
LEMMA StartSettles ==
  ASSUME NEW A \in SUBSET Threads, NEW s, NEW u, Waking(s, A, u)
  PROVE  Settled(StartThread(s, u), A) /\ OnlyToRunQ(s, StartThread(s, u))
<1> DEFINE r == MakeReady(s, u)
<1>1. /\ Executing(r, A) /\ OnlyToRunQ(s, r)
      /\ StartThread(s, u) = YieldIfLower(r)
  BY ReadyExecutes
<1> HIDE DEF r
<1>2. Settled(YieldIfLower(r), A) /\ YieldIfLower(r).queue = r.queue
  BY <1>1, YieldIfLowerSettles
<1> QED BY <1>1, <1>2 DEF OnlyToRunQ

(* The wake-up in a message call. *)
LEMMA WakeSettles ==
  ASSUME NEW A \in SUBSET Threads, NEW s, Settled(s, A), NEW lst \in Lists, lst # RunQ
  PROVE  Settled(WakeFirst(s, lst), A) /\ OnlyToRunQ(s, WakeFirst(s, lst))
<1>1. CASE s.list[lst] = <<>>
  BY <1>1 DEF WakeFirst, OnlyToRunQ
<1>2. CASE s.list[lst] # <<>>
  <2> DEFINE h == Head(s.list[lst])
             p == PopThread(s, lst)
  <2>0. Consistent(s) /\ Booted(s, A) /\ Executing(s, A)
    BY DEF Settled, Executing, Booted
  <2>1. /\ Consistent(p) /\ On(p) = On(s) \ {h}
        /\ h \in On(s) /\ s.queue[h] = lst /\ p.queue = s.queue
        /\ p.running = s.running /\ p.state = s.state
    BY <1>2, <2>0, PopLinks
  <2>2. WakeFirst(s, lst) = StartThread(p, h)
    BY <1>2 DEF WakeFirst
  <2> HIDE DEF p, h
  <2>3. Fits(s, h, lst)
    BY <2>0, <2>1, OnInLists
  <2>4. h \in A /\ h # s.running /\ s.state[h] = "WAITING"
    BY <2>0, <2>1, <2>3 DEF Booted, Fits
  <2>5. On(p) = {t \in A \ {h} : t # s.running /\ s.state[t] # "STOPPED"}
    BY <2>0, <2>1 DEF Booted
  <2>6. Waking(p, A, h)
    BY <2>0, <2>1, <2>4, <2>5 DEF Waking, Executing, Booted
  <2>7. Settled(StartThread(p, h), A) /\ OnlyToRunQ(p, StartThread(p, h))
    BY <2>6, StartSettles
  <2> QED BY <2>1, <2>2, <2>7 DEF OnlyToRunQ
<1> QED BY <1>1, <1>2

(* The return from an exception: the interrupted thread is linked in front of the
   run queue, or by its priority when a more urgent thread is ready. *)
LEMMA RedispatchSettles ==
  ASSUME NEW A \in SUBSET Threads, NEW s, Interrupted(s, A)
  PROVE  Settled(Redispatch(s), A) /\ Redispatch(s).queue = s.queue
<1> DEFINE t == s.running
<1>1. /\ Consistent(s) /\ s \in SchedType /\ t \in A /\ t \in Threads /\ t \notin On(s)
      /\ s.queue[t] = RunQ /\ s.state[t] = "RUNNABLE"
      /\ On(s) = {u \in A : u # t /\ s.state[u] # "STOPPED"}
      /\ Idle \in A /\ s.state[Idle] # "STOPPED" /\ s.queue[Idle] = RunQ
      /\ \A u \in A : s.state[u] # "RUNNING"
  BY DEF Interrupted, Leaving, Booted, Consistent
<1>2. s.priority[t] \in Priorities /\ s.priority[t] \in Int
  BY <1>1, PriorityInt DEF SchedType
<1>3. CASE ~ (s.priority[t] >= HeadPriority(s))
  <2>1. Redispatch(s) = EnqueueAndYield(s, RunQ)
    BY <1>3 DEF Redispatch, EnqueueAndYield
  <2> QED BY <2>1, RequeueSettles DEF Interrupted
<1>4. CASE s.priority[t] >= HeadPriority(s)
  <2> DEFINE m == <<t>> \o s.list[RunQ]
             r == [s EXCEPT !.list[RunQ] = m]
  <2>1. Redispatch(s) = DispatchThread(r)
    BY <1>4 DEF Redispatch
  <2> HIDE DEF t
  <2>2. /\ s.list[RunQ] \in Seq(Threads) /\ s.priority \in [Threads -> Priorities]
        /\ Ordered(s.list[RunQ], s.priority)
    BY <1>1, ListsDistinct DEF Consistent, SchedType
  <2>3. \A u \in Threads : IsIn(u, s.list[RunQ]) <=> u \in On(s) /\ s.queue[u] = RunQ
    BY <1>1, Membership, ListsDistinct
  <2>4. \A u \in Threads : IsIn(u, s.list[RunQ]) => s.priority[u] <= s.priority[t]
    <3>1. HeadPriority(s) \in Int
      BY <1>1, HeadPriorityBounds
    <3>2. HeadPriority(s) <= s.priority[t]
      BY <1>2, <1>4, <3>1 DEF t
    <3> QED BY <1>1, <1>2, <2>3, <3>2, HeadPriorityBounds DEF Ready
  <2>5. ~ IsIn(t, s.list[RunQ])
    BY <1>1, <2>3
  <2>6. /\ m \in Seq(Threads) /\ Ordered(m, s.priority)
        /\ \A u : IsIn(u, m) <=> IsIn(u, s.list[RunQ]) \/ u = t
    <3>1. t \in Threads
      BY <1>1
    <3> QED BY <3>1, <2>2, <2>4, <2>5, OrderedFront
  <2> HIDE DEF m
  <2>7. /\ r \in SchedType /\ r.running = s.running /\ r.queue = s.queue
        /\ r.state = s.state /\ r.priority = s.priority
        /\ \A l \in Lists : r.list[l] = IF l = RunQ THEN m ELSE s.list[l]
    BY <1>1, <2>6, ListsDistinct DEF SchedType
  <2> HIDE DEF r
  <2>8. Consistent(r) /\ On(r) = On(s) \cup {t}
    <3>1. \A l \in Lists : Ordered(r.list[l], r.priority)
      BY <1>1, <2>6, <2>7 DEF Consistent
    <3>2. ASSUME NEW l \in Lists, NEW u \in Threads
          PROVE  IsIn(u, r.list[l]) <=> u \in On(s) \cup {t} /\ r.queue[u] = l
      <4>1. IsIn(u, s.list[l]) <=> u \in On(s) /\ s.queue[u] = l
        BY <1>1, Membership
      <4>2. CASE l = RunQ
        BY <4>1, <4>2, <1>1, <2>6, <2>7
      <4>3. CASE l # RunQ
        BY <4>1, <4>3, <1>1, <2>7
      <4> QED BY <4>2, <4>3
    <3>3. ASSUME NEW u \in On(s) \cup {t}
          PROVE  r.queue[u] \in Lists /\ Fits(r, u, r.queue[u])
      <4>1. CASE u = t
        BY <4>1, <1>1, <2>7, ListsDistinct DEF Fits
      <4>2. CASE u \in On(s)
        BY <4>2, <1>1, <2>7, OnInLists DEF Fits
      <4> QED BY <4>1, <4>2
    <3>4. On(s) \cup {t} \in SUBSET Threads
      BY <1>1 DEF On
    <3> QED BY <3>1, <3>2, <3>3, <3>4, <2>7, ConsistentIf
  <2>9. On(r) = {u \in A : r.state[u] # "STOPPED"}
    BY <1>1, <2>7, <2>8
  <2>10. Settled(DispatchThread(r), A) /\ DispatchThread(r).queue = r.queue
    BY <1>1, <2>7, <2>8, <2>9, DispatchSettles
  <2> QED BY <2>1, <2>7, <2>10
<1> QED BY <1>3, <1>4

(* The handler's wake-up leaves the interrupted thread alone. *)
LEMMA InterruptKeeps ==
  ASSUME NEW A \in SUBSET Threads, NEW s, Interrupted(s, A),
         NEW lst \in Lists, lst # RunQ
  PROVE  Interrupted(WakeFromInterrupt(s, lst), A) /\ OnlyToRunQ(s, WakeFromInterrupt(s, lst))
<1> DEFINE r == WakeFromInterrupt(s, lst)
<1>1. Consistent(s) /\ s.running \in Threads /\ Idle \in Threads
  BY DEF Interrupted, Leaving, Booted
<1>2. /\ Consistent(r) /\ On(r) = On(s)
      /\ r.running = s.running /\ r.state = s.state /\ r.priority = s.priority
      /\ OnlyToRunQ(s, r)
  BY <1>1, InterruptMoves
<1> HIDE DEF r
<1>3. r.queue[r.running] = RunQ /\ r.queue[Idle] = RunQ
  BY <1>1, <1>2 DEF OnlyToRunQ, Interrupted, Leaving, Booted
<1>4. Interrupted(r, A)
  BY <1>2, <1>3 DEF Interrupted, Leaving, Booted
<1> QED BY <1>2, <1>4 DEF r

------------------------------------------------------------------------------
(* A record that differs from a consistent one in fields of the thread u, which is
   linked nowhere and does not run. *)
LEMMA OtherChanges ==
  ASSUME NEW s, Consistent(s), NEW u \in Threads, u \notin On(s),
         NEW r \in SchedType, r.list = s.list, r.running = s.running,
         \A v \in Threads \ {u} : /\ r.state[v] = s.state[v] /\ r.queue[v] = s.queue[v]
                                  /\ r.priority[v] = s.priority[v],
         u # s.running, s.running \in Threads, MostUrgentIs(s, s.running)
  PROVE  Consistent(r) /\ On(r) = On(s) /\ MostUrgentIs(r, r.running)
<1>1. Consistent(r) /\ On(r) = On(s)
  BY UnlinkedChanges
<1>2. MostUrgentIs(r, r.running)
  BY <1>1 DEF MostUrgentIs, Ready
<1> QED BY <1>1, <1>2

(* osCreateThread. *)
LEMMA CreateSettles ==
  ASSUME NEW A \in SUBSET Threads, NEW s, Settled(s, A),
         NEW u \in Threads, u \notin A,
         NEW r \in SchedType, r.list = s.list, r.running = s.running,
         r.state[u] = "STOPPED",
         \A v \in Threads \ {u} : /\ r.state[v] = s.state[v] /\ r.queue[v] = s.queue[v]
                                  /\ r.priority[v] = s.priority[v]
  PROVE  Settled(r, A \cup {u})
<1>1. /\ Consistent(s) /\ s \in SchedType /\ s.running \in A /\ s.running \in Threads
      /\ On(s) = {t \in A : t # s.running /\ s.state[t] # "STOPPED"}
      /\ s.queue[s.running] = RunQ /\ MostUrgentIs(s, s.running)
      /\ Idle \in A /\ s.state[Idle] # "STOPPED" /\ s.queue[Idle] = RunQ
      /\ \A t \in A : s.state[t] = "RUNNING" <=> t = s.running
  BY DEF Settled, Executing, Booted, Consistent
<1>2. u \notin On(s) /\ u # s.running
  BY <1>1
<1>3. Consistent(r) /\ On(r) = On(s) /\ MostUrgentIs(r, r.running)
  BY <1>1, <1>2, OtherChanges
<1>4. On(r) = {t \in A \cup {u} : t # r.running /\ r.state[t] # "STOPPED"}
  BY <1>1, <1>2, <1>3
<1> QED BY <1>1, <1>2, <1>3, <1>4 DEF Settled, Executing, Booted

(* Unlinking a thread that does not run and changing its fields. *)
LEMMA DequeueKeeps ==
  ASSUME NEW A \in SUBSET Threads, NEW s, Settled(s, A),
         NEW u \in A, u # s.running,
         NEW d, d = DequeueThread(s, s.queue[u], u),
         NEW r \in SchedType, r.list = d.list,
         r.running = s.running, r.queue = s.queue,
         \A v \in Threads \ {u} : /\ r.state[v] = s.state[v]
                                  /\ r.priority[v] = s.priority[v]
  PROVE  /\ Consistent(r) /\ On(r) = On(s) \ {u} /\ MostUrgentIs(r, r.running)
<1>1. Consistent(s) /\ s.running \in Threads /\ MostUrgentIs(s, s.running)
  BY DEF Settled, Executing, Booted
<1>2. /\ Consistent(d) /\ On(d) = On(s) \ {u} /\ d.queue = s.queue
      /\ d.running = s.running /\ d.state = s.state /\ d.priority = s.priority
  BY <1>1, DequeueUnlinks
<1>3. MostUrgentIs(d, d.running) /\ u \notin On(d)
  BY <1>1, <1>2 DEF MostUrgentIs, Ready
<1> QED BY <1>1, <1>2, <1>3, OtherChanges

(* osStopThread. *)
LEMMA StopSettles ==
  ASSUME NEW A \in SUBSET Threads, NEW s, Settled(s, A), NEW u \in A, u # Idle
  PROVE  LET w == [s EXCEPT !.state[u] = "STOPPED"]
         IN /\ u = s.running
                 => Settled(DispatchThread(w), A) /\ DispatchThread(w).queue = s.queue
            /\ u # s.running
                 => /\ Settled(DequeueThread(w, s.queue[u], u), A)
                    /\ DequeueThread(w, s.queue[u], u).queue = s.queue
<1> DEFINE w == [s EXCEPT !.state[u] = "STOPPED"]
           r == DequeueThread(w, s.queue[u], u)
<1>1. /\ Consistent(s) /\ s \in SchedType /\ s.running \in A /\ u \in Threads
      /\ On(s) = {t \in A : t # s.running /\ s.state[t] # "STOPPED"}
      /\ s.queue[s.running] = RunQ
      /\ Idle \in A /\ s.state[Idle] # "STOPPED" /\ s.queue[Idle] = RunQ
      /\ \A t \in A : s.state[t] = "RUNNING" <=> t = s.running
  BY DEF Settled, Executing, Booted, Consistent
<1>2. /\ w \in SchedType /\ w.list = s.list /\ w.running = s.running
      /\ w.queue = s.queue /\ w.priority = s.priority
      /\ \A v \in Threads : w.state[v] = IF v = u THEN "STOPPED" ELSE s.state[v]
  BY <1>1 DEF SchedType, States
<1> HIDE DEF w
<1>3. CASE u = s.running
  <2>1. u \notin On(s)
    BY <1>1, <1>3
  <2>2. Consistent(w) /\ On(w) = On(s)
    BY <1>1, <1>2, <2>1, UnlinkedChanges
  <2>3. On(w) = {t \in A : w.state[t] # "STOPPED"} /\ \A t \in A : w.state[t] # "RUNNING"
    BY <1>1, <1>2, <1>3, <2>2
  <2>4. Settled(DispatchThread(w), A) /\ DispatchThread(w).queue = w.queue
    BY <1>1, <1>2, <2>2, <2>3, DispatchSettles
  <2> QED BY <1>2, <1>3, <2>4 DEF w
<1>4. CASE u # s.running
  <2>1. s.queue[u] \in Lists \cup {NoList}
    BY <1>1 DEF SchedType
  <2>2. /\ r \in SchedType /\ r.queue = s.queue /\ r.running = s.running
        /\ r.state = w.state /\ r.priority = s.priority
        /\ r.list = DequeueThread(s, s.queue[u], u).list
    <3>1. r \in SchedType
      BY <1>2, <1>1, <2>1, DequeueThreadType
    <3>2. /\ r.queue = w.queue /\ r.running = w.running /\ r.state = w.state
          /\ r.priority = w.priority
          /\ r.list = DequeueThread(s, s.queue[u], u).list
      BY <1>1, <1>2 DEF DequeueThread, SchedType
    <3> QED BY <3>1, <3>2, <1>2
  <2> HIDE DEF r
  <2>3. \A v \in Threads \ {u} : r.state[v] = s.state[v] /\ r.priority[v] = s.priority[v]
    BY <1>2, <2>2
  <2>4. Consistent(r) /\ On(r) = On(s) \ {u} /\ MostUrgentIs(r, r.running)
    <3>1. r \in SchedType /\ r.running = s.running /\ r.queue = s.queue
      BY <2>2
    <3>2. r.list = DequeueThread(s, s.queue[u], u).list
      BY <2>2
    <3>3. Settled(s, A) /\ u \in A /\ u # s.running
      BY <1>4
    <3> DEFINE d == DequeueThread(s, s.queue[u], u)
    <3>4. d = DequeueThread(s, s.queue[u], u) /\ r.list = d.list
      BY <3>2
    <3> HIDE DEF d
    <3> QED BY <3>1, <3>3, <3>4, <2>3, DequeueKeeps
  <2>5. On(r) = {t \in A : t # r.running /\ r.state[t] # "STOPPED"}
    BY <1>1, <1>2, <2>2, <2>4
  <2>6. Settled(r, A)
    BY <1>1, <1>2, <1>4, <2>2, <2>4, <2>5 DEF Settled, Executing, Booted
  <2> QED BY <1>4, <2>2, <2>6 DEF r, w
<1> QED BY <1>3, <1>4

(* osSetThreadPri: a linked thread takes its new place, the running thread and a
   stopped one have none. *)
LEMMA RequeueExecutes ==
  ASSUME NEW A \in SUBSET Threads, NEW s, Settled(s, A), NEW u \in A,
         NEW p \in Priorities
  PROVE  LET r == Requeue([s EXCEPT !.priority[u] = p], u)
         IN Executing(r, A) /\ r.queue = s.queue
<1> DEFINE w == [s EXCEPT !.priority[u] = p]
           d == DequeueThread(w, s.queue[u], u)
           e == EnqueueThread(d, s.queue[u], u)
<1>1. /\ Consistent(s) /\ s \in SchedType /\ s.running \in A /\ u \in Threads
      /\ On(s) = {t \in A : t # s.running /\ s.state[t] # "STOPPED"}
      /\ s.queue[s.running] = RunQ
      /\ Idle \in A /\ s.state[Idle] # "STOPPED" /\ s.queue[Idle] = RunQ
      /\ \A t \in A : s.state[t] = "RUNNING" <=> t = s.running
  BY DEF Settled, Executing, Booted, Consistent
<1>2. /\ w \in SchedType /\ w.list = s.list /\ w.running = s.running
      /\ w.queue = s.queue /\ w.state = s.state
      /\ \A v \in Threads \ {u} : w.priority[v] = s.priority[v]
  BY <1>1 DEF SchedType
<1>3. Executing(Requeue(w, u), A) /\ Requeue(w, u).queue = s.queue
  <2>1. CASE u # s.running /\ s.state[u] # "STOPPED"
    <3>1. Requeue(w, u) = e
      BY <1>2, <2>1 DEF Requeue
    <3> HIDE DEF w
    <3>2. u \in On(s)
      BY <1>1, <2>1
    <3>3. s.queue[u] \in Lists /\ Fits(s, u, s.queue[u])
      BY <1>1, <3>2, OnInLists
    <3>4. /\ d \in SchedType /\ d.queue = s.queue /\ d.running = s.running
          /\ d.state = s.state /\ d.priority = w.priority
          /\ d.list = DequeueThread(s, s.queue[u], u).list
      <4>1. d \in SchedType
        BY <1>1, <1>2, <3>3, DequeueThreadType
      <4>2. /\ d.queue = w.queue /\ d.running = w.running /\ d.state = w.state
            /\ d.priority = w.priority
            /\ d.list = DequeueThread(s, s.queue[u], u).list
        BY <1>1, <1>2 DEF DequeueThread, SchedType
      <4> QED BY <4>1, <4>2, <1>2
    <3> HIDE DEF d
    <3>5. Consistent(d) /\ On(d) = On(s) \ {u}
      <4> DEFINE x == DequeueThread(s, s.queue[u], u)
      <4>1. /\ Consistent(x) /\ On(x) = On(s) \ {u} /\ x.queue = s.queue
            /\ x.running = s.running /\ x.state = s.state /\ x.priority = s.priority
        BY <1>1, DequeueUnlinks
      <4>2. d.list = x.list
        BY <3>4
      <4> HIDE DEF x
      <4>3. /\ u \in Threads /\ u \notin On(x) /\ d \in SchedType
            /\ \A v \in Threads \ {u} : /\ d.state[v] = x.state[v] /\ d.queue[v] = x.queue[v]
                                        /\ d.priority[v] = x.priority[v]
        BY <1>1, <1>2, <3>4, <4>1
      <4>4. Consistent(d) /\ On(d) = On(x)
        BY <4>1, <4>2, <4>3, UnlinkedChanges
      <4> QED BY <4>1, <4>4
    <3>6. /\ Consistent(e) /\ On(e) = On(d) \cup {u}
          /\ e.queue = [d.queue EXCEPT ![u] = s.queue[u]]
          /\ e.running = d.running /\ e.state = d.state
      <4> DEFINE lst == s.queue[u]
      <4>1. /\ Consistent(d) /\ lst \in Lists /\ u \in Threads /\ u \notin On(d)
            /\ d.state[u] \in {"RUNNABLE", "WAITING"}
            /\ lst # RunQ => d.state[u] = "WAITING"
        BY <1>1, <3>3, <3>4, <3>5 DEF Fits
      <4> HIDE DEF lst
      <4>2. LET r == EnqueueThread(d, lst, u)
            IN /\ Consistent(r) /\ On(r) = On(d) \cup {u}
               /\ r.queue = [d.queue EXCEPT ![u] = lst]
               /\ r.running = d.running /\ r.state = d.state
        BY <4>1, EnqueueLinks
      <4> QED BY <4>2 DEF lst
    <3> HIDE DEF e
    <3>7. e.queue = s.queue
      BY <1>1, <3>4, <3>6 DEF SchedType
    <3>8. On(e) = On(s) /\ e.running = s.running /\ e.state = s.state
      BY <3>2, <3>4, <3>5, <3>6
    <3>9. Executing(e, A)
      <4>1. On(e) = {t \in A : t # e.running /\ e.state[t] # "STOPPED"}
        BY <1>1, <3>8
      <4>2. Consistent(e)
        BY <3>6
      <4> QED BY <1>1, <3>7, <3>8, <4>1, <4>2 DEF Executing, Booted
    <3> QED BY <3>1, <3>7, <3>9 DEF w
  <2>2. CASE ~ (u # s.running /\ s.state[u] # "STOPPED")
    <3>1. Requeue(w, u) = w
      BY <1>2, <2>2 DEF Requeue
    <3> HIDE DEF w
    <3>2. u \notin On(s)
      BY <1>1, <2>2
    <3>3. Consistent(w) /\ On(w) = On(s)
      BY <1>1, <1>2, <3>2, UnlinkedChanges
    <3>4. Executing(w, A)
      BY <1>1, <1>2, <3>3 DEF Executing, Booted
    <3> QED BY <3>1, <3>4, <1>2 DEF w
  <2> QED BY <2>1, <2>2
<1> QED BY <1>3

(* Then the running thread gives way if it must. *)
LEMMA PrioritySettles ==
  ASSUME NEW A \in SUBSET Threads, NEW s, Settled(s, A), NEW u \in A,
         NEW p \in Priorities
  PROVE  LET r == YieldIfLower(Requeue([s EXCEPT !.priority[u] = p], u))
         IN Settled(r, A) /\ r.queue = s.queue
<1> DEFINE x == Requeue([s EXCEPT !.priority[u] = p], u)
<1>1. Executing(x, A) /\ x.queue = s.queue
  BY RequeueExecutes
<1> HIDE DEF x
<1>2. Settled(YieldIfLower(x), A) /\ YieldIfLower(x).queue = x.queue
  BY <1>1, YieldIfLowerSettles
<1> QED BY <1>1, <1>2 DEF x

(* osDestroyThread. *)
LEMMA DestroySettles ==
  ASSUME NEW A \in SUBSET Threads, NEW s, Settled(s, A), NEW u \in A, u # Idle
  PROVE  /\ u = s.running
               => /\ Settled(DispatchThread(s), A \ {u})
                  /\ DispatchThread(s).queue = s.queue
         /\ u # s.running /\ s.state[u] # "STOPPED"
               => /\ Settled(DequeueThread(s, s.queue[u], u), A \ {u})
                  /\ DequeueThread(s, s.queue[u], u).queue = s.queue
         /\ s.state[u] = "STOPPED" => Settled(s, A \ {u})
<1>1. /\ Consistent(s) /\ s \in SchedType /\ s.running \in A /\ u \in Threads
      /\ On(s) = {t \in A : t # s.running /\ s.state[t] # "STOPPED"}
      /\ s.queue[s.running] = RunQ /\ MostUrgentIs(s, s.running)
      /\ Idle \in A /\ s.state[Idle] # "STOPPED" /\ s.queue[Idle] = RunQ
      /\ \A t \in A : s.state[t] = "RUNNING" <=> t = s.running
  BY DEF Settled, Executing, Booted, Consistent
<1>2. CASE u = s.running
  <2> DEFINE B == A \ {u}
  <2>1. /\ B \in SUBSET Threads /\ Idle \in B
        /\ On(s) = {t \in B : s.state[t] # "STOPPED"}
        /\ \A t \in B : s.state[t] # "RUNNING"
    BY <1>1, <1>2
  <2> HIDE DEF B
  <2>2. Settled(DispatchThread(s), B) /\ DispatchThread(s).queue = s.queue
    BY <1>1, <2>1, DispatchSettles
  <2> QED BY <1>1, <1>2, <2>2 DEF B
<1>3. CASE u # s.running /\ s.state[u] # "STOPPED"
  <2> DEFINE r == DequeueThread(s, s.queue[u], u)
  <2>1. /\ Consistent(r) /\ On(r) = On(s) \ {u} /\ r.queue = s.queue
        /\ r.running = s.running /\ r.state = s.state /\ r.priority = s.priority
    BY <1>1, DequeueUnlinks
  <2> HIDE DEF r
  <2>2. MostUrgentIs(r, r.running)
    BY <1>1, <2>1 DEF MostUrgentIs, Ready
  <2>3. Settled(r, A \ {u})
    BY <1>1, <1>3, <2>1, <2>2 DEF Settled, Executing, Booted
  <2> QED BY <1>3, <2>1, <2>3 DEF r
<1>4. CASE s.state[u] = "STOPPED"
  <2>1. u # s.running
    BY <1>1, <1>4
  <2>2. Settled(s, A \ {u})
    BY <1>1, <1>4, <2>1 DEF Settled, Executing, Booted
  <2> QED BY <1>4, <2>1, <2>2
<1> QED BY <1>2, <1>3, <1>4

------------------------------------------------------------------------------
(* The inductive invariant: a thread whose queue field names a wait queue is in the
   message call that queue is for, and the scheduler is where the processor is:
   before the boot, in a thread, or in the exception handler. *)
CallsMatch ==
  \A t \in active, q \in Queues :
    /\ sched.queue[t] = MtQ(q)   => call[t].op = "recv" /\ call[t].q = q
    /\ sched.queue[t] = FullQ(q) => call[t].op \in {"send", "jam"} /\ call[t].q = q

ToBoot ==
  /\ active = {Idle} /\ Consistent(sched) /\ On(sched) = {}
  /\ sched.state[Idle] = "STOPPED" /\ sched.queue[Idle] = NoList

Scheduled ==
  /\ sched.running = NoThread => ~exc /\ ToBoot
  /\ sched.running # NoThread /\ exc  => Interrupted(sched, active)
  /\ sched.running # NoThread /\ ~exc => Settled(sched, active)

KernelInv == TypeInv /\ CallsMatch /\ Scheduled

LEMMA ListNames ==
  /\ \A q \in Queues : /\ MtQ(q) \notin {RunQ, NoList} /\ FullQ(q) \notin {RunQ, NoList}
                       /\ \A p \in Queues : /\ MtQ(q) # FullQ(p)
                                            /\ MtQ(q) = MtQ(p) => q = p
                                            /\ FullQ(q) = FullQ(p) => q = p
BY DEF RunQ, MtQ, FullQ, NoList

(* Calls still match when the threads that moved went to the run queue. *)
LEMMA CallsKept ==
  ASSUME CallsMatch,
         \A u \in active' :
           \/ u \in active /\ sched'.queue[u] = sched.queue[u] /\ call'[u] = call[u]
           \/ sched'.queue[u] \in {RunQ, NoList}
  PROVE  CallsMatch'
BY ListNames DEF CallsMatch

(* The two ways a step keeps the scheduler right. *)
LEMMA SettledStep ==
  ASSUME ~exc', Settled(sched', active'), active' \subseteq Threads
  PROVE  Scheduled'
<1>1. sched'.running # NoThread
  BY DistinctAssumption DEF Settled, Executing, Booted
<1> QED BY <1>1 DEF Scheduled

LEMMA InterruptedStep ==
  ASSUME exc', Interrupted(sched', active'), active' \subseteq Threads
  PROVE  Scheduled'
<1>1. sched'.running # NoThread
  BY DistinctAssumption DEF Interrupted, Leaving, Booted
<1> QED BY <1>1 DEF Scheduled

(* A thread in user code or in a call. *)
LEMMA RunningSettled ==
  ASSUME KernelInv, NEW t \in Threads, Running(t)
  PROVE  /\ ~exc /\ sched.running = t /\ t \in active /\ active \in SUBSET Threads
         /\ Settled(sched, active) /\ Executing(sched, active)
         /\ sched.queue[t] = RunQ /\ Consistent(sched)
         /\ \A u \in active : sched.state[u] = "RUNNING" <=> u = t
<1>1. ~exc /\ sched.running = t /\ sched.running # NoThread /\ active \in SUBSET Threads
  BY DistinctAssumption DEF Running, KernelInv, TypeInv, TypeOK
<1>2. Settled(sched, active)
  BY <1>1 DEF KernelInv, Scheduled
<1> QED BY <1>1, <1>2 DEF Settled, Executing, Booted

LEMMA InitInv == Init => KernelInv
<1> SUFFICES ASSUME Init PROVE KernelInv
  OBVIOUS
<1>1. TypeInv /\ Idle \in Threads
  BY TypeInit, KernelAssumption
<1>2. /\ sched \in SchedType /\ sched.running = NoThread /\ ~exc /\ active = {Idle}
      /\ \A l \in Lists : sched.list[l] = <<>>
      /\ \A t \in Threads : sched.state[t] = "STOPPED" /\ sched.queue[t] = NoList
  BY <1>1 DEF Init, TypeInv, TypeOK
<1>3. CallsMatch
  BY <1>1, <1>2, ListNames DEF CallsMatch
<1>4. \A l \in Lists : \A t : ~ IsIn(t, sched.list[l])
  BY <1>2 DEF IsIn
<1>5. \A l \in Lists : Ordered(sched.list[l], sched.priority)
  BY <1>2 DEF Ordered
<1>6. Consistent(sched) /\ On(sched) = {}
  BY <1>2, <1>4, <1>5 DEF Consistent, On
<1> QED BY <1>1, <1>2, <1>3, <1>6 DEF KernelInv, Scheduled, ToBoot

(* The first dispatch. *)
LEMMA BootStep ==
  ASSUME KernelInv, Boot
  PROVE  CallsMatch' /\ Scheduled'
<1>1. /\ sched.running = NoThread /\ sched' = StartThread(sched, Idle)
      /\ active' = active /\ call' = call /\ exc' = exc
  BY DEF Boot, threadRest
<1>2. ~exc /\ ToBoot /\ Idle \in Threads
  BY <1>1, KernelAssumption DEF KernelInv, Scheduled
<1> DEFINE r == MakeReady(sched, Idle)
<1>3. /\ Consistent(r) /\ On(r) = {Idle} /\ r.running = NoThread
      /\ \E x \in {"RUNNABLE", "WAITING"} : r.state = [sched.state EXCEPT ![Idle] = x]
      /\ r.queue[Idle] = RunQ /\ OnlyToRunQ(sched, r)
  <2>1. Consistent(sched) /\ Idle \notin On(sched) /\ sched.state[Idle] \in {"STOPPED", "WAITING"}
    BY <1>2 DEF ToBoot
  <2>2. /\ Consistent(r) /\ On(r) = On(sched) \cup {Idle} /\ r.running = sched.running
        /\ \E x \in {"RUNNABLE", "WAITING"} : r.state = [sched.state EXCEPT ![Idle] = x]
        /\ OnlyToRunQ(sched, r) /\ r.queue[Idle] # NoList
    BY <1>2, <2>1, MakeReadyLinks
  <2>3. r.queue[Idle] = RunQ
    BY <1>2, <2>2 DEF OnlyToRunQ, ToBoot
  <2> QED BY <1>1, <1>2, <2>2, <2>3 DEF ToBoot
<1>4. sched' = DispatchThread(r)
  BY <1>1, <1>3 DEF StartThread
<1> HIDE DEF r
<1>5. r.state[Idle] \in {"RUNNABLE", "WAITING"}
  BY <1>2, <1>3 DEF ToBoot, Consistent, SchedType
<1>6. Settled(DispatchThread(r), {Idle}) /\ DispatchThread(r).queue = r.queue
  <2>1. On(r) = {t \in {Idle} : r.state[t] # "STOPPED"}
    BY <1>3, <1>5
  <2>2. \A t \in {Idle} : r.state[t] # "RUNNING"
    BY <1>5
  <2>3. {Idle} \in SUBSET Threads /\ Idle \in {Idle} /\ r.state[Idle] # "STOPPED"
    BY <1>2, <1>5
  <2> QED BY <1>3, <2>1, <2>2, <2>3, DispatchSettles
<1>7. active' = {Idle} /\ ~exc'
  BY <1>1, <1>2 DEF ToBoot
<1>8. Scheduled'
  BY <1>2, <1>4, <1>6, <1>7, SettledStep
<1>9. CallsMatch'
  BY <1>3, <1>4, <1>6, <1>7, CallsKept DEF KernelInv
<1> QED BY <1>8, <1>9

(* A message call puts its caller to sleep in the wait queue of the call. *)
LEMMA BlockStep ==
  ASSUME KernelInv, NEW t \in Threads, Running(t),
         NEW op, NEW q \in Queues, NEW m, NEW lst \in Lists,
         \/ op = "recv" /\ lst = MtQ(q)
         \/ op \in {"send", "jam"} /\ lst = FullQ(q),
         Block(t, op, q, m, lst), active' = active, exc' = exc
  PROVE  CallsMatch' /\ Scheduled'
<1> DEFINE w == [sched EXCEPT !.state[t] = "WAITING"]
<1>1. /\ ~exc /\ sched.running = t /\ t \in active /\ active \in SUBSET Threads
      /\ Settled(sched, active) /\ Executing(sched, active) /\ Consistent(sched)
  BY RunningSettled
<1>2. /\ t # Idle /\ sched' = EnqueueAndYield(w, lst)
      /\ call' = [call EXCEPT ![t] = Pending(op, q, m)] /\ lst # RunQ
  BY ListNames DEF Block
<1>3. /\ Leaving(w, active) /\ w.state[w.running] = "WAITING"
      /\ w.running = t /\ w.queue = sched.queue
  <2>1. active \in SUBSET Threads /\ Executing(sched, active) /\ sched.running = t
    BY <1>1
  <2> QED BY <2>1, LeavingState
<1> HIDE DEF w
<1>4. /\ Settled(sched', active) /\ sched'.queue = [sched.queue EXCEPT ![t] = lst]
  <2>1. /\ Settled(EnqueueAndYield(w, lst), active)
        /\ EnqueueAndYield(w, lst).queue = [w.queue EXCEPT ![w.running] = lst]
    BY <1>1, <1>2, <1>3, YieldSettles
  <2> QED BY <2>1, <1>2, <1>3
<1>5. Scheduled'
  BY <1>1, <1>4, SettledStep
<1>6. CallsMatch'
  <2>1. \A u \in Threads : sched'.queue[u] = IF u = t THEN lst ELSE sched.queue[u]
    BY <1>1, <1>4 DEF Consistent, SchedType
  <2>2. \A u \in Threads : call'[u] = IF u = t THEN Pending(op, q, m) ELSE call[u]
    BY <1>2 DEF KernelInv, TypeInv, TypeOK
  <2>3. Pending(op, q, m).op = op /\ Pending(op, q, m).q = q
    BY DEF Pending
  <2> QED BY <1>1, <2>1, <2>2, <2>3, ListNames DEF CallsMatch, KernelInv
<1> QED BY <1>5, <1>6

(* A message call that succeeds wakes the first thread of the other side. *)
LEMMA WokenStep ==
  ASSUME KernelInv, NEW t \in Threads, Running(t), NEW lst \in Lists, lst # RunQ,
         sched' = WakeFirst(sched, lst),
         \A u \in Threads \ {t} : call'[u] = call[u], active' = active, exc' = exc
  PROVE  CallsMatch' /\ Scheduled'
<1>1. /\ ~exc /\ t \in active /\ active \in SUBSET Threads
      /\ Settled(sched, active) /\ sched.queue[t] = RunQ
  BY RunningSettled
<1>2. Settled(sched', active) /\ OnlyToRunQ(sched, sched')
  BY <1>1, WakeSettles
<1>3. CallsMatch'
  BY <1>1, <1>2, CallsKept DEF OnlyToRunQ, KernelInv
<1> QED BY <1>1, <1>2, <1>3, SettledStep

LEMMA MesgStepKeeps ==
  ASSUME KernelInv, NEW t \in Threads, Running(t), active' = active, exc' = exc,
         NEW q \in Queues, NEW m,
         TrySend(t, q, m) \/ TryJam(t, q, m) \/ TryRecv(t, q)
  PROVE  CallsMatch' /\ Scheduled'
<1>1. /\ MtQ(q) \in Lists /\ MtQ(q) # RunQ /\ FullQ(q) \in Lists /\ FullQ(q) # RunQ
  BY ListsDistinct
<1>2. Return(t) => \A u \in Threads \ {t} : call'[u] = call[u]
  BY DEF Return, KernelInv, TypeInv, TypeOK
<1>3. CASE TrySend(t, q, m)
  <2>1. CASE Block(t, "send", q, m, FullQ(q))
    BY <1>1, <2>1, BlockStep
  <2>2. CASE sched' = WakeFirst(sched, MtQ(q)) /\ Return(t)
    BY <1>1, <1>2, <2>2, WokenStep
  <2> QED BY <1>3, <2>1, <2>2 DEF TrySend
<1>4. CASE TryJam(t, q, m)
  <2>1. CASE Block(t, "jam", q, m, FullQ(q))
    BY <1>1, <2>1, BlockStep
  <2>2. CASE sched' = WakeFirst(sched, MtQ(q)) /\ Return(t)
    BY <1>1, <1>2, <2>2, WokenStep
  <2> QED BY <1>4, <2>1, <2>2 DEF TryJam
<1>5. CASE TryRecv(t, q)
  <2>1. CASE Block(t, "recv", q, NoMsg, MtQ(q))
    BY <1>1, <2>1, BlockStep
  <2>2. CASE sched' = WakeFirst(sched, FullQ(q)) /\ Return(t)
    BY <1>1, <1>2, <2>2, WokenStep
  <2> QED BY <1>5, <2>1, <2>2 DEF TryRecv
<1> QED BY <1>3, <1>4, <1>5

LEMMA MesgCallStep ==
  ASSUME KernelInv, NEW t \in Threads, MesgCall(t) \/ ResumeMesg(t)
  PROVE  CallsMatch' /\ Scheduled'
<1>1. UNCHANGED kernelRest => active' = active /\ exc' = exc
  BY DEF kernelRest
<1>2. InUser(t) => Running(t)
  BY DEF InUser
<1>3. ASSUME NEW q \in Queues, NEW m \in Msgs, SendMesg(t, q, m) \/ JamMesg(t, q, m)
      PROVE  CallsMatch' /\ Scheduled'
  BY <1>1, <1>2, <1>3, MesgStepKeeps DEF SendMesg, JamMesg
<1>4. ASSUME NEW q \in Queues, RecvMesg(t, q)
      PROVE  CallsMatch' /\ Scheduled'
  BY <1>1, <1>2, <1>4, MesgStepKeeps DEF RecvMesg
<1>5. CASE ResumeMesg(t)
  <2>1. /\ Running(t) /\ UNCHANGED kernelRest
        /\ \/ call[t].op = "send" /\ TrySend(t, call[t].q, call[t].m)
           \/ call[t].op = "jam"  /\ TryJam(t, call[t].q, call[t].m)
           \/ call[t].op = "recv" /\ TryRecv(t, call[t].q)
    BY <1>5 DEF ResumeMesg
  <2>2. call[t] \in CallType
    BY DEF KernelInv, TypeInv, TypeOK
  <2>3. call[t].op \in {"send", "jam", "recv"} => call[t].q \in Queues
    BY <2>2 DEF CallType, User, Pending
  <2> QED BY <1>1, <2>1, <2>3, MesgStepKeeps
<1> QED BY <1>3, <1>4, <1>5 DEF MesgCall

(* osSetEventMesg and the rest of the call it may yield in. *)
LEMMA EventStep ==
  ASSUME KernelInv, NEW t \in Threads, EventCall(t) \/ ResumeSetEvent(t)
  PROVE  CallsMatch' /\ Scheduled'
<1>0. call \in [Threads -> CallType]
  BY DEF KernelInv, TypeInv, TypeOK
<1>1. ASSUME NEW e \in RegEvents, NEW q \in Queues, SetEventMesg(t, e, q)
      PROVE  CallsMatch' /\ Scheduled'
  <2>1. Running(t) /\ active' = active /\ exc' = exc
    BY <1>1 DEF SetEventMesg, InUser
  <2>2. CASE SendsNMI(e) /\ ~IsFull(q)
    <3>1. /\ sched' = WakeFirst(sched, MtQ(q))
          /\ \/ call' = call
             \/ call' = [call EXCEPT ![t] = Pending("nmi", NoQueue, NoMsg)]
      BY <1>1, <2>2 DEF SetEventMesg
    <3>2. \A u \in Threads \ {t} : call'[u] = call[u]
      BY <1>0, <3>1
    <3>3. MtQ(q) \in Lists /\ MtQ(q) # RunQ
      BY ListsDistinct
    <3> QED BY <2>1, <3>1, <3>2, <3>3, WokenStep
  <2>3. CASE ~ (SendsNMI(e) /\ ~IsFull(q))
    <3>1. sched' = sched /\ call' = call
      BY <1>1, <2>3 DEF SetEventMesg
    <3> QED BY <2>1, <3>1 DEF CallsMatch, Scheduled, ToBoot, KernelInv
  <2> QED BY <2>2, <2>3
<1>2. CASE ResumeSetEvent(t)
  <2>1. /\ Running(t) /\ sched' = sched /\ active' = active /\ exc' = exc
        /\ call' = [call EXCEPT ![t] = User]
    BY <1>2 DEF ResumeSetEvent, Return
  <2>2. ~exc /\ active \in SUBSET Threads /\ Settled(sched, active) /\ sched.queue[t] = RunQ
    BY <2>1, RunningSettled
  <2>3. \A u \in active : u = t \/ call'[u] = call[u]
    BY <1>0, <2>1
  <2>4. CallsMatch'
    BY <2>1, <2>2, <2>3, CallsKept DEF KernelInv
  <2> QED BY <2>1, <2>2, <2>4, SettledStep
<1> QED BY <1>1, <1>2 DEF EventCall

(* A step of a thread that leaves the pending calls of the threads alone. *)
LEMMA ThreadStepKeeps ==
  ASSUME KernelInv, ~exc', active' \subseteq Threads, Settled(sched', active'),
         \A u \in active' :
           \/ u \in active /\ sched'.queue[u] = sched.queue[u] /\ call'[u] = call[u]
           \/ sched'.queue[u] \in {RunQ, NoList}
  PROVE  CallsMatch' /\ Scheduled'
BY CallsKept, SettledStep DEF KernelInv

LEMMA ThreadCallStep ==
  ASSUME KernelInv, NEW t \in Threads, ThreadCall(t)
  PROVE  CallsMatch' /\ Scheduled'
<1>0. ThreadCall(t) => InUser(t)
  BY DEF ThreadCall, CreateThread, OSStartThread, StopThread, SetThreadPri,
         DestroyThread, YieldThread
<1>1. /\ ~exc /\ sched.running = t /\ t \in active /\ active \in SUBSET Threads
      /\ Settled(sched, active) /\ Executing(sched, active) /\ Consistent(sched)
      /\ \A u \in active : sched.state[u] = "RUNNING" <=> u = t
  BY <1>0, RunningSettled DEF InUser
<1>2. UNCHANGED threadRest => ~exc'
  BY <1>1 DEF threadRest
<1>3. ASSUME NEW u \in Threads \ {Idle}, NEW p \in Prios, CreateThread(t, u, p)
      PROVE  CallsMatch' /\ Scheduled'
  <2>1. /\ u \notin active /\ active' = active \cup {u} /\ call' = call
        /\ sched' = [sched EXCEPT !.state[u] = "STOPPED", !.priority[u] = p,
                                  !.queue[u] = NoList]
        /\ UNCHANGED threadRest /\ p \in Priorities
    BY <1>3, KernelAssumption DEF CreateThread, Priorities
  <2>2. /\ Settled(sched', active \cup {u}) /\ sched'.queue[u] = NoList
        /\ \A v \in active : sched'.queue[v] = sched.queue[v]
    <3>1. /\ active \in SUBSET Threads /\ Settled(sched, active)
          /\ u \in Threads /\ u \notin active
      BY <1>1, <2>1
    <3>2. /\ sched' \in SchedType /\ sched'.list = sched.list
          /\ sched'.running = sched.running
          /\ sched'.state[u] = "STOPPED" /\ sched'.queue[u] = NoList
          /\ \A v \in Threads \ {u} : /\ sched'.state[v] = sched.state[v]
                                      /\ sched'.queue[v] = sched.queue[v]
                                      /\ sched'.priority[v] = sched.priority[v]
      BY <1>1, <2>1 DEF Consistent, SchedType, States
    <3>3. Settled(sched', active \cup {u})
      BY <3>1, <3>2, CreateSettles
    <3> QED BY <3>1, <3>2, <3>3
  <2> QED BY <1>1, <1>2, <2>1, <2>2, ThreadStepKeeps
<1>4. ASSUME NEW u \in Threads, OSStartThread(t, u)
      PROVE  CallsMatch' /\ Scheduled'
  <2>1. /\ u \in active /\ sched.state[u] = "STOPPED" /\ sched' = StartThread(sched, u)
        /\ active' = active /\ call' = call /\ UNCHANGED threadRest
    BY <1>4 DEF OSStartThread
  <2>2. Waking(sched, active, u)
    BY <1>1, <2>1 DEF Waking, Executing, Booted
  <2>3. Settled(sched', active) /\ OnlyToRunQ(sched, sched')
    BY <1>1, <2>1, <2>2, StartSettles
  <2> QED BY <1>1, <1>2, <2>1, <2>3, ThreadStepKeeps DEF OnlyToRunQ
<1>5. ASSUME NEW u \in Threads, StopThread(t, u)
      PROVE  CallsMatch' /\ Scheduled'
  <2> DEFINE w == [sched EXCEPT !.state[u] = "STOPPED"]
  <2>1. /\ u \in active /\ u # Idle
        /\ active' = active /\ call' = call /\ UNCHANGED threadRest
        /\ \/ sched.state[u] = "RUNNING" /\ sched' = DispatchThread(w)
           \/ sched.state[u] # "RUNNING" /\ sched' = DequeueThread(w, sched.queue[u], u)
    BY <1>5 DEF StopThread
  <2>2. /\ u = t => Settled(DispatchThread(w), active)
                     /\ DispatchThread(w).queue = sched.queue
        /\ u # t => /\ Settled(DequeueThread(w, sched.queue[u], u), active)
                    /\ DequeueThread(w, sched.queue[u], u).queue = sched.queue
    BY <1>1, <2>1, StopSettles
  <2> HIDE DEF w
  <2>3. Settled(sched', active) /\ sched'.queue = sched.queue
    BY <1>1, <2>1, <2>2
  <2> QED BY <1>1, <1>2, <2>1, <2>3, ThreadStepKeeps
<1>6. ASSUME NEW u \in Threads, NEW p \in Prios, SetThreadPri(t, u, p)
      PROVE  CallsMatch' /\ Scheduled'
  <2>1. /\ u \in active /\ p \in Priorities
        /\ sched' = YieldIfLower(Requeue([sched EXCEPT !.priority[u] = p], u))
        /\ active' = active /\ call' = call /\ UNCHANGED threadRest
    BY <1>6, KernelAssumption DEF SetThreadPri, Priorities
  <2>2. Settled(sched', active) /\ sched'.queue = sched.queue
    BY <1>1, <2>1, PrioritySettles
  <2> QED BY <1>1, <1>2, <2>1, <2>2, ThreadStepKeeps
<1>7. ASSUME NEW u \in Threads, DestroyThread(t, u)
      PROVE  CallsMatch' /\ Scheduled'
  <2>1. /\ u \in active /\ u # Idle /\ active' = active \ {u}
        /\ sched' = IF u = t THEN DispatchThread(sched)
                    ELSE IF sched.state[u] # "STOPPED"
                         THEN DequeueThread(sched, sched.queue[u], u) ELSE sched
        /\ call' = [call EXCEPT ![u] = User] /\ UNCHANGED threadRest
    BY <1>7 DEF DestroyThread
  <2>2. /\ u = t => /\ Settled(DispatchThread(sched), active \ {u})
                    /\ DispatchThread(sched).queue = sched.queue
        /\ u # t /\ sched.state[u] # "STOPPED"
             => /\ Settled(DequeueThread(sched, sched.queue[u], u), active \ {u})
                /\ DequeueThread(sched, sched.queue[u], u).queue = sched.queue
        /\ sched.state[u] = "STOPPED" => Settled(sched, active \ {u})
    BY <1>1, <2>1, DestroySettles
  <2>3. Settled(sched', active') /\ sched'.queue = sched.queue
    BY <2>1, <2>2
  <2>4. \A v \in active' : v \in active /\ call'[v] = call[v]
    BY <2>1 DEF KernelInv, TypeInv, TypeOK
  <2> QED BY <1>1, <1>2, <2>1, <2>3, <2>4, ThreadStepKeeps
<1>8. CASE YieldThread(t)
  <2> DEFINE w == [sched EXCEPT !.state[t] = "RUNNABLE"]
  <2>1. /\ sched' = EnqueueAndYield(w, RunQ)
        /\ active' = active /\ call' = call /\ UNCHANGED threadRest
    BY <1>8 DEF YieldThread
  <2>2. Leaving(w, active) /\ w.queue = sched.queue
    <3>1. active \in SUBSET Threads /\ Executing(sched, active) /\ sched.running = t
      BY <1>1
    <3> QED BY <3>1, LeavingState
  <2> HIDE DEF w
  <2>3. Settled(sched', active) /\ sched'.queue = sched.queue
    BY <1>1, <2>1, <2>2, RequeueSettles
  <2> QED BY <1>1, <1>2, <2>1, <2>3, ThreadStepKeeps
<1> QED BY <1>3, <1>4, <1>5, <1>6, <1>7, <1>8 DEF ThreadCall

(* Posting an event during an exception. *)
LEMMA PostKeeps ==
  ASSUME KernelInv, NEW A \in SUBSET Threads, NEW s, Interrupted(s, A), NEW e \in Events
  PROVE  Interrupted(PostSched(s, e), A) /\ OnlyToRunQ(s, PostSched(s, e))
<1>1. CASE Posts(e)
  <2>1. evtab[e] \in Queues
    BY <1>1 DEF Posts, KernelInv, TypeInv, TypeOK
  <2>2. MtQ(evtab[e]) \in Lists /\ MtQ(evtab[e]) # RunQ
    BY <2>1, ListsDistinct
  <2>3. PostSched(s, e) = WakeFromInterrupt(s, MtQ(evtab[e]))
    BY <1>1 DEF PostSched
  <2> QED BY <2>2, <2>3, InterruptKeeps
<1>2. CASE ~ Posts(e)
  BY <1>2 DEF PostSched, OnlyToRunQ
<1> QED BY <1>1, <1>2

LEMMA HandlerStep ==
  ASSUME KernelInv, Handler
  PROVE  CallsMatch' /\ Scheduled'
<1>1. /\ exc /\ active' = active /\ call' = call /\ active \in SUBSET Threads
  BY DEF Handler, ServeCause, PiCallback, CartCallback, FirstPreNMI, LaterPreNMI,
         ReturnFromException, IsNext, KernelInv, TypeInv, TypeOK
<1>2. Interrupted(sched, active)
  <2>1. sched.running # NoThread
    BY <1>1 DEF KernelInv, Scheduled
  <2> QED BY <1>1, <2>1 DEF KernelInv, Scheduled
<1>3. ASSUME NEW e \in Events, sched' = PostSched(sched, e), exc' = exc
      PROVE  CallsMatch' /\ Scheduled'
  <2>1. Interrupted(sched', active) /\ OnlyToRunQ(sched, sched')
    BY <1>1, <1>2, <1>3, PostKeeps
  <2>2. CallsMatch'
    BY <1>1, <2>1, CallsKept DEF OnlyToRunQ, KernelInv
  <2> QED BY <1>1, <1>3, <2>1, <2>2, InterruptedStep
<1>4. ASSUME sched' = sched, exc' = exc
      PROVE  CallsMatch' /\ Scheduled'
  BY <1>1, <1>4 DEF KernelInv, CallsMatch, Scheduled, ToBoot
<1>5. ASSUME NEW e \in HwEvents, ServeCause(e)
      PROVE  CallsMatch' /\ Scheduled'
  <2>1. e \in Events /\ sched' = PostSched(sched, e) /\ exc' = exc
    BY <1>5, KernelAssumption DEF ServeCause
  <2> QED BY <2>1, <1>3
<1>6. CASE PiCallback \/ CartCallback \/ LaterPreNMI
  BY <1>4, <1>6 DEF PiCallback, CartCallback, LaterPreNMI
<1>7. CASE FirstPreNMI
  <2>1. "PRENMI" \in Events
    <3>1. HwOrder[2] = "PRENMI" /\ 2 \in 1..Len(HwOrder)
      BY DEF HwOrder
    <3> QED BY <3>1 DEF Events
  <2>2. sched' = PostSched(sched, "PRENMI") /\ exc' = exc
    BY <1>7 DEF FirstPreNMI
  <2> QED BY <1>3, <2>1, <2>2
<1>8. CASE ReturnFromException
  <2>1. sched' = Redispatch(sched) /\ ~exc'
    BY <1>8 DEF ReturnFromException
  <2>2. Settled(sched', active) /\ sched'.queue = sched.queue
    BY <1>1, <1>2, <2>1, RedispatchSettles
  <2> QED BY <1>1, <2>1, <2>2, ThreadStepKeeps
<1> QED BY <1>5, <1>6, <1>7, <1>8 DEF Handler

(* An exception in the running thread: an interrupt, a break or a fault. *)
LEMMA ExceptionStep ==
  ASSUME KernelInv,
         \/ \E S \in SUBSET HwEvents : Exception(S)
         \/ \E t \in Threads : Fault(t) \/ Break(t)
  PROVE  CallsMatch' /\ Scheduled'
<1>1. PICK t \in Threads :
        /\ InUser(t)
        /\ (\E S \in SUBSET HwEvents : Exception(S)) \/ Fault(t) \/ Break(t)
  BY DEF Exception, Fault, Break
<1>2. /\ ~exc /\ sched.running = t /\ t \in active /\ active \in SUBSET Threads
      /\ Settled(sched, active) /\ Executing(sched, active) /\ Consistent(sched)
      /\ \A u \in active : sched.state[u] = "RUNNING" <=> u = t
  BY <1>1, RunningSettled DEF InUser
<1>3. CASE \E S \in SUBSET HwEvents : Exception(S)
  <2> DEFINE w == [sched EXCEPT !.state[t] = "RUNNABLE"]
  <2>1. sched' = w /\ exc' = TRUE /\ active' = active /\ call' = call
    BY <1>2, <1>3 DEF Exception
  <2>2. Interrupted(w, active) /\ w.queue = sched.queue
    <3>1. Leaving(w, active) /\ w.state[w.running] = "RUNNABLE" /\ w.queue = sched.queue
      <4>1. active \in SUBSET Threads /\ Executing(sched, active) /\ sched.running = t
        BY <1>2
      <4> QED BY <4>1, LeavingState
    <3> HIDE DEF w
    <3> QED BY <3>1 DEF Interrupted
  <2> HIDE DEF w
  <2>3. CallsMatch'
    BY <2>1, <2>2, CallsKept DEF KernelInv
  <2> QED BY <1>2, <2>1, <2>2, <2>3, InterruptedStep
<1>4. CASE Break(t)
  <2> DEFINE w == [sched EXCEPT !.state[t] = "RUNNABLE"]
             p == PostSched(w, "CPU_BREAK")
  <2>1. /\ sched' = Redispatch(p) /\ exc' = exc /\ active' = active /\ call' = call
        /\ "CPU_BREAK" \in Events
    BY <1>4 DEF Break, Events
  <2>2. Interrupted(w, active) /\ w.queue = sched.queue
    <3>1. Leaving(w, active) /\ w.state[w.running] = "RUNNABLE" /\ w.queue = sched.queue
      <4>1. active \in SUBSET Threads /\ Executing(sched, active) /\ sched.running = t
        BY <1>2
      <4> QED BY <4>1, LeavingState
    <3> HIDE DEF w
    <3> QED BY <3>1 DEF Interrupted
  <2> HIDE DEF w
  <2>3. Interrupted(p, active) /\ OnlyToRunQ(w, p)
    BY <1>2, <2>1, <2>2, PostKeeps
  <2> HIDE DEF p
  <2>4. Settled(sched', active) /\ sched'.queue = p.queue
    BY <1>2, <2>1, <2>3, RedispatchSettles
  <2> QED BY <1>2, <2>1, <2>2, <2>3, <2>4, ThreadStepKeeps DEF OnlyToRunQ
<1>5. CASE Fault(t)
  <2> DEFINE w == [sched EXCEPT !.state[t] = "STOPPED"]
             p == PostSched(w, "FAULT")
  <2>1. /\ sched' = DispatchThread(p) /\ exc' = exc /\ active' = active /\ call' = call
        /\ t # Idle
    BY <1>5 DEF Fault
  <2>2. /\ Consistent(w) /\ On(w) = {u \in active : w.state[u] # "STOPPED"}
        /\ \A u \in active : w.state[u] # "RUNNING"
        /\ Idle \in active /\ w.state[Idle] # "STOPPED" /\ w.queue[Idle] = RunQ
        /\ w.queue = sched.queue
    <3>1. /\ sched \in SchedType /\ t \notin On(sched)
          /\ On(sched) = {u \in active : u # t /\ sched.state[u] # "STOPPED"}
          /\ Idle \in active /\ sched.state[Idle] # "STOPPED" /\ sched.queue[Idle] = RunQ
      BY <1>2 DEF Executing, Booted, Consistent
    <3>2. /\ w \in SchedType /\ w.list = sched.list /\ w.queue = sched.queue
          /\ w.priority = sched.priority
          /\ \A u \in Threads : w.state[u] = IF u = t THEN "STOPPED" ELSE sched.state[u]
      BY <3>1 DEF SchedType, States
    <3> HIDE DEF w
    <3>3. Consistent(w) /\ On(w) = On(sched)
      BY <1>2, <3>1, <3>2, UnlinkedChanges
    <3> QED BY <1>2, <2>1, <3>1, <3>2, <3>3
  <2> HIDE DEF w
  <2>3. /\ Consistent(p) /\ On(p) = On(w) /\ p.state = w.state /\ OnlyToRunQ(w, p)
    <3>1. CASE Posts("FAULT")
      <4>1. evtab["FAULT"] \in Queues
        BY <3>1 DEF Posts, KernelInv, TypeInv, TypeOK, Events
      <4>2. MtQ(evtab["FAULT"]) \in Lists /\ MtQ(evtab["FAULT"]) # RunQ
        BY <4>1, ListsDistinct
      <4>3. p = WakeFromInterrupt(w, MtQ(evtab["FAULT"]))
        BY <3>1 DEF PostSched
      <4> HIDE DEF p
      <4> QED BY <2>2, <4>2, <4>3, InterruptMoves
    <3>2. CASE ~ Posts("FAULT")
      BY <2>2, <3>2 DEF PostSched, OnlyToRunQ
    <3> QED BY <3>1, <3>2
  <2> HIDE DEF p
  <2>4. Settled(sched', active) /\ sched'.queue = p.queue
    <3>1. p.queue[Idle] = RunQ
      BY <1>2, <2>2, <2>3 DEF OnlyToRunQ
    <3> QED BY <1>2, <2>1, <2>2, <2>3, <3>1, DispatchSettles
  <2> QED BY <1>2, <2>1, <2>2, <2>3, <2>4, ThreadStepKeeps DEF OnlyToRunQ
<1> QED BY <1>1, <1>3, <1>4, <1>5

LEMMA InvStep == KernelInv /\ [Next]_vars => KernelInv'
<1> SUFFICES ASSUME KernelInv, [Next]_vars PROVE KernelInv'
  OBVIOUS
<1>1. TypeInv'
  BY TypeStep DEF KernelInv
<1>2. CallsMatch' /\ Scheduled'
  <2>1. CASE Boot
    BY <2>1, BootStep
  <2>2. ASSUME NEW t \in Threads,
               MesgCall(t) \/ ThreadCall(t) \/ EventCall(t) \/ Resume(t)
                 \/ Fault(t) \/ Break(t)
        PROVE  CallsMatch' /\ Scheduled'
    BY <2>2, MesgCallStep, ThreadCallStep, EventStep, ExceptionStep DEF Resume
  <2>3. CASE \E S \in SUBSET HwEvents : Exception(S)
    BY <2>3, ExceptionStep
  <2>4. CASE Handler
    BY <2>4, HandlerStep
  <2>5. CASE UNCHANGED vars
    BY <2>5 DEF vars, KernelInv, CallsMatch, Scheduled, ToBoot
  <2> QED BY <2>1, <2>2, <2>3, <2>4, <2>5 DEF Next
<1> QED BY <1>1, <1>2 DEF KernelInv

(* Every reachable state satisfies the invariant. *)
LEMMA Invariance == Spec => []KernelInv
BY InitInv, InvStep, PTL DEF Spec

LEMMA AlwaysConsistent == KernelInv => Consistent(sched)
BY DEF KernelInv, Scheduled, ToBoot, Interrupted, Leaving, Settled, Executing, Booted

LEMMA InvPlacement == KernelInv => Placement
<1> SUFFICES ASSUME KernelInv PROVE Placement
  OBVIOUS
<1>0. Consistent(sched) /\ sched \in SchedType /\ active \in SUBSET Threads
  BY AlwaysConsistent DEF Consistent, KernelInv, TypeInv, TypeOK
<1>1. \A l \in Lists : \A i, j \in 1..Len(sched.list[l]) :
        sched.list[l][i] = sched.list[l][j] => i = j
  BY <1>0 DEF Consistent, Ordered
<1>2. \A t \in Threads : OneList(t)
  BY <1>0 DEF OneList, Consistent, Fits
<1>3. \A t \in Threads : Queued(t) <=> t \in On(sched)
  BY <1>2 DEF Queued, On, OneList
<1>4. CASE sched.running = NoThread
  <2>1. ~exc /\ ToBoot
    BY <1>4 DEF KernelInv, Scheduled
  <2> QED BY <1>0, <1>1, <1>2, <1>3, <1>4, <2>1, DistinctAssumption
          DEF Placement, ToBoot, WaitsForItsCall
<1>5. CASE sched.running # NoThread
  <2>1. /\ Booted(sched, active)
        /\ exc => sched.state[sched.running] = "RUNNABLE"
                   /\ \A t \in active : sched.state[t] # "RUNNING"
        /\ ~exc => \A t \in active : sched.state[t] = "RUNNING" <=> t = sched.running
    BY <1>5 DEF KernelInv, Scheduled, Interrupted, Leaving, Settled, Executing
  <2>2. \A t \in Threads : Queued(t) <=> /\ t \in active /\ t # sched.running
                                        /\ sched.state[t] # "STOPPED"
    BY <1>3, <2>1 DEF Booted
  <2>3. ASSUME NEW t \in active
        PROVE  /\ sched.state[t] = "RUNNING"  <=> t = sched.running /\ ~exc
               /\ sched.state[t] = "RUNNABLE" /\ t # sched.running => sched.queue[t] = RunQ
               /\ WaitsForItsCall(t)
    <3>1. sched.state[t] = "RUNNING"  <=> t = sched.running /\ ~exc
      BY <2>1 DEF KernelInv, TypeInv, TypeOK
    <3>2. sched.state[t] = "RUNNABLE" /\ t # sched.running => sched.queue[t] = RunQ
      <4> SUFFICES ASSUME sched.state[t] = "RUNNABLE", t # sched.running
                   PROVE  sched.queue[t] = RunQ
        OBVIOUS
      <4>1. t \in On(sched)
        BY <2>1 DEF Booted
      <4> QED BY <1>0, <4>1, OnInLists DEF Fits
    <3>3. WaitsForItsCall(t)
      BY DEF KernelInv, CallsMatch, WaitsForItsCall
    <3> QED BY <3>1, <3>2, <3>3
  <2> QED BY <1>1, <1>2, <2>2, <2>3 DEF Placement
<1> QED BY <1>4, <1>5

(* Every thread is where its state says, whatever is created, started, stopped,
   destroyed or re-prioritised and wherever a call yields or an interrupt falls:
   linked exactly when it is ready or waiting, once, in the list OSThread.queue
   names, and in a wait queue only for the message call it is in. *)
THEOREM ThreadsInPlace == Spec => []Placement
BY Invariance, InvPlacement, PTL

(* The scheduler takes the head of a list, so every list must stay in order of
   priority through priority changes, wake-ups, and the front insertion that
   returns from an exception. *)
THEOREM ListsStaySorted == Spec => []ListsSorted
<1>1. KernelInv => ListsSorted
  BY AlwaysConsistent DEF Consistent, Ordered, ListsSorted
<1> QED BY <1>1, Invariance, PTL

(* Outside an exception no ready thread is more urgent than the running one: no
   system call forgets to compare, and the handler need not, because its exit
   does. *)
THEOREM MostUrgentRuns == Spec => []UrgentRuns
<1>1. KernelInv => UrgentRuns
  <2> SUFFICES ASSUME KernelInv, sched.running \in Threads, ~exc
               PROVE  HeadPriority(sched) <= sched.priority[sched.running]
    BY DEF UrgentRuns
  <2>1. Settled(sched, active) /\ Consistent(sched)
    BY AlwaysConsistent, DistinctAssumption DEF KernelInv, Scheduled
  <2>2. sched.priority[sched.running] \in Priorities
    BY <2>1 DEF Consistent, SchedType
  <2> QED BY <2>1, <2>2, HeadPriorityBounds DEF Settled, MostUrgentIs
<1> QED BY <1>1, Invariance, PTL

(* The idle thread is always ready when it does not run, so the run queue is never
   empty when a thread gives up the processor and the sentinel is not dispatched. *)
THEOREM SentinelNeverRuns == Spec => []TailNeverRuns
<1>1. KernelInv => TailNeverRuns
  <2> SUFFICES ASSUME KernelInv, sched.running # NoThread
               PROVE  sched.running # ThreadTail
    BY DistinctAssumption DEF TailNeverRuns
  <2>1. sched.running \in active /\ active \in SUBSET Threads
    BY DEF KernelInv, TypeInv, TypeOK, Scheduled, Interrupted, Leaving, Settled,
           Executing, Booted
  <2> QED BY <2>1, DistinctAssumption
<1> QED BY <1>1, Invariance, PTL

------------------------------------------------------------------------------
(* Turns among threads of equal priority *)

(* From s to r the threads outside X keep their priority, and of two of equal
   priority the one that is ahead in a list stays ahead while it stays there. *)
Keeps(s, r, X) ==
  /\ \A t \in Threads \ X : r.priority[t] = s.priority[t]
  /\ \A l \in Lists : \A t, u \in Threads \ X :
       ( /\ t # u /\ s.priority[t] = s.priority[u]
         /\ Ahead(s.list[l], t, u) /\ IsIn(t, r.list[l]) )
       => Ahead(r.list[l], t, u)

(* From s to r no thread enters a list, unless x enters lst. *)
Brings(s, r, x, lst) ==
  \A l \in Lists, t \in Threads :
    IsIn(t, r.list[l]) => IsIn(t, s.list[l]) \/ (t = x /\ l = lst)

(* Steps compose when none brings back a thread that had left its place. *)
LEMMA KeepsCompose ==
  ASSUME NEW s, NEW r, NEW z, NEW X, NEW x, NEW lst,
         Keeps(s, r, X), Keeps(r, z, X), Brings(r, z, x, lst),
         x \in Threads \ X => ~ IsIn(x, s.list[lst])
  PROVE  Keeps(s, z, X)
<1>1. \A t \in Threads \ X : z.priority[t] = s.priority[t] /\ r.priority[t] = s.priority[t]
  BY DEF Keeps
<1>2. ASSUME NEW l \in Lists, NEW t \in Threads \ X, NEW u \in Threads \ X,
             t # u, s.priority[t] = s.priority[u],
             Ahead(s.list[l], t, u), IsIn(t, z.list[l])
      PROVE  Ahead(z.list[l], t, u)
  <2>1. IsIn(t, s.list[l])
    BY <1>2 DEF Ahead, IsIn
  <2>2. IsIn(t, r.list[l])
    BY <1>2, <2>1 DEF Brings
  <2>3. Ahead(r.list[l], t, u)
    BY <1>2, <2>2 DEF Keeps
  <2> QED BY <1>1, <1>2, <2>3 DEF Keeps
<1> QED BY <1>1, <1>2 DEF Keeps

(* Steps that leave every list as it was. *)
LEMMA SameLists ==
  ASSUME NEW s, NEW r, NEW X, \A l \in Lists : r.list[l] = s.list[l],
         \A t \in Threads \ X : r.priority[t] = s.priority[t]
  PROVE  Keeps(s, r, X) /\ \A x, lst : Brings(s, r, x, lst)
BY DEF Keeps, Brings

(* A thread put into a list leaves the order of the others as it was. *)
LEMMA InsertAhead ==
  ASSUME NEW l \in Seq(Threads), NEW k \in 1..(Len(l) + 1), NEW x \in Threads,
         NEW t, NEW u, Ahead(l, t, u), u # x
  PROVE  Ahead(InsertAt(l, k, x), t, u)
<1> DEFINE m == InsertAt(l, k, x)
           n == Len(l)
<1>0. n \in Nat /\ k \in Int
  BY LenProperties
<1>1. /\ Len(m) = n + 1
      /\ \A j \in 1..(n + 1) : m[j] = IF j < k THEN l[j]
                                       ELSE IF j = k THEN x ELSE l[j - 1]
  <2>1. Len(m) = n + 1
    BY InsertAtProperties
  <2>2. ASSUME NEW j \in 1..(n + 1), j < k PROVE m[j] = l[j]
    BY <1>0, <2>2, InsertAtProperties
  <2>3. ASSUME NEW j \in 1..(n + 1), j = k PROVE m[j] = x
    BY <1>0, <2>3, InsertAtProperties
  <2>4. ASSUME NEW j \in 1..(n + 1), j > k PROVE m[j] = l[j - 1]
    BY <1>0, <2>4, InsertAtProperties
  <2> HIDE DEF m
  <2> QED BY <1>0, <2>1, <2>2, <2>3, <2>4
<1>2. PICK i \in 1..n : l[i] = t /\ \A j \in 1..i : l[j] # u
  BY DEF Ahead
<1> HIDE DEF m, n
<1>3. CASE i < k
  <2>1. i \in 1..(n + 1) /\ m[i] = t
    BY <1>0, <1>1, <1>2, <1>3
  <2>2. \A j \in 1..i : m[j] # u
    BY <1>0, <1>1, <1>2, <1>3
  <2> QED BY <1>1, <2>1, <2>2 DEF Ahead, m
<1>4. CASE ~ (i < k)
  <2>1. i + 1 \in 1..(n + 1) /\ ~ (i + 1 < k) /\ i + 1 # k /\ (i + 1) - 1 = i
    BY <1>0, <1>2, <1>4
  <2>2. m[i + 1] = t
    BY <1>1, <1>2, <2>1
  <2>3. ASSUME NEW j \in 1..(i + 1) PROVE m[j] # u
    <3>1. j \in 1..(n + 1) /\ (j < k => j \in 1..i) /\ (~ (j < k) /\ j # k => j - 1 \in 1..i)
      BY <1>0, <1>2, <1>4
    <3> QED BY <1>1, <1>2, <3>1
  <2> QED BY <1>1, <2>1, <2>2, <2>3 DEF Ahead, m
<1> QED BY <1>3, <1>4

(* The ordered insertion goes behind the threads of its own priority. *)
LEMMA InsertBehind ==
  ASSUME NEW l \in Seq(Threads), NEW pri \in [Threads -> Priorities],
         Ordered(l, pri), NEW x \in Threads, ~ IsIn(x, l),
         NEW t \in Threads, IsIn(t, l), pri[t] = pri[x]
  PROVE  Ahead(InsertAt(l, InsertIndex(l, pri, x), x), t, x)
<1> DEFINE k == InsertIndex(l, pri, x)
           m == InsertAt(l, k, x)
           n == Len(l)
<1>0. n \in Nat
  BY LenProperties
<1>1. k \in 1..(n + 1) /\ (k <= n => pri[l[k]] < pri[x])
  BY InsertIndexExists
<1> HIDE DEF k
<1>2. /\ Len(m) = n + 1
      /\ \A j \in 1..(n + 1) : m[j] = IF j < k THEN l[j]
                                       ELSE IF j = k THEN x ELSE l[j - 1]
  <2>1. k \in 1..(Len(l) + 1)
    BY <1>1
  <2>2. Len(m) = n + 1
    BY <2>1, InsertAtProperties
  <2>3. ASSUME NEW j \in 1..(n + 1), j < k PROVE m[j] = l[j]
    BY <1>0, <2>1, <2>3, InsertAtProperties
  <2>4. ASSUME NEW j \in 1..(n + 1), j = k PROVE m[j] = x
    BY <1>0, <2>1, <2>4, InsertAtProperties
  <2>5. ASSUME NEW j \in 1..(n + 1), j > k PROVE m[j] = l[j - 1]
    BY <1>0, <2>1, <2>5, InsertAtProperties
  <2> HIDE DEF m
  <2> QED BY <1>0, <2>1, <2>2, <2>3, <2>4, <2>5
<1>3. PICK i \in 1..n : l[i] = t
  BY DEF IsIn
<1>4. /\ \A j \in 1..n : l[j] # x /\ pri[l[j]] \in Int
      /\ \A a, b \in 1..n : a < b => pri[l[a]] >= pri[l[b]]
      /\ pri[x] \in Int
  <2>1. \A j \in 1..n : l[j] \in Threads
    BY ElementOfSeq
  <2> QED BY <2>1, PriorityInt DEF IsIn, Ordered
<1> HIDE DEF m, n
<1>5. i < k
  <2> SUFFICES ASSUME ~ (i < k) PROVE FALSE
    OBVIOUS
  <2>1. k \in 1..n /\ (k < i \/ k = i)
    BY <1>0, <1>1, <1>3
  <2>2. pri[l[k]] < pri[x] /\ pri[l[k]] \in Int /\ pri[l[i]] = pri[x]
    BY <1>1, <1>3, <1>4, <2>1
  <2>3. CASE k < i
    <3>1. pri[l[k]] >= pri[l[i]]
      BY <1>4, <2>1, <2>3
    <3> QED BY <1>4, <2>2, <3>1
  <2>4. CASE k = i
    BY <1>4, <2>2, <2>4
  <2> QED BY <2>1, <2>3, <2>4
<1>6. i \in 1..(n + 1) /\ m[i] = t
  BY <1>0, <1>1, <1>2, <1>3, <1>5
<1>7. \A j \in 1..i : m[j] # x
  BY <1>0, <1>1, <1>2, <1>3, <1>4, <1>5
<1> QED BY <1>2, <1>6, <1>7 DEF Ahead, m, k

(* A thread taken out leaves the order of the others as it was. *)
LEMMA RemoveAhead ==
  ASSUME NEW l \in Seq(Threads), NEW k \in 1..Len(l),
         NEW t, NEW u, Ahead(l, t, u), t # l[k]
  PROVE  Ahead(RemoveAt(l, k), t, u)
<1> DEFINE m == RemoveAt(l, k)
           n == Len(l)
<1>0. n \in Nat /\ k \in 1..n
  BY LenProperties
<1>1. Len(m) = n - 1 /\ \A j \in 1..(n - 1) : m[j] = IF j < k THEN l[j] ELSE l[j + 1]
  BY RemoveAtProperties
<1>2. PICK i \in 1..n : l[i] = t /\ \A j \in 1..i : l[j] # u
  BY DEF Ahead
<1>3. t # l[k]
  OBVIOUS
<1> HIDE DEF m, n
<1>4. CASE i < k
  <2>1. i \in 1..(n - 1) /\ m[i] = t
    BY <1>0, <1>1, <1>2, <1>4
  <2>2. \A j \in 1..i : m[j] # u
    BY <1>0, <1>1, <1>2, <1>4
  <2> QED BY <1>1, <2>1, <2>2 DEF Ahead, m
<1>5. CASE ~ (i < k)
  <2>1. i # k
    BY <1>2, <1>3
  <2>2. i - 1 \in 1..(n - 1) /\ ~ (i - 1 < k) /\ (i - 1) + 1 = i
    BY <1>0, <1>2, <1>5, <2>1
  <2>3. m[i - 1] = t
    BY <1>1, <1>2, <2>2
  <2>4. ASSUME NEW j \in 1..(i - 1) PROVE m[j] # u
    <3>1. j \in 1..(n - 1) /\ j \in 1..i /\ j + 1 \in 1..i
      BY <1>0, <1>2
    <3> QED BY <1>1, <1>2, <3>1
  <2> QED BY <1>1, <2>2, <2>3, <2>4 DEF Ahead, m
<1> QED BY <1>4, <1>5

LEMMA TailAhead ==
  ASSUME NEW l \in Seq(Threads), l # <<>>, NEW t, NEW u,
         Ahead(l, t, u), t # Head(l)
  PROVE  Ahead(Tail(l), t, u)
<1> DEFINE m == Tail(l)
           n == Len(l)
<1>0. n \in Nat /\ n # 0 /\ Head(l) = l[1]
  BY LenProperties, EmptySeq, HeadTailProperties
<1>1. Len(m) = n - 1 /\ \A j \in 1..(n - 1) : m[j] = l[j + 1]
  BY <1>0, HeadTailProperties
<1>2. PICK i \in 1..n : l[i] = t /\ \A j \in 1..i : l[j] # u
  BY DEF Ahead
<1>3. i # 1
  BY <1>0, <1>2
<1> HIDE DEF m, n
<1>4. i - 1 \in 1..(n - 1) /\ (i - 1) + 1 = i
  BY <1>0, <1>2, <1>3
<1>5. m[i - 1] = t
  BY <1>1, <1>2, <1>4
<1>6. ASSUME NEW j \in 1..(i - 1) PROVE m[j] # u
  <2>1. j \in 1..(n - 1) /\ j + 1 \in 1..i
    BY <1>0, <1>2
  <2> QED BY <1>1, <1>2, <2>1
<1> QED BY <1>1, <1>4, <1>5, <1>6 DEF Ahead, m

(* The routines. *)
LEMMA EnqueueTurns ==
  ASSUME NEW s \in SchedType, NEW lst \in Lists, NEW x \in Threads, NEW X,
         \/ x \in X
         \/ ~ IsIn(x, s.list[lst]) /\ Ordered(s.list[lst], s.priority)
  PROVE  LET r == EnqueueThread(s, lst, x)
         IN Keeps(s, r, X) /\ Brings(s, r, x, lst)
<1> DEFINE r == EnqueueThread(s, lst, x)
           old == s.list[lst]
           k == InsertIndex(old, s.priority, x)
           m == InsertAt(old, k, x)
<1>1. old \in Seq(Threads) /\ s.priority \in [Threads -> Priorities]
  BY DEF SchedType
<1>2. /\ r.priority = s.priority
      /\ \A l \in Lists : r.list[l] = IF l = lst THEN m ELSE s.list[l]
  BY DEF EnqueueThread, SchedType
<1>3. k \in 1..(Len(old) + 1)
  BY <1>1, InsertIndexExists
<1> HIDE DEF r
<1>4. Brings(s, r, x, lst)
  <2>1. ASSUME NEW t, IsIn(t, m), t # x PROVE IsIn(t, old)
    <3>1. PICK j \in 1..Len(m) : m[j] = t
      BY <2>1 DEF IsIn
    <3> HIDE DEF old
    <3>2. /\ Len(m) = Len(old) + 1 /\ Len(old) \in Nat
          /\ m[j] = IF j < k THEN old[j] ELSE IF j = k THEN x ELSE old[j - 1]
      <4> HIDE DEF k
      <4>1. /\ Len(m) = Len(old) + 1 /\ Len(old) \in Nat
            /\ \A i \in 1..(Len(old) + 1) :
                 m[i] = IF i < k THEN old[i] ELSE IF i = k THEN x ELSE old[i - 1]
        BY <1>1, <1>3, InsertAtProperties, LenProperties
      <4> QED BY <4>1, <3>1
    <3> HIDE DEF m, k
    <3>3. CASE j < k
      <4>1. j \in 1..Len(old)
        BY <3>1, <3>2, <3>3, <1>3
      <4> QED BY <4>1, <3>1, <3>2, <3>3 DEF IsIn
    <3>4. CASE ~ (j < k)
      <4>1. j # k /\ j - 1 \in 1..Len(old)
        BY <2>1, <3>1, <3>2, <3>4, <1>3
      <4> QED BY <4>1, <3>1, <3>2, <3>4 DEF IsIn
    <3> QED BY <3>3, <3>4
  <2> HIDE DEF m, k
  <2> QED BY <1>2, <2>1 DEF Brings, old
<1>5. ASSUME NEW t \in Threads \ X, NEW u \in Threads \ X, t # u,
             s.priority[t] = s.priority[u], Ahead(old, t, u)
      PROVE  Ahead(m, t, u)
  <2>1. CASE u # x
    <3> HIDE DEF old, k
    <3> QED BY <1>1, <1>3, <1>5, <2>1, InsertAhead
  <2>2. CASE u = x
    <3>1. ~ IsIn(x, old) /\ Ordered(old, s.priority) /\ IsIn(t, old)
      BY <1>5, <2>2 DEF Ahead, IsIn
    <3> HIDE DEF old
    <3> QED BY <1>1, <1>5, <2>2, <3>1, InsertBehind
  <2> QED BY <2>1, <2>2
<1> HIDE DEF m, k
<1>6. Keeps(s, r, X)
  BY <1>2, <1>5 DEF Keeps, old
<1> QED BY <1>4, <1>6 DEF r

LEMMA PopTurns ==
  ASSUME NEW s, Consistent(s), NEW lst \in Lists, s.list[lst] # <<>>, NEW X
  PROVE  LET r == PopThread(s, lst)
         IN Keeps(s, r, X) /\ \A x, l : Brings(s, r, x, l)
<1> DEFINE r == PopThread(s, lst)
           old == s.list[lst]
<1>1. /\ s \in SchedType /\ old \in Seq(Threads) /\ old # <<>>
      /\ s.priority \in [Threads -> Priorities] /\ Ordered(old, s.priority)
  BY DEF Consistent, SchedType
<1>2. /\ r.priority = s.priority
      /\ \A l \in Lists : r.list[l] = IF l = lst THEN Tail(old) ELSE s.list[l]
  BY <1>1 DEF PopThread, SchedType
<1> HIDE DEF r, old
<1>3. \A t : IsIn(t, Tail(old)) <=> IsIn(t, old) /\ t # Head(old)
  BY <1>1, OrderedTail
<1>4. \A t, u : Ahead(old, t, u) /\ IsIn(t, Tail(old)) => Ahead(Tail(old), t, u)
  BY <1>1, <1>3, TailAhead
<1> QED BY <1>2, <1>3, <1>4 DEF Keeps, Brings, r, old

LEMMA DequeueTurns ==
  ASSUME NEW s \in SchedType, NEW lst \in Lists \cup {NoList}, NEW x \in Threads,
         NEW X, x \in X
  PROVE  LET r == DequeueThread(s, lst, x)
         IN Keeps(s, r, X) /\ \A y, l : Brings(s, r, y, l)
<1> DEFINE r == DequeueThread(s, lst, x)
<1>1. /\ r.priority = s.priority
      /\ \A l \in Lists : r.list[l] = IF l = lst THEN Unlink(s.list[l], x) ELSE s.list[l]
  BY DEF DequeueThread, SchedType
<1>2. \A l \in Lists : s.list[l] \in Seq(Threads)
  BY DEF SchedType
<1> HIDE DEF r
<1>3. ASSUME NEW l \in Seq(Threads)
      PROVE  /\ \A t : IsIn(t, Unlink(l, x)) => IsIn(t, l)
             /\ \A t, u : t # x /\ Ahead(l, t, u) => Ahead(Unlink(l, x), t, u)
  <2>1. CASE IsIn(x, l)
    <3>1. PICK k \in 1..Len(l) : Unlink(l, x) = RemoveAt(l, k) /\ l[k] = x
      BY <2>1, UnlinkIndex
    <3>2. \A t, u : t # x /\ Ahead(l, t, u) => Ahead(RemoveAt(l, k), t, u)
      BY <3>1, RemoveAhead
    <3>3. ASSUME NEW t, IsIn(t, RemoveAt(l, k)) PROVE IsIn(t, l)
      <4> DEFINE m == RemoveAt(l, k)
      <4>1. /\ Len(l) \in Nat /\ Len(m) = Len(l) - 1
            /\ \A j \in 1..(Len(l) - 1) : m[j] = IF j < k THEN l[j] ELSE l[j + 1]
        BY RemoveAtProperties, LenProperties
      <4> HIDE DEF m
      <4>2. PICK j \in 1..(Len(l) - 1) : m[j] = t
        BY <3>3, <4>1 DEF IsIn, m
      <4>3. j \in 1..Len(l) /\ j + 1 \in 1..Len(l) /\ (l[j] = t \/ l[j + 1] = t)
        BY <4>1, <4>2
      <4> QED BY <4>3 DEF IsIn
    <3> QED BY <3>1, <3>2, <3>3
  <2>2. CASE ~ IsIn(x, l)
    BY <2>2 DEF Unlink
  <2> QED BY <2>1, <2>2
<1>4. Keeps(s, r, X)
  BY <1>1, <1>2, <1>3 DEF Keeps
<1>5. \A y, l : Brings(s, r, y, l)
  BY <1>1, <1>2, <1>3 DEF Brings
<1> QED BY <1>4, <1>5 DEF r

LEMMA DispatchTurns ==
  ASSUME NEW s, Consistent(s), NEW X
  PROVE  LET r == DispatchThread(s)
         IN Keeps(s, r, X) /\ \A x, l : Brings(s, r, x, l)
<1> DEFINE r == DispatchThread(s)
           p == PopThread(s, RunQ)
<1>1. s \in SchedType
  BY DEF Consistent
<1>2. CASE s.list[RunQ] = <<>>
  <2>1. r.list = s.list /\ r.priority = s.priority
    BY <1>1, <1>2 DEF DispatchThread, SchedType
  <2> HIDE DEF r
  <2>2. Keeps(s, r, X) /\ \A x, l : Brings(s, r, x, l)
    BY <2>1, SameLists
  <2> QED BY <2>2 DEF r
<1>3. CASE s.list[RunQ] # <<>>
  <2>1. Keeps(s, p, X) /\ \A x, l : Brings(s, p, x, l)
    BY <1>3, ListsDistinct, PopTurns
  <2>2. p \in SchedType
    BY <1>1, <1>3, ListsDistinct, PopThreadType
  <2>3. r.list = p.list /\ r.priority = p.priority
    <3> HIDE DEF p
    <3>1. r = [p EXCEPT !.running = Head(s.list[RunQ]), !.state[Head(s.list[RunQ])] = "RUNNING"]
      BY <1>3 DEF DispatchThread, p
    <3> HIDE DEF r
    <3> QED BY <3>1, <2>2 DEF SchedType
  <2> HIDE DEF r, p
  <2>4. Keeps(s, r, X) /\ \A x, l : Brings(s, r, x, l)
    BY <2>1, <2>3 DEF Keeps, Brings
  <2> QED BY <2>4 DEF r
<1> QED BY <1>2, <1>3

(* The running thread queues in lst, and the head of the run queue runs. *)
LEMMA YieldTurns ==
  ASSUME NEW A \in SUBSET Threads, NEW w, Leaving(w, A), NEW lst \in Lists, NEW X,
         lst # RunQ => w.state[w.running] = "WAITING"
  PROVE  LET r == EnqueueAndYield(w, lst)
         IN Keeps(w, r, X) /\ Brings(w, r, w.running, lst)
<1> DEFINE t == w.running
           e == EnqueueThread(w, lst, t)
           r == DispatchThread(e)
<1>1. /\ Consistent(w) /\ w \in SchedType /\ t \in Threads /\ t \notin On(w)
      /\ w.state[t] \in {"RUNNABLE", "WAITING"}
      /\ lst # RunQ => w.state[t] = "WAITING"
  BY DEF Leaving, Booted, Consistent
<1>2. EnqueueAndYield(w, lst) = r
  BY DEF EnqueueAndYield
<1> HIDE DEF t
<1>3. ~ IsIn(t, w.list[lst]) /\ Ordered(w.list[lst], w.priority)
  BY <1>1 DEF On, Consistent
<1>4. Keeps(w, e, X) /\ Brings(w, e, t, lst)
  BY <1>1, <1>3, EnqueueTurns
<1>5. Consistent(e)
  BY <1>1, EnqueueLinks
<1> HIDE DEF e
<1>6. Keeps(e, r, X) /\ Brings(e, r, t, lst)
  BY <1>5, DispatchTurns
<1> HIDE DEF r
<1>7. Keeps(w, r, X)
  BY <1>1, <1>3, <1>4, <1>6, KeepsCompose
<1>8. Brings(w, r, t, lst)
  BY <1>4, <1>6 DEF Brings
<1> QED BY <1>2, <1>7, <1>8 DEF t

LEMMA YieldIfLowerTurns ==
  ASSUME NEW A \in SUBSET Threads, NEW s, Executing(s, A), NEW X
  PROVE  LET r == YieldIfLower(s)
         IN Keeps(s, r, X) /\ Brings(s, r, s.running, RunQ)
<1> DEFINE w == [s EXCEPT !.state[s.running] = "RUNNABLE"]
           r == EnqueueAndYield(w, RunQ)
<1>1. Leaving(w, A) /\ w.running = s.running
  BY LeavingState
<1>2. w.list = s.list /\ w.priority = s.priority
  BY DEF Executing, Booted, Consistent, SchedType
<1> HIDE DEF w
<1>3. Keeps(w, r, X) /\ Brings(w, r, s.running, RunQ)
  BY <1>1, ListsDistinct, YieldTurns
<1> HIDE DEF r
<1>4. Keeps(s, r, X) /\ Brings(s, r, s.running, RunQ)
  BY <1>2, <1>3 DEF Keeps, Brings
<1>5. CASE s.priority[s.running] < HeadPriority(s)
  <2>1. YieldIfLower(s) = r
    BY <1>5 DEF YieldIfLower, w, r
  <2> QED BY <1>4, <2>1
<1>6. CASE ~ (s.priority[s.running] < HeadPriority(s))
  <2>1. YieldIfLower(s) = s
    BY <1>6 DEF YieldIfLower
  <2> QED BY <2>1, SameLists
<1> QED BY <1>5, <1>6

(* A thread becomes ready, or goes back to its wait queue while the head of that
   queue becomes ready in its place. *)
LEMMA MakeReadyTurns ==
  ASSUME NEW s, Consistent(s), NEW t \in Threads, t \notin On(s),
         s.state[t] \in {"STOPPED", "WAITING"}, NEW X
  PROVE  LET r == MakeReady(s, t)
         IN /\ Keeps(s, r, X)
            /\ s.state[t] = "WAITING" => Brings(s, r, t, RunQ)
<1> DEFINE W(x) == [s EXCEPT !.state[t] = x]
           ready == EnqueueThread(W("RUNNABLE"), RunQ, t)
           back  == EnqueueThread(W("WAITING"), s.queue[t], t)
           h     == Head(back.list[s.queue[t]])
           p     == PopThread(back, s.queue[t])
           moved == EnqueueThread(p, RunQ, h)
<1>0. s \in SchedType /\ s.queue \in [Threads -> Lists \cup {NoList}]
  BY DEF Consistent, SchedType
<1>1. ASSUME NEW x \in {"RUNNABLE", "WAITING"}
      PROVE  /\ Consistent(W(x)) /\ W(x) \in SchedType /\ t \notin On(W(x))
             /\ W(x).state[t] = x /\ W(x).queue = s.queue
             /\ W(x).list = s.list /\ W(x).priority = s.priority
  <2>1. /\ W(x) \in SchedType /\ W(x).list = s.list
        /\ W(x).queue = s.queue /\ W(x).priority = s.priority
        /\ W(x).state[t] = x /\ \A u \in Threads \ {t} : W(x).state[u] = s.state[u]
    BY <1>0 DEF SchedType, States
  <2> HIDE DEF W
  <2>2. Consistent(W(x)) /\ On(W(x)) = On(s)
    BY <2>1, UnlinkedChanges
  <2> QED BY <2>1, <2>2
<1>2. MakeReady(s, t) = IF s.state[t] = "WAITING" \/ s.queue[t] \in {NoList, RunQ}
                        THEN ready ELSE moved
  BY DEF MakeReady
<1> HIDE DEF W
<1>3. \A x \in {"RUNNABLE", "WAITING"}, l \in Lists :
        ~ IsIn(t, W(x).list[l]) /\ Ordered(W(x).list[l], W(x).priority)
  BY <1>1 DEF On, Consistent
<1>4. Keeps(s, ready, X) /\ Brings(s, ready, t, RunQ)
  <2>1. Keeps(W("RUNNABLE"), ready, X) /\ Brings(W("RUNNABLE"), ready, t, RunQ)
    BY <1>1, <1>3, ListsDistinct, EnqueueTurns
  <2> HIDE DEF ready
  <2> QED BY <1>1, <2>1 DEF Keeps, Brings
<1> HIDE DEF ready
<1>5. CASE s.state[t] = "WAITING" \/ s.queue[t] \in {NoList, RunQ}
  BY <1>2, <1>4, <1>5
<1>6. CASE ~ (s.state[t] = "WAITING" \/ s.queue[t] \in {NoList, RunQ})
  <2> DEFINE lst == s.queue[t]
             w == W("WAITING")
  <2>1. lst \in Lists /\ lst # RunQ
    BY <1>0, <1>6
  <2>2. /\ Consistent(w) /\ w \in SchedType /\ t \notin On(w) /\ w.state[t] = "WAITING"
        /\ w.list = s.list /\ w.priority = s.priority /\ w.queue = s.queue
        /\ \A l \in Lists : ~ IsIn(t, w.list[l]) /\ Ordered(w.list[l], w.priority)
    BY <1>1, <1>3
  <2>3. back = EnqueueThread(w, lst, t) /\ h = Head(back.list[lst])
        /\ p = PopThread(back, lst)
    OBVIOUS
  <2>4. w.queue[t] = lst
    BY <2>2
  <2> HIDE DEF lst, w, back
  <2>5. Keeps(w, back, X) /\ Brings(w, back, t, lst)
    BY <2>1, <2>2, <2>3, EnqueueTurns
  <2>6. /\ Consistent(back) /\ On(back) = On(w) \cup {t}
        /\ back.queue = [w.queue EXCEPT ![t] = lst]
    BY <2>1, <2>2, <2>3, EnqueueLinks
  <2>7. back.queue = w.queue
    BY <2>2, <2>4, <2>6, <1>0
  <2>8. back.list[lst] # <<>>
    BY <2>1, <2>4, <2>6, <2>7, EmptyList
  <2> HIDE DEF h, p
  <2>9. Keeps(back, p, X) /\ \A x, l : Brings(back, p, x, l)
    BY <2>1, <2>3, <2>6, <2>8, PopTurns
  <2>10. Consistent(p) /\ On(p) = On(back) \ {h} /\ h \in On(back) /\ back.queue[h] = lst
    <3>1. Consistent(back) /\ lst \in Lists /\ back.list[lst] # <<>>
      BY <2>1, <2>6, <2>8
    <3>2. /\ Consistent(PopThread(back, lst))
          /\ On(PopThread(back, lst)) = On(back) \ {Head(back.list[lst])}
          /\ Head(back.list[lst]) \in On(back)
          /\ back.queue[Head(back.list[lst])] = lst
      BY <3>1, PopLinks
    <3> QED BY <2>3, <3>2
  <2>11. Keeps(w, p, X)
    BY <2>2, <2>5, <2>9, <2>1, KeepsCompose
  <2>12. h \in Threads /\ p \in SchedType /\ Ordered(p.list[RunQ], p.priority)
         /\ ~ IsIn(h, p.list[RunQ])
    BY <2>10, ListsDistinct DEF On, Consistent
  <2>13. Keeps(p, moved, X) /\ Brings(p, moved, h, RunQ)
    BY <2>12, ListsDistinct, EnqueueTurns
  <2>14. ~ IsIn(h, w.list[RunQ])
    <3>1. w.queue[h] = lst
      BY <2>7, <2>10
    <3> QED BY <2>1, <2>2, <2>12, <3>1, ListsDistinct, Membership
  <2> HIDE DEF moved
  <2>15. Keeps(w, moved, X)
    BY <2>11, <2>13, <2>14, KeepsCompose
  <2>16. Keeps(s, moved, X)
    BY <2>2, <2>15 DEF Keeps
  <2> QED BY <1>2, <1>6, <2>16
<1> QED BY <1>5, <1>6

LEMMA StartTurns ==
  ASSUME NEW A \in SUBSET Threads, NEW s, NEW u, Waking(s, A, u), NEW X
  PROVE  Keeps(s, StartThread(s, u), X)
<1> DEFINE r == MakeReady(s, u)
           z == YieldIfLower(r)
<1>1. /\ Consistent(s) /\ u \in Threads /\ u \notin On(s) /\ s.running \in Threads
      /\ s.running \notin On(s) /\ s.state[u] \in {"STOPPED", "WAITING"}
  BY DEF Waking
<1>2. Executing(r, A) /\ r.running = s.running /\ StartThread(s, u) = z
  BY ReadyExecutes
<1>3. Keeps(s, r, X)
  BY <1>1, MakeReadyTurns
<1> HIDE DEF r
<1>4. Keeps(r, z, X) /\ Brings(r, z, s.running, RunQ)
  BY <1>2, YieldIfLowerTurns
<1>5. ~ IsIn(s.running, s.list[RunQ])
  BY <1>1, ListsDistinct DEF On
<1> HIDE DEF z
<1>6. Keeps(s, z, X)
  BY <1>3, <1>4, <1>5, KeepsCompose
<1> QED BY <1>2, <1>6

LEMMA WakeTurns ==
  ASSUME NEW A \in SUBSET Threads, NEW s, Settled(s, A), NEW lst \in Lists,
         lst # RunQ, NEW X
  PROVE  Keeps(s, WakeFirst(s, lst), X)
<1>1. CASE s.list[lst] = <<>>
  BY <1>1, SameLists DEF WakeFirst
<1>2. CASE s.list[lst] # <<>>
  <2> DEFINE h == Head(s.list[lst])
             p == PopThread(s, lst)
             r == MakeReady(p, h)
             z == YieldIfLower(r)
  <2>1. /\ Consistent(s) /\ Executing(s, A) /\ s.running \in Threads
        /\ s.running \notin On(s)
        /\ On(s) = {t \in A : t # s.running /\ s.state[t] # "STOPPED"}
        /\ s.queue[s.running] = RunQ
        /\ Idle \in A /\ s.state[Idle] # "STOPPED" /\ s.queue[Idle] = RunQ
        /\ \A t \in A : s.state[t] = "RUNNING" <=> t = s.running
        /\ s.running \in A
    BY DEF Settled, Executing, Booted
  <2>2. /\ Consistent(p) /\ On(p) = On(s) \ {h}
        /\ h \in On(s) /\ s.queue[h] = lst /\ p.queue = s.queue
        /\ p.running = s.running /\ p.state = s.state
    BY <1>2, <2>1, PopLinks
  <2>3. Keeps(s, p, X)
    BY <1>2, <2>1, PopTurns
  <2>4. WakeFirst(s, lst) = StartThread(p, h)
    BY <1>2 DEF WakeFirst
  <2> HIDE DEF p, h
  <2>5. h \in Threads /\ h \in A /\ h # s.running /\ h \notin On(p) /\ p.state[h] = "WAITING"
    <3>1. h \in Threads /\ Fits(s, h, s.queue[h])
      BY <2>1, <2>2, OnInLists
    <3> QED BY <3>1, <2>1, <2>2 DEF Fits
  <2>6. Waking(p, A, h)
    BY <2>1, <2>2, <2>5 DEF Waking
  <2>7. Executing(r, A) /\ r.running = s.running /\ StartThread(p, h) = z
    BY <2>2, <2>6, ReadyExecutes
  <2>8. Keeps(p, r, X) /\ Brings(p, r, h, RunQ)
    BY <2>2, <2>5, MakeReadyTurns
  <2> HIDE DEF r
  <2>9. Keeps(r, z, X) /\ Brings(r, z, s.running, RunQ)
    BY <2>7, YieldIfLowerTurns
  <2> HIDE DEF z
  <2>10. ~ IsIn(h, s.list[RunQ]) /\ ~ IsIn(s.running, s.list[RunQ])
    BY <2>1, <2>2, <2>5, ListsDistinct, Membership
  <2>11. Keeps(s, r, X)
    BY <2>3, <2>8, <2>10, KeepsCompose
  <2>12. Keeps(s, z, X)
    BY <2>9, <2>10, <2>11, KeepsCompose
  <2> QED BY <2>4, <2>7, <2>12
<1> QED BY <1>1, <1>2

(* The handler's wake-up. *)
LEMMA InterruptTurns ==
  ASSUME NEW s, Consistent(s), NEW lst \in Lists, lst # RunQ, NEW X
  PROVE  Keeps(s, WakeFromInterrupt(s, lst), X)
<1>1. CASE s.list[lst] = <<>>
  BY <1>1, SameLists DEF WakeFromInterrupt
<1>2. CASE s.list[lst] # <<>>
  <2> DEFINE h == Head(s.list[lst])
             p == PopThread(s, lst)
             r == EnqueueThread(p, RunQ, h)
  <2>1. Consistent(p) /\ On(p) = On(s) \ {h} /\ h \in On(s) /\ s.queue[h] = lst
    BY <1>2, PopLinks
  <2>2. Keeps(s, p, X)
    BY <1>2, PopTurns
  <2>3. WakeFromInterrupt(s, lst) = r
    BY <1>2 DEF WakeFromInterrupt
  <2> HIDE DEF p, h
  <2>4. /\ h \in Threads /\ p \in SchedType /\ Ordered(p.list[RunQ], p.priority)
        /\ ~ IsIn(h, p.list[RunQ])
    BY <2>1, ListsDistinct DEF On, Consistent
  <2>5. Keeps(p, r, X) /\ Brings(p, r, h, RunQ)
    BY <2>4, ListsDistinct, EnqueueTurns
  <2>6. ~ IsIn(h, s.list[RunQ])
    BY <2>1, <2>4, ListsDistinct, Membership
  <2> HIDE DEF r
  <2>7. Keeps(s, r, X)
    BY <2>2, <2>5, <2>6, KeepsCompose
  <2> QED BY <2>3, <2>7
<1> QED BY <1>1, <1>2

(* The return from an exception.  The thread put in front is the one dispatched;
   when another runs it is a more urgent one. *)
LEMMA RedispatchTurns ==
  ASSUME NEW A \in SUBSET Threads, NEW s, Interrupted(s, A), NEW X
  PROVE  LET r == Redispatch(s)
         IN /\ Keeps(s, r, X) /\ Brings(s, r, s.running, RunQ)
            /\ r.running # s.running => s.priority[r.running] > s.priority[s.running]
<1> DEFINE t == s.running
<1>1. /\ Consistent(s) /\ s \in SchedType /\ t \in Threads /\ t \notin On(s)
      /\ Leaving(s, A) /\ s.state[t] \in {"RUNNABLE", "WAITING"}
      /\ s.priority[t] \in Priorities /\ s.priority \in [Threads -> Priorities]
  BY DEF Interrupted, Leaving, Booted, Consistent, SchedType
<1>2. CASE ~ (s.priority[t] >= HeadPriority(s))
  <2> DEFINE e == EnqueueThread(s, RunQ, t)
             r == DispatchThread(e)
  <2>1. Redispatch(s) = r /\ Redispatch(s) = EnqueueAndYield(s, RunQ)
    BY <1>2 DEF Redispatch, EnqueueAndYield
  <2>2. Keeps(s, EnqueueAndYield(s, RunQ), X)
        /\ Brings(s, EnqueueAndYield(s, RunQ), s.running, RunQ)
    BY <1>1, ListsDistinct, YieldTurns
  <2> HIDE DEF t
  <2>3. /\ Consistent(e) /\ On(e) = On(s) \cup {t}
        /\ e.queue = [s.queue EXCEPT ![t] = RunQ] /\ e.priority = s.priority
    BY <1>1, ListsDistinct, EnqueueLinks
  <2> HIDE DEF e
  <2>4. \A u \in Threads : Ready(s, u) => Ready(e, u)
    <3>1. s.queue \in [Threads -> Lists \cup {NoList}]
      BY <1>1 DEF SchedType
    <3> QED BY <3>1, <2>3, <1>1 DEF Ready
  <2>5. PICK v \in Threads : Ready(s, v) /\ ~ (s.priority[v] <= s.priority[t])
    <3>1. HeadPriority(s) \in Int /\ s.priority[t] \in Int
      BY <1>1, HeadPriorityBounds, PriorityInt
    <3>2. ~ (HeadPriority(s) <= s.priority[t])
      BY <3>1, <1>2 DEF t
    <3> QED BY <3>2, <1>1, HeadPriorityBounds
  <2>6. /\ On(r) = On(e) \ {r.running} /\ r.running \in Threads
        /\ MostUrgentIs(r, r.running) /\ r.queue = e.queue /\ r.priority = e.priority
    BY <2>3, <2>4, <2>5, DispatchRuns
  <2> HIDE DEF r
  <2>7. s.priority[v] <= s.priority[r.running]
    <3>1. s.priority[v] \in Int
      BY <1>1, PriorityInt
    <3>2. CASE v = r.running
      BY <3>1, <3>2
    <3>3. CASE v # r.running
      BY <3>3, <2>3, <2>4, <2>5, <2>6 DEF Ready, MostUrgentIs
    <3> QED BY <3>2, <3>3
  <2>8. s.priority[r.running] > s.priority[t]
    <3>1. s.priority[v] \in Int /\ s.priority[t] \in Int /\ s.priority[r.running] \in Int
      BY <1>1, <2>6, PriorityInt
    <3> QED BY <3>1, <2>5, <2>7
  <2> QED BY <2>1, <2>2, <2>8 DEF t
<1>3. CASE s.priority[t] >= HeadPriority(s)
  <2> DEFINE old == s.list[RunQ]
             m == <<t>> \o old
             r == [s EXCEPT !.list[RunQ] = m]
             z == DispatchThread(r)
  <2>1. Redispatch(s) = z
    BY <1>3 DEF Redispatch
  <2> HIDE DEF t
  <2>2. old \in Seq(Threads) /\ t \in Threads
    BY <1>1, ListsDistinct DEF SchedType
  <2> HIDE DEF old
  <2>3. m \in Seq(Threads) /\ m # <<>> /\ Head(m) = t /\ Tail(m) = old
    <3>1. <<t>> \in Seq(Threads) /\ Len(<<t>>) = 1 /\ <<t>>[1] = t /\ Len(old) \in Nat
      BY <2>2, LenProperties
    <3>2. /\ m \in Seq(Threads) /\ Len(m) = Len(<<t>>) + Len(old)
          /\ \A j \in 1..(Len(<<t>>) + Len(old)) :
               m[j] = IF j <= Len(<<t>>) THEN <<t>>[j] ELSE old[j - Len(<<t>>)]
      BY <2>2, <3>1, ConcatProperties
    <3> HIDE DEF m
    <3>3. /\ Len(m) = Len(old) + 1
          /\ \A j \in 1..(Len(old) + 1) : m[j] = IF j = 1 THEN t ELSE old[j - 1]
      BY <3>1, <3>2
    <3>4. m # <<>>
      BY <3>1, <3>2, <3>3, EmptySeq
    <3>5. /\ Head(m) = m[1] /\ Tail(m) \in Seq(Threads) /\ Len(Tail(m)) = Len(m) - 1
          /\ \A j \in 1..Len(Tail(m)) : Tail(m)[j] = m[j + 1]
      BY <3>2, <3>4, HeadTailProperties
    <3>6. \A j \in 1..Len(old) : Tail(m)[j] = old[j]
      <4> SUFFICES ASSUME NEW j \in 1..Len(old) PROVE Tail(m)[j] = old[j]
        OBVIOUS
      <4>1. /\ j + 1 \in 1..(Len(old) + 1) /\ j + 1 # 1 /\ (j + 1) - 1 = j
            /\ j \in 1..Len(Tail(m))
        BY <3>1, <3>3, <3>5
      <4>2. m[j + 1] = old[j]
        BY <3>3, <4>1
      <4> QED BY <3>5, <4>1, <4>2
    <3>7. Len(Tail(m)) = Len(old)
      BY <3>1, <3>3, <3>5
    <3>8. Tail(m) = old
      BY <2>2, <3>5, <3>6, <3>7, SeqEqual
    <3>9. m[1] = t
      BY <3>1, <3>3
    <3> QED BY <3>2, <3>4, <3>5, <3>8, <3>9
  <2> HIDE DEF m
  <2>4. /\ r \in SchedType /\ r.list[RunQ] = m /\ r.priority = s.priority
        /\ \A l \in Lists \ {RunQ} : r.list[l] = s.list[l]
    BY <1>1, <2>3, ListsDistinct DEF SchedType
  <2> HIDE DEF r
  <2>5. z = [PopThread(r, RunQ) EXCEPT !.running = t, !.state[t] = "RUNNING"]
    BY <2>3, <2>4 DEF DispatchThread
  <2>6. PopThread(r, RunQ) \in SchedType
    BY <2>3, <2>4, ListsDistinct, PopThreadType
  <2>7. /\ PopThread(r, RunQ).priority = s.priority
        /\ \A l \in Lists : PopThread(r, RunQ).list[l] = s.list[l]
    BY <2>3, <2>4, ListsDistinct DEF PopThread, SchedType, old
  <2> DEFINE p == PopThread(r, RunQ)
  <2> HIDE DEF z, p
  <2>8. /\ z.running = t /\ z.priority = s.priority
        /\ \A l \in Lists : z.list[l] = s.list[l]
    BY <2>5, <2>6, <2>7 DEF SchedType, p
  <2>9. Keeps(s, z, X) /\ Brings(s, z, s.running, RunQ)
    BY <2>8, SameLists
  <2> QED BY <2>1, <2>8, <2>9 DEF t
<1> QED BY <1>2, <1>3

------------------------------------------------------------------------------
(* The order is kept when every exempt thread changes priority or is in no list
   afterwards. *)
LEMMA OrderKept ==
  ASSUME KernelInv', NEW X \in SUBSET Threads, Keeps(sched, sched', X),
         \A x \in X : ~ KeepsPriority(x) \/ \A l \in Lists : ~ IsIn(x, sched'.list[l])
  PROVE  EqualsKeepOrder
<1>1. sched' \in SchedType
  BY DEF KernelInv, TypeInv, TypeOK
<1>2. ASSUME NEW l \in Lists, NEW t \in ToSet(sched'.list[l])
      PROVE  t \in Threads /\ IsIn(t, sched'.list[l])
  <2>1. sched'.list[l] \in Seq(Threads)
    BY <1>1 DEF SchedType
  <2>2. PICK i \in DOMAIN sched'.list[l] : sched'.list[l][i] = t
    BY DEF ToSet
  <2>3. i \in 1..Len(sched'.list[l])
    BY <2>1, <2>2, LenProperties
  <2> QED BY <2>1, <2>2, <2>3, ElementOfSeq DEF IsIn
<1> QED BY <1>2 DEF Keeps, EqualsKeepOrder

LEMMA OrderSame ==
  ASSUME KernelInv', \A l \in Lists : sched'.list[l] = sched.list[l],
         sched'.priority = sched.priority
  PROVE  EqualsKeepOrder
<1>1. Keeps(sched, sched', {})
  BY SameLists
<1> QED BY <1>1, OrderKept

LEMMA BlockOrder ==
  ASSUME KernelInv, KernelInv', NEW t \in Threads, Running(t),
         NEW op, NEW q, NEW m, NEW lst \in Lists, Block(t, op, q, m, lst)
  PROVE  EqualsKeepOrder
<1> DEFINE w == [sched EXCEPT !.state[t] = "WAITING"]
           r == EnqueueAndYield(w, lst)
<1>1. sched.running = t /\ active \in SUBSET Threads /\ Executing(sched, active)
  BY RunningSettled
<1>2. sched' = r
  BY DEF Block
<1>3. Leaving(w, active) /\ w.state[w.running] = "WAITING"
  <2>1. active \in SUBSET Threads /\ Executing(sched, active) /\ sched.running = t
    BY <1>1
  <2> QED BY <2>1, LeavingState
<1>4. w.list = sched.list /\ w.priority = sched.priority
  BY <1>1 DEF Executing, Booted, Consistent, SchedType
<1> HIDE DEF w
<1>5. Keeps(w, r, {})
  BY <1>1, <1>3, YieldTurns
<1> HIDE DEF r
<1>6. Keeps(sched, sched', {})
  BY <1>2, <1>4, <1>5 DEF Keeps
<1> QED BY <1>6, OrderKept

LEMMA WokenOrder ==
  ASSUME KernelInv, KernelInv', NEW t \in Threads, Running(t),
         NEW lst \in Lists, lst # RunQ, sched' = WakeFirst(sched, lst)
  PROVE  EqualsKeepOrder
<1>1. active \in SUBSET Threads /\ Settled(sched, active)
  BY RunningSettled
<1>2. Keeps(sched, sched', {})
  BY <1>1, WakeTurns
<1> QED BY <1>2, OrderKept

LEMMA MesgOrder ==
  ASSUME KernelInv, KernelInv', NEW t \in Threads, MesgCall(t) \/ ResumeMesg(t)
  PROVE  EqualsKeepOrder
<1>1. ASSUME Running(t), NEW q \in Queues, NEW m,
             TrySend(t, q, m) \/ TryJam(t, q, m) \/ TryRecv(t, q)
      PROVE  EqualsKeepOrder
  <2>1. /\ MtQ(q) \in Lists /\ MtQ(q) # RunQ /\ FullQ(q) \in Lists /\ FullQ(q) # RunQ
    BY ListsDistinct
  <2>2. \/ Block(t, "send", q, m, FullQ(q)) \/ Block(t, "jam", q, m, FullQ(q))
        \/ Block(t, "recv", q, NoMsg, MtQ(q))
        \/ sched' = WakeFirst(sched, MtQ(q)) \/ sched' = WakeFirst(sched, FullQ(q))
    BY <1>1 DEF TrySend, TryJam, TryRecv
  <2> QED BY <1>1, <2>1, <2>2, BlockOrder, WokenOrder
<1>2. InUser(t) => Running(t)
  BY DEF InUser
<1>3. ASSUME NEW q \in Queues, NEW m \in Msgs, SendMesg(t, q, m) \/ JamMesg(t, q, m)
      PROVE  EqualsKeepOrder
  BY <1>1, <1>2, <1>3 DEF SendMesg, JamMesg
<1>4. ASSUME NEW q \in Queues, RecvMesg(t, q)
      PROVE  EqualsKeepOrder
  BY <1>1, <1>2, <1>4 DEF RecvMesg
<1>5. CASE ResumeMesg(t)
  <2>1. /\ Running(t)
        /\ \/ call[t].op = "send" /\ TrySend(t, call[t].q, call[t].m)
           \/ call[t].op = "jam"  /\ TryJam(t, call[t].q, call[t].m)
           \/ call[t].op = "recv" /\ TryRecv(t, call[t].q)
    BY <1>5 DEF ResumeMesg
  <2>2. call[t] \in CallType
    BY DEF KernelInv, TypeInv, TypeOK
  <2>3. call[t].op \in {"send", "jam", "recv"} => call[t].q \in Queues
    BY <2>2 DEF CallType, User, Pending
  <2> QED BY <1>1, <2>1, <2>3
<1> QED BY <1>3, <1>4, <1>5 DEF MesgCall

LEMMA EventOrder ==
  ASSUME KernelInv, KernelInv', NEW t \in Threads, EventCall(t) \/ ResumeSetEvent(t)
  PROVE  EqualsKeepOrder
<1>1. ASSUME NEW e \in RegEvents, NEW q \in Queues, SetEventMesg(t, e, q)
      PROVE  EqualsKeepOrder
  <2>1. Running(t) /\ MtQ(q) \in Lists /\ MtQ(q) # RunQ
    BY <1>1, ListsDistinct DEF SetEventMesg, InUser
  <2>2. sched' = WakeFirst(sched, MtQ(q)) \/ sched' = sched
    BY <1>1 DEF SetEventMesg
  <2> QED BY <2>1, <2>2, WokenOrder, OrderSame
<1>2. CASE ResumeSetEvent(t)
  BY <1>2, OrderSame DEF ResumeSetEvent
<1> QED BY <1>1, <1>2 DEF EventCall

LEMMA ThreadOrder ==
  ASSUME KernelInv, KernelInv', NEW t \in Threads, ThreadCall(t)
  PROVE  EqualsKeepOrder
<1>0. ThreadCall(t) => InUser(t)
  BY DEF ThreadCall, CreateThread, OSStartThread, StopThread, SetThreadPri,
         DestroyThread, YieldThread
<1>1. /\ sched.running = t /\ t \in active /\ active \in SUBSET Threads
      /\ Settled(sched, active) /\ Executing(sched, active) /\ Consistent(sched)
      /\ \A u \in active : sched.state[u] = "RUNNING" <=> u = t
  BY <1>0, RunningSettled DEF InUser
<1>2. /\ sched \in SchedType
      /\ On(sched) = {u \in active : u # t /\ sched.state[u] # "STOPPED"}
  BY <1>1 DEF Executing, Booted, Consistent
<1>3. ASSUME NEW u \in Threads
      PROVE  u \notin On(DequeueThread(sched, sched.queue[u], u))
  <2> DEFINE r == DequeueThread(sched, sched.queue[u], u)
  <2>1. On(r) = On(sched) \ {u}
    BY <1>1, DequeueUnlinks
  <2>2. u \notin On(r)
    <3> HIDE DEF r
    <3> QED BY <2>1
  <2> QED BY <2>2
<1>4. ASSUME NEW u \in Threads \ {Idle}, NEW p \in Prios, CreateThread(t, u, p)
      PROVE  EqualsKeepOrder
  <2>1. u \notin active /\ sched' = [sched EXCEPT !.state[u] = "STOPPED", !.priority[u] = p,
                                                  !.queue[u] = NoList]
    BY <1>4 DEF CreateThread
  <2>2. sched'.list = sched.list /\ \A v \in Threads \ {u} : sched'.priority[v] = sched.priority[v]
    BY <2>1, <1>2 DEF SchedType
  <2>3. \A l \in Lists : ~ IsIn(u, sched'.list[l])
    BY <2>1, <2>2, <1>2 DEF On
  <2>4. Keeps(sched, sched', {u})
    BY <2>2, SameLists
  <2> QED BY <2>3, <2>4, OrderKept
<1>5. ASSUME NEW u \in Threads, OSStartThread(t, u)
      PROVE  EqualsKeepOrder
  <2>1. u \in active /\ sched.state[u] = "STOPPED" /\ sched' = StartThread(sched, u)
    BY <1>5 DEF OSStartThread
  <2>2. Waking(sched, active, u)
    BY <1>1, <2>1 DEF Waking, Executing, Booted
  <2>3. Keeps(sched, sched', {})
    BY <1>1, <2>1, <2>2, StartTurns
  <2> QED BY <2>3, OrderKept
<1>6. ASSUME NEW u \in Threads, StopThread(t, u)
      PROVE  EqualsKeepOrder
  <2> DEFINE w == [sched EXCEPT !.state[u] = "STOPPED"]
             d == DequeueThread(w, sched.queue[u], u)
  <2>1. /\ u \in active
        /\ \/ sched.state[u] = "RUNNING" /\ sched' = DispatchThread(w)
           \/ sched.state[u] # "RUNNING" /\ sched' = d
    BY <1>6 DEF StopThread
  <2>2. /\ w \in SchedType /\ w.list = sched.list /\ w.priority = sched.priority
        /\ w.queue = sched.queue
        /\ \A v \in Threads \ {u} : w.state[v] = sched.state[v]
    BY <1>2 DEF SchedType, States
  <2> HIDE DEF w
  <2>3. CASE sched.state[u] = "RUNNING" /\ sched' = DispatchThread(w)
    <3>1. u \notin On(sched)
      BY <1>1, <1>2, <2>1, <2>3
    <3>2. Consistent(w)
      BY <1>1, <2>2, <3>1, UnlinkedChanges
    <3>3. Keeps(w, sched', {})
      BY <2>3, <3>2, DispatchTurns
    <3>4. Keeps(sched, sched', {})
      BY <2>2, <3>3 DEF Keeps
    <3> QED BY <3>4, OrderKept
  <2>4. CASE sched' = d
    <3> DEFINE lst == sched.queue[u]
    <3>1. lst \in Lists \cup {NoList}
      BY <1>2 DEF SchedType
    <3>2. sched' = DequeueThread(w, lst, u)
      BY <2>4
    <3> HIDE DEF lst, d
    <3>3. Keeps(w, sched', {u})
      BY <2>2, <3>1, <3>2, DequeueTurns
    <3>4. Keeps(sched, sched', {u})
      BY <2>2, <3>3 DEF Keeps
    <3>5. \A l \in Lists : ~ IsIn(u, sched'.list[l])
      <4>1. u \notin On(DequeueThread(sched, lst, u))
        BY <1>3 DEF lst
      <4>2. sched'.list = DequeueThread(sched, lst, u).list
        BY <1>2, <2>2, <3>1, <3>2 DEF DequeueThread, SchedType
      <4> QED BY <4>1, <4>2 DEF On
    <3> QED BY <3>4, <3>5, OrderKept
  <2> QED BY <2>1, <2>3, <2>4
<1>7. ASSUME NEW u \in Threads, NEW p \in Prios, SetThreadPri(t, u, p)
      PROVE  EqualsKeepOrder
  <2> DEFINE w == [sched EXCEPT !.priority[u] = p]
             x == Requeue(w, u)
             y == YieldIfLower(x)
  <2>1. u \in active /\ p \in Priorities /\ sched.priority[u] # p /\ sched' = y
    BY <1>7, KernelAssumption DEF SetThreadPri, Priorities
  <2>2. Executing(x, active) /\ x.queue = sched.queue
    BY <1>1, <2>1, RequeueExecutes
  <2>3. /\ w \in SchedType /\ w.list = sched.list /\ w.queue = sched.queue
        /\ w.running = t /\ w.state = sched.state
        /\ w.priority[u] = p
        /\ \A v \in Threads \ {u} : w.priority[v] = sched.priority[v]
    BY <1>1, <1>2, <2>1 DEF SchedType
  <2> HIDE DEF w
  <2>4. Keeps(sched, w, {u})
    BY <2>3, SameLists
  <2>5. /\ Keeps(w, x, {u}) /\ x.running = t /\ x.priority = w.priority
        /\ \A l \in Lists : IsIn(t, x.list[l]) => IsIn(t, sched.list[l])
    <3>1. CASE u # w.running /\ w.state[u] # "STOPPED"
      <4> DEFINE lst == w.queue[u]
                 d == DequeueThread(w, lst, u)
                 e == EnqueueThread(d, lst, u)
      <4>1. x = e
        BY <3>1 DEF Requeue
      <4>2. lst \in Lists
        BY <1>1, <1>2, <2>1, <2>3, <3>1, OnInLists
      <4> HIDE DEF lst, x
      <4>3. /\ d \in SchedType /\ d.running = w.running /\ d.priority = w.priority
            /\ Keeps(w, d, {u}) /\ Brings(w, d, u, lst)
        <5>1. d \in SchedType /\ Keeps(w, d, {u}) /\ Brings(w, d, u, lst)
          BY <2>3, <4>2, DequeueThreadType, DequeueTurns
        <5>2. d.running = w.running /\ d.priority = w.priority
          BY <2>3 DEF DequeueThread, SchedType
        <5> QED BY <5>1, <5>2
      <4> HIDE DEF d
      <4>4. e.running = d.running /\ e.priority = d.priority
        BY <4>3 DEF EnqueueThread, SchedType
      <4>5. Keeps(d, e, {u}) /\ Brings(d, e, u, lst)
        BY <4>2, <4>3, EnqueueTurns
      <4> HIDE DEF e
      <4>6. Keeps(w, e, {u})
        BY <4>3, <4>5, KeepsCompose
      <4>7. \A l \in Lists : IsIn(t, e.list[l]) => IsIn(t, sched.list[l])
        BY <2>3, <3>1, <4>3, <4>5 DEF Brings
      <4> QED BY <4>1, <4>3, <4>4, <4>6, <4>7, <2>3
    <3>2. CASE ~ (u # w.running /\ w.state[u] # "STOPPED")
      <4>1. x = w
        BY <3>2 DEF Requeue
      <4> HIDE DEF x
      <4> QED BY <4>1, <2>3, SameLists
    <3> QED BY <3>1, <3>2
  <2> HIDE DEF x
  <2>6. Keeps(x, y, {u}) /\ Keeps(x, y, {}) /\ Brings(x, y, t, RunQ)
    BY <1>1, <2>2, <2>5, YieldIfLowerTurns
  <2> HIDE DEF y
  <2>7. ~ IsIn(t, sched.list[RunQ]) /\ ~ IsIn(t, w.list[RunQ])
    BY <1>2, <2>3, ListsDistinct DEF On
  <2>8. Keeps(w, y, {u})
    BY <2>5, <2>6, <2>7, KeepsCompose
  <2>9. Keeps(sched, y, {u})
    BY <2>3, <2>8 DEF Keeps
  <2>10. ~ KeepsPriority(u)
    <3>1. y.priority[u] = p
      BY <2>3, <2>5, <2>6 DEF Keeps
    <3> QED BY <2>1, <3>1 DEF KeepsPriority
  <2> QED BY <2>1, <2>9, <2>10, OrderKept
<1>8. ASSUME NEW u \in Threads, DestroyThread(t, u)
      PROVE  EqualsKeepOrder
  <2> DEFINE lst == sched.queue[u]
  <2>1. \/ sched' = DispatchThread(sched)
        \/ sched' = DequeueThread(sched, lst, u)
        \/ sched' = sched
    BY <1>8 DEF DestroyThread
  <2>2. lst \in Lists \cup {NoList}
    BY <1>2 DEF SchedType
  <2>3. u \notin On(DequeueThread(sched, lst, u))
    BY <1>3
  <2> HIDE DEF lst
  <2>4. CASE sched' = DispatchThread(sched)
    <3>1. Keeps(sched, sched', {})
      BY <1>1, <2>4, DispatchTurns
    <3> QED BY <3>1, OrderKept
  <2>5. CASE sched' = DequeueThread(sched, lst, u)
    <3>1. Keeps(sched, sched', {u})
      BY <1>2, <2>2, <2>5, DequeueTurns
    <3>2. \A l \in Lists : ~ IsIn(u, sched'.list[l])
      BY <2>3, <2>5 DEF On
    <3> QED BY <3>1, <3>2, OrderKept
  <2> QED BY <2>1, <2>4, <2>5, OrderSame
<1>9. CASE YieldThread(t)
  <2> DEFINE w == [sched EXCEPT !.state[t] = "RUNNABLE"]
  <2>1. sched' = EnqueueAndYield(w, RunQ)
    BY <1>9 DEF YieldThread
  <2>2. Leaving(w, active)
    <3>1. active \in SUBSET Threads /\ Executing(sched, active) /\ sched.running = t
      BY <1>1
    <3> QED BY <3>1, LeavingState
  <2>3. w.list = sched.list /\ w.priority = sched.priority
    BY <1>2 DEF SchedType
  <2> HIDE DEF w
  <2>4. Keeps(w, sched', {})
    BY <1>1, <2>1, <2>2, ListsDistinct, YieldTurns
  <2>5. Keeps(sched, sched', {})
    BY <2>3, <2>4 DEF Keeps
  <2> QED BY <2>5, OrderKept
<1> QED BY <1>4, <1>5, <1>6, <1>7, <1>8, <1>9 DEF ThreadCall

(* The handler's wake-ups do not dispatch. *)
LEMMA PostRuns ==
  ASSUME KernelInv, NEW s \in SchedType, NEW e \in Events
  PROVE  PostSched(s, e).running = s.running
<1>1. CASE Posts(e)
  <2>1. evtab[e] \in Queues
    BY <1>1 DEF Posts, KernelInv, TypeInv, TypeOK
  <2>2. MtQ(evtab[e]) \in Lists
    BY <2>1, ListsDistinct
  <2>3. PostSched(s, e) = WakeFromInterrupt(s, MtQ(evtab[e]))
    BY <1>1 DEF PostSched
  <2> QED BY <2>2, <2>3, WakeFromInterruptType
<1>2. CASE ~ Posts(e)
  BY <1>2 DEF PostSched
<1> QED BY <1>1, <1>2

(* Posting an event. *)
LEMMA PostTurns ==
  ASSUME KernelInv, NEW s, Consistent(s), NEW e \in Events, NEW X
  PROVE  Keeps(s, PostSched(s, e), X)
<1>1. CASE Posts(e)
  <2>1. evtab[e] \in Queues
    BY <1>1 DEF Posts, KernelInv, TypeInv, TypeOK
  <2>2. MtQ(evtab[e]) \in Lists /\ MtQ(evtab[e]) # RunQ
    BY <2>1, ListsDistinct
  <2>3. PostSched(s, e) = WakeFromInterrupt(s, MtQ(evtab[e]))
    BY <1>1 DEF PostSched
  <2> QED BY <2>2, <2>3, InterruptTurns
<1>2. CASE ~ Posts(e)
  BY <1>2, SameLists DEF PostSched
<1> QED BY <1>1, <1>2

LEMMA HandlerOrder ==
  ASSUME KernelInv, KernelInv', Handler
  PROVE  EqualsKeepOrder /\ InterruptKeepsTurn
<1>1. exc /\ active \in SUBSET Threads /\ Consistent(sched)
  BY AlwaysConsistent DEF Handler, ServeCause, PiCallback, CartCallback, FirstPreNMI,
     LaterPreNMI, ReturnFromException, IsNext, KernelInv, TypeInv, TypeOK
<1>2. Interrupted(sched, active)
  BY <1>1 DEF KernelInv, Scheduled
<1>3. ASSUME NEW e \in Events, sched' = PostSched(sched, e), exc' = exc
      PROVE  EqualsKeepOrder /\ InterruptKeepsTurn
  <2>1. Keeps(sched, sched', {})
    BY <1>1, <1>3, PostTurns
  <2> QED BY <1>1, <1>3, <2>1, OrderKept DEF InterruptKeepsTurn
<1>4. ASSUME NEW e \in HwEvents, ServeCause(e)
      PROVE  EqualsKeepOrder /\ InterruptKeepsTurn
  <2>1. e \in Events /\ sched' = PostSched(sched, e) /\ exc' = exc
    BY <1>4, KernelAssumption DEF ServeCause
  <2> QED BY <2>1, <1>3
<1>5. CASE PiCallback \/ CartCallback \/ LaterPreNMI
  <2>1. sched' = sched /\ exc' = exc
    BY <1>5 DEF PiCallback, CartCallback, LaterPreNMI
  <2> QED BY <1>1, <2>1, OrderSame DEF InterruptKeepsTurn
<1>6. CASE FirstPreNMI
  <2>1. "PRENMI" \in Events
    <3>1. HwOrder[2] = "PRENMI" /\ 2 \in 1..Len(HwOrder)
      BY DEF HwOrder
    <3> QED BY <3>1 DEF Events
  <2>2. sched' = PostSched(sched, "PRENMI") /\ exc' = exc
    BY <1>6 DEF FirstPreNMI
  <2> QED BY <1>3, <2>1, <2>2
<1>7. CASE ReturnFromException
  <2> DEFINE r == Redispatch(sched)
  <2>1. sched' = r
    BY <1>7 DEF ReturnFromException
  <2>2. /\ Keeps(sched, r, {})
        /\ r.running # sched.running
             => sched.priority[r.running] > sched.priority[sched.running]
    BY <1>1, <1>2, RedispatchTurns
  <2> HIDE DEF r
  <2>3. EqualsKeepOrder
    BY <2>1, <2>2, OrderKept
  <2>4. InterruptKeepsTurn
    BY <2>1, <2>2 DEF InterruptKeepsTurn
  <2> QED BY <2>3, <2>4
<1> QED BY <1>4, <1>5, <1>6, <1>7 DEF Handler

LEMMA ExceptionOrder ==
  ASSUME KernelInv, KernelInv',
         \/ \E S \in SUBSET HwEvents : Exception(S)
         \/ \E t \in Threads : Fault(t) \/ Break(t)
  PROVE  EqualsKeepOrder
<1>1. PICK t \in Threads :
        /\ InUser(t)
        /\ (\E S \in SUBSET HwEvents : Exception(S)) \/ Fault(t) \/ Break(t)
  BY DEF Exception, Fault, Break
<1>2. /\ sched.running = t /\ t \in active /\ active \in SUBSET Threads
      /\ Executing(sched, active) /\ Consistent(sched)
  BY <1>1, RunningSettled DEF InUser
<1>3. sched \in SchedType /\ t \notin On(sched)
  BY <1>2 DEF Executing, Booted, Consistent
<1>4. CASE \E S \in SUBSET HwEvents : Exception(S)
  <2>1. sched' = [sched EXCEPT !.state[t] = "RUNNABLE"]
    BY <1>2, <1>4 DEF Exception
  <2>2. sched'.list = sched.list /\ sched'.priority = sched.priority
    BY <1>3, <2>1 DEF SchedType
  <2> QED BY <2>2, OrderSame
<1>5. CASE Break(t)
  <2> DEFINE w == [sched EXCEPT !.state[t] = "RUNNABLE"]
             p == PostSched(w, "CPU_BREAK")
             r == Redispatch(p)
  <2>1. sched' = r /\ "CPU_BREAK" \in Events
    BY <1>5 DEF Break, Events
  <2>2. Interrupted(w, active) /\ w.running = t
    <3>1. Leaving(w, active) /\ w.state[w.running] = "RUNNABLE" /\ w.running = t
      <4>1. active \in SUBSET Threads /\ Executing(sched, active) /\ sched.running = t
        BY <1>2
      <4> QED BY <4>1, LeavingState
    <3> HIDE DEF w
    <3> QED BY <3>1 DEF Interrupted
  <2>3. w \in SchedType /\ w.list = sched.list /\ w.priority = sched.priority
    BY <1>3 DEF SchedType, States
  <2> HIDE DEF w
  <2>4. Keeps(w, p, {})
    BY <2>1, <2>2, PostTurns DEF Interrupted, Leaving, Booted
  <2>5. Interrupted(p, active) /\ p.running = t
    <3>1. Interrupted(p, active)
      BY <1>2, <2>1, <2>2, PostKeeps
    <3>2. p.running = w.running
      BY <1>3, <2>1, <2>3, PostRuns
    <3> QED BY <2>2, <3>1, <3>2
  <2> HIDE DEF p
  <2>6. Keeps(p, r, {}) /\ Brings(p, r, t, RunQ)
    BY <1>2, <2>5, RedispatchTurns
  <2> HIDE DEF r
  <2>7. ~ IsIn(t, w.list[RunQ])
    BY <1>3, <2>3, ListsDistinct DEF On
  <2>8. Keeps(w, r, {})
    BY <2>4, <2>6, <2>7, KeepsCompose
  <2>9. Keeps(sched, sched', {})
    BY <2>1, <2>3, <2>8 DEF Keeps
  <2> QED BY <2>9, OrderKept
<1>6. CASE Fault(t)
  <2> DEFINE w == [sched EXCEPT !.state[t] = "STOPPED"]
             p == PostSched(w, "FAULT")
             r == DispatchThread(p)
  <2>1. sched' = r /\ "FAULT" \in Events
    BY <1>6 DEF Fault, Events
  <2>2. /\ w \in SchedType /\ w.list = sched.list /\ w.priority = sched.priority
        /\ w.queue = sched.queue
        /\ \A v \in Threads \ {t} : w.state[v] = sched.state[v]
    BY <1>3 DEF SchedType, States
  <2> HIDE DEF w
  <2>3. Consistent(w)
    BY <1>2, <1>3, <2>2, UnlinkedChanges
  <2>4. Keeps(w, p, {})
    BY <2>1, <2>3, PostTurns
  <2>5. Consistent(p)
    <3>1. CASE Posts("FAULT")
      <4>1. evtab["FAULT"] \in Queues
        BY <2>1, <3>1 DEF Posts, KernelInv, TypeInv, TypeOK
      <4>2. MtQ(evtab["FAULT"]) \in Lists /\ MtQ(evtab["FAULT"]) # RunQ
        BY <4>1, ListsDistinct
      <4>3. p = WakeFromInterrupt(w, MtQ(evtab["FAULT"]))
        BY <3>1 DEF PostSched
      <4> HIDE DEF p
      <4> QED BY <2>3, <4>2, <4>3, InterruptMoves
    <3>2. CASE ~ Posts("FAULT")
      BY <2>3, <3>2 DEF PostSched
    <3> QED BY <3>1, <3>2
  <2> HIDE DEF p
  <2>6. Keeps(p, r, {}) /\ Brings(p, r, t, RunQ)
    BY <2>5, DispatchTurns
  <2> HIDE DEF r
  <2>7. ~ IsIn(t, w.list[RunQ])
    BY <1>3, <2>2, ListsDistinct DEF On
  <2>8. Keeps(w, r, {})
    BY <2>4, <2>6, <2>7, KeepsCompose
  <2>9. Keeps(sched, sched', {})
    BY <2>1, <2>2, <2>8 DEF Keeps
  <2> QED BY <2>9, OrderKept
<1> QED BY <1>1, <1>4, <1>5, <1>6

(* Only the handler ends an exception. *)
LEMMA TurnsStep ==
  ASSUME KernelInv, KernelInv', [Next]_vars
  PROVE  EqualsKeepOrder /\ InterruptKeepsTurn
<1>1. ASSUME ~ exc PROVE InterruptKeepsTurn
  BY <1>1 DEF InterruptKeepsTurn
<1>2. CASE Boot
  <2>1. sched.running = NoThread
    BY <1>2 DEF Boot
  <2>2. ~ exc /\ On(sched) = {}
    BY <2>1 DEF KernelInv, Scheduled, ToBoot
  <2>3. sched' \in SchedType
    BY DEF KernelInv, TypeInv, TypeOK
  <2>4. ASSUME NEW l \in Lists, NEW t \in ToSet(sched'.list[l]), NEW u
        PROVE  ~ Ahead(sched.list[l], t, u)
    <3>1. sched'.list[l] \in Seq(Threads)
      BY <2>3 DEF SchedType
    <3>2. t \in Threads
      BY <3>1 DEF ToSet
    <3>3. ~ IsIn(t, sched.list[l])
      BY <2>2, <3>2 DEF On
    <3> QED BY <3>3 DEF Ahead, IsIn
  <2>5. EqualsKeepOrder
    BY <2>4 DEF EqualsKeepOrder
  <2> QED BY <1>1, <2>2, <2>5
<1>3. ASSUME NEW t \in Threads,
             MesgCall(t) \/ ThreadCall(t) \/ EventCall(t) \/ Resume(t)
               \/ Fault(t) \/ Break(t)
      PROVE  EqualsKeepOrder /\ InterruptKeepsTurn
  <2>1. ~ exc
    BY <1>3 DEF MesgCall, SendMesg, JamMesg, RecvMesg, ThreadCall, CreateThread,
       OSStartThread, StopThread, SetThreadPri, DestroyThread, YieldThread, EventCall,
       SetEventMesg, Resume, ResumeMesg, ResumeSetEvent, Fault, Break, InUser, Running
  <2>2. EqualsKeepOrder
    BY <1>3, MesgOrder, ThreadOrder, EventOrder, ExceptionOrder DEF Resume
  <2> QED BY <1>1, <2>1, <2>2
<1>4. CASE \E S \in SUBSET HwEvents : Exception(S)
  <2>1. ~ exc
    BY <1>4 DEF Exception, InUser, Running
  <2>2. EqualsKeepOrder
    BY <1>4, ExceptionOrder
  <2> QED BY <1>1, <2>1, <2>2
<1>5. CASE Handler
  BY <1>5, HandlerOrder
<1>6. CASE UNCHANGED vars
  <2>1. sched' = sched /\ exc' = exc
    BY <1>6 DEF vars
  <2>2. EqualsKeepOrder
    BY <2>1, OrderSame
  <2> QED BY <2>1, <2>2 DEF InterruptKeepsTurn
<1> QED BY <1>2, <1>3, <1>4, <1>5, <1>6 DEF Next

(* Turns among threads of equal priority are kept by every step: the ordered
   insertion goes behind equals, taking a thread out or stopping it leaves the
   others in order, and a thread that an interrupt takes the processor from gets it
   back before its equals. *)
THEOREM EqualsTakeTurns == Spec => Turns
<1>1. KernelInv /\ KernelInv' /\ [Next]_vars => [EqualsKeepOrder /\ InterruptKeepsTurn]_vars
  BY TurnsStep
<1> QED BY <1>1, Invariance, PTL DEF Spec, Turns

------------------------------------------------------------------------------
(* The ring *)

(* An index that runs past the end of the array once. *)
LEMMA Wraps ==
  ASSUME NEW c \in Nat \ {0}, NEW x \in 0..(2 * c - 1)
  PROVE  x % c = IF x < c THEN x ELSE x - c
<1>1. CASE x < c
  BY <1>1
<1>2. CASE x >= c
  <2>1. x = c * 1 + (x - c) /\ x - c \in 0..(c - 1)
    BY <1>2
  <2> QED BY <1>2, <2>1
<1> QED BY <1>1, <1>2

(* Slots of a ring of which n are in use from f on: the next free one, the one before
   the first, and those after the first. *)
LEMMA LastSlot ==
  ASSUME NEW c \in Nat \ {0}, NEW f \in 0..(c - 1), NEW n \in 0..(c - 1), NEW i \in 1..n
  PROVE  /\ (f + i - 1) % c # (f + n) % c
         /\ (f + i - 1) % c \in 0..(c - 1)
<1>1. f + i - 1 \in 0..(2 * c - 1) /\ f + n \in 0..(2 * c - 1)
  OBVIOUS
<1>2. \A x \in 0..(2 * c - 1) : x % c = IF x < c THEN x ELSE x - c
  BY Wraps
<1> DEFINE a == (f + i - 1) % c
           b == (f + n) % c
<1>3. /\ a = (IF f + i - 1 < c THEN f + i - 1 ELSE f + i - 1 - c)
      /\ b = (IF f + n < c THEN f + n ELSE f + n - c)
  BY <1>1, <1>2
<1> HIDE DEF a, b
<1>4. a # b /\ a \in 0..(c - 1)
  BY <1>3
<1> QED BY <1>4 DEF a, b

LEMMA SlotBefore ==
  ASSUME NEW c \in Nat \ {0}, NEW f \in 0..(c - 1), NEW n \in 0..(c - 1)
  PROVE  LET g == (f + c - 1) % c
         IN /\ g \in 0..(c - 1) /\ (g + 1 - 1) % c = g
            /\ \A i \in 2..(n + 1) : /\ (g + i - 1) % c = (f + (i - 1) - 1) % c
                                    /\ (g + i - 1) % c # g
                                    /\ (g + i - 1) % c \in 0..(c - 1)
<1> DEFINE g == (f + c - 1) % c
<1>1. \A x \in 0..(2 * c - 1) : x % c = IF x < c THEN x ELSE x - c
  BY Wraps
<1>2. g = IF f + c - 1 < c THEN f + c - 1 ELSE f + c - 1 - c
  <2>1. f + c - 1 \in 0..(2 * c - 1)
    OBVIOUS
  <2> QED BY <1>1, <2>1
<1> HIDE DEF g
<1>3. g = (IF f = 0 THEN c - 1 ELSE f - 1) /\ g \in 0..(c - 1)
  BY <1>2
<1>4. (g + 1 - 1) % c = g
  <2>1. g + 1 - 1 = g /\ g \in 0..(2 * c - 1) /\ g < c
    BY <1>3
  <2>2. g % c = IF g < c THEN g ELSE g - c
    BY <1>1, <2>1
  <2> QED BY <2>1, <2>2
<1>5. ASSUME NEW i \in 2..(n + 1)
      PROVE  /\ (g + i - 1) % c = (f + (i - 1) - 1) % c
             /\ (g + i - 1) % c # g
             /\ (g + i - 1) % c \in 0..(c - 1)
  <2>1. PICK x, y : x = g + i - 1 /\ y = f + (i - 1) - 1
    OBVIOUS
  <2>2. x \in 0..(2 * c - 1) /\ y \in 0..(2 * c - 1)
    BY <1>3, <2>1
  <2>3. PICK a, b : a = x % c /\ b = y % c
    OBVIOUS
  <2>4. a = (IF x < c THEN x ELSE x - c) /\ b = (IF y < c THEN y ELSE y - c)
    BY <1>1, <2>2, <2>3
  <2>5. a = b /\ a # g /\ a \in 0..(c - 1)
    BY <1>3, <2>1, <2>2, <2>4
  <2> QED BY <2>1, <2>3, <2>5
<1> QED BY <1>3, <1>4, <1>5 DEF g

LEMMA SlotAfter ==
  ASSUME NEW c \in Nat \ {0}, NEW f \in 0..(c - 1), NEW i \in 1..(c - 1)
  PROVE  (((f + 1) % c) + i - 1) % c = (f + (i + 1) - 1) % c
<1>1. \A x \in 0..(2 * c - 1) : x % c = IF x < c THEN x ELSE x - c
  BY Wraps
<1>2. PICK g : g = (f + 1) % c
  OBVIOUS
<1>3. g = IF f + 1 < c THEN f + 1 ELSE f + 1 - c
  <2>1. f + 1 \in 0..(2 * c - 1)
    OBVIOUS
  <2> QED BY <1>1, <1>2, <2>1
<1>4. PICK x, y : x = g + i - 1 /\ y = f + (i + 1) - 1
  OBVIOUS
<1>5. x \in 0..(2 * c - 1) /\ y \in 0..(2 * c - 1)
  BY <1>3, <1>4
<1>6. PICK a, b : a = x % c /\ b = y % c
  OBVIOUS
<1>7. a = (IF x < c THEN x ELSE x - c) /\ b = (IF y < c THEN y ELSE y - c)
  BY <1>1, <1>5, <1>6
<1>8. a = b
  BY <1>3, <1>4, <1>5, <1>7
<1> QED BY <1>2, <1>4, <1>6, <1>8

Slots == AllMsgs \cup {NoMsg}

(* What the ring holds, slot by slot. *)
LEMMA ContentsAre ==
  ASSUME NEW q \in Queues, NEW r \in RingType(q)
  PROVE  LET C == Contents(r, Capacity[q])
         IN /\ C \in Seq(Slots) /\ Len(C) = r.valid
            /\ \A i \in 1..r.valid : C[i] = r.buf[(r.first + i - 1) % Capacity[q]]
<1> DEFINE cap == Capacity[q]
           C == Contents(r, cap)
<1>1. cap \in Nat \ {0}
  BY KernelAssumption
<1>2. /\ r.first \in 0..(cap - 1) /\ r.valid \in 0..cap
      /\ r.buf \in [0..(cap - 1) -> Slots]
  BY DEF RingType, Slots
<1> HIDE DEF cap
<1>3. \A i \in 1..r.valid : (r.first + i - 1) % cap \in 0..(cap - 1)
  <2> SUFFICES ASSUME NEW i \in 1..r.valid PROVE (r.first + i - 1) % cap \in 0..(cap - 1)
    OBVIOUS
  <2>1. r.first + i - 1 \in Nat
    BY <1>2
  <2> QED BY <1>1, <2>1, ModRange
<1>4. \A i \in 1..r.valid : r.buf[(r.first + i - 1) % cap] \in Slots
  BY <1>2, <1>3
<1>5. C = [i \in 1..r.valid |-> r.buf[(r.first + i - 1) % cap]]
  BY DEF Contents
<1>6. C \in Seq(Slots) /\ Len(C) = r.valid
  BY <1>2, <1>4, <1>5
<1> QED BY <1>5, <1>6 DEF cap

(* The message of a send is the last one. *)
LEMMA PutLastAppends ==
  ASSUME NEW q \in Queues, NEW r \in RingType(q), ~(r.valid >= Capacity[q]), NEW m \in AllMsgs
  PROVE  Contents(PutLast(r, Capacity[q], m), Capacity[q])
           = Append(Contents(r, Capacity[q]), m)
<1> DEFINE cap == Capacity[q]
           p == PutLast(r, cap, m)
           C == Contents(r, cap)
           D == Contents(p, cap)
<1>1. cap \in Nat \ {0}
  BY KernelAssumption
<1>2. p \in RingType(q) /\ m \in Slots
  BY PutType DEF Slots
<1>3. /\ C \in Seq(Slots) /\ Len(C) = r.valid
      /\ \A i \in 1..r.valid : C[i] = r.buf[(r.first + i - 1) % cap]
  BY ContentsAre
<1>4. /\ D \in Seq(Slots) /\ Len(D) = p.valid
      /\ \A i \in 1..p.valid : D[i] = p.buf[(p.first + i - 1) % cap]
  BY <1>2, ContentsAre
<1>5. /\ r.first \in 0..(cap - 1) /\ r.valid \in 0..(cap - 1)
      /\ r.buf \in [0..(cap - 1) -> Slots]
  BY <1>1 DEF RingType, Slots
<1>6. /\ p.first = r.first /\ p.valid = r.valid + 1
      /\ p.buf = [r.buf EXCEPT ![(r.first + r.valid) % cap] = m]
  BY DEF PutLast, RingType
<1> HIDE DEF cap, p, C, D
<1>7. ASSUME NEW i \in 1..r.valid
      PROVE  D[i] = C[i]
  <2>1. /\ (r.first + i - 1) % cap # (r.first + r.valid) % cap
        /\ (r.first + i - 1) % cap \in 0..(cap - 1)
    BY <1>1, <1>5, LastSlot
  <2>2. D[i] = p.buf[(r.first + i - 1) % cap] /\ C[i] = r.buf[(r.first + i - 1) % cap]
    BY <1>3, <1>4, <1>5, <1>6
  <2> QED BY <1>5, <1>6, <2>1, <2>2
<1>8. D[r.valid + 1] = m
  <2>1. D[r.valid + 1] = p.buf[(r.first + r.valid) % cap]
    <3>1. r.valid + 1 \in 1..p.valid /\ r.first + (r.valid + 1) - 1 = r.first + r.valid
      BY <1>1, <1>5, <1>6
    <3> QED BY <1>4, <1>6, <3>1
  <2>2. (r.first + r.valid) % cap \in 0..(cap - 1)
    <3>1. r.first + r.valid \in Nat
      BY <1>5
    <3> QED BY <1>1, <3>1, ModRange
  <2> QED BY <1>5, <1>6, <2>1, <2>2
<1>9. /\ Append(C, m) \in Seq(Slots) /\ Len(Append(C, m)) = r.valid + 1
      /\ \A i \in 1..r.valid : Append(C, m)[i] = C[i]
      /\ Append(C, m)[r.valid + 1] = m
  BY <1>2, <1>3, AppendProperties
<1>10. \A i \in 1..Len(D) : D[i] = Append(C, m)[i]
  BY <1>4, <1>5, <1>6, <1>7, <1>8, <1>9
<1>11. D = Append(C, m)
  BY <1>4, <1>6, <1>9, <1>10, SeqEqual
<1> QED BY <1>11 DEF C, D, p, cap

(* The message of a jam is the first one. *)
LEMMA PutFirstPrepends ==
  ASSUME NEW q \in Queues, NEW r \in RingType(q), ~(r.valid >= Capacity[q]), NEW m \in AllMsgs
  PROVE  Contents(PutFirst(r, Capacity[q], m), Capacity[q])
           = <<m>> \o Contents(r, Capacity[q])
<1> DEFINE cap == Capacity[q]
           p == PutFirst(r, cap, m)
           C == Contents(r, cap)
           D == Contents(p, cap)
           f == (r.first + cap - 1) % cap
           E == <<m>> \o C
<1>1. cap \in Nat \ {0}
  BY KernelAssumption
<1>2. p \in RingType(q) /\ m \in Slots
  BY PutType DEF Slots
<1>3. /\ C \in Seq(Slots) /\ Len(C) = r.valid
      /\ \A i \in 1..r.valid : C[i] = r.buf[(r.first + i - 1) % cap]
  BY ContentsAre
<1>4. /\ D \in Seq(Slots) /\ Len(D) = p.valid
      /\ \A i \in 1..p.valid : D[i] = p.buf[(p.first + i - 1) % cap]
  BY <1>2, ContentsAre
<1>5. /\ r.first \in 0..(cap - 1) /\ r.valid \in 0..(cap - 1)
      /\ r.buf \in [0..(cap - 1) -> Slots]
  BY <1>1 DEF RingType, Slots
<1>6. p.first = f /\ p.valid = r.valid + 1 /\ p.buf = [r.buf EXCEPT ![f] = m]
  BY DEF PutFirst, RingType
<1>7. /\ E \in Seq(Slots) /\ Len(E) = r.valid + 1 /\ E[1] = m
      /\ \A i \in 2..(r.valid + 1) : E[i] = C[i - 1]
  <2>1. <<m>> \in Seq(Slots) /\ Len(<<m>>) = 1 /\ <<m>>[1] = m
    BY <1>2
  <2> HIDE DEF C
  <2>2. /\ <<m>> \o C \in Seq(Slots) /\ Len(<<m>> \o C) = 1 + r.valid
        /\ \A i \in 1..(1 + r.valid) :
             (<<m>> \o C)[i] = IF i <= 1 THEN <<m>>[i] ELSE C[i - 1]
    BY <1>3, <2>1, ConcatProperties
  <2> QED BY <1>5, <2>1, <2>2
<1> HIDE DEF cap, p, C, D, E
<1> DEFINE n == r.valid
<1>8. /\ f \in 0..(cap - 1) /\ (f + 1 - 1) % cap = f
      /\ \A i \in 2..(n + 1) : /\ (f + i - 1) % cap = (r.first + (i - 1) - 1) % cap
                              /\ (f + i - 1) % cap # f
                              /\ (f + i - 1) % cap \in 0..(cap - 1)
  <2>1. r.first \in 0..(cap - 1) /\ n \in 0..(cap - 1)
    BY <1>5
  <2> HIDE DEF n
  <2> QED BY <1>1, <2>1, SlotBefore
<1> HIDE DEF f
<1>9. ASSUME NEW i \in 2..(r.valid + 1)
      PROVE  D[i] = E[i]
  <2>1. /\ (f + i - 1) % cap = (r.first + (i - 1) - 1) % cap
        /\ (f + i - 1) % cap # f /\ (f + i - 1) % cap \in 0..(cap - 1)
    BY <1>8
  <2>2. /\ D[i] = p.buf[(f + i - 1) % cap]
        /\ C[i - 1] = r.buf[(r.first + (i - 1) - 1) % cap]
    BY <1>3, <1>4, <1>5, <1>6
  <2> QED BY <1>5, <1>6, <1>7, <2>1, <2>2
<1>10. D[1] = m
  <2>1. D[1] = p.buf[(f + 1 - 1) % cap]
    BY <1>4, <1>5, <1>6
  <2> QED BY <1>5, <1>6, <1>8, <2>1
<1>11. \A i \in 1..Len(D) : D[i] = E[i]
  BY <1>4, <1>5, <1>6, <1>7, <1>9, <1>10
<1>12. D = E
  BY <1>4, <1>6, <1>7, <1>11, SeqEqual
<1> QED BY <1>12 DEF E, C, D, p, cap

(* A receive takes the first message. *)
LEMMA TakeFirstTails ==
  ASSUME NEW q \in Queues, NEW r \in RingType(q), r.valid # 0
  PROVE  /\ Contents(TakeFirst(r, Capacity[q]), Capacity[q]) = Tail(Contents(r, Capacity[q]))
         /\ TakeFirst(r, Capacity[q]) \in RingType(q)
<1> DEFINE cap == Capacity[q]
           p == TakeFirst(r, cap)
           C == Contents(r, cap)
           D == Contents(p, cap)
<1>1. cap \in Nat \ {0}
  BY KernelAssumption
<1>2. p \in RingType(q)
  BY TakeType
<1>3. /\ C \in Seq(Slots) /\ Len(C) = r.valid
      /\ \A i \in 1..r.valid : C[i] = r.buf[(r.first + i - 1) % cap]
  BY ContentsAre
<1>4. /\ D \in Seq(Slots) /\ Len(D) = p.valid
      /\ \A i \in 1..p.valid : D[i] = p.buf[(p.first + i - 1) % cap]
  BY <1>2, ContentsAre
<1>5. /\ r.first \in 0..(cap - 1) /\ r.valid \in 1..cap
      /\ r.buf \in [0..(cap - 1) -> Slots]
  BY <1>1 DEF RingType, Slots
<1>6. p.first = (r.first + 1) % cap /\ p.valid = r.valid - 1 /\ p.buf = r.buf
  BY DEF TakeFirst, RingType
<1> HIDE DEF cap, p, C, D
<1>7. ASSUME NEW i \in 1..p.valid
      PROVE  (p.first + i - 1) % cap = (r.first + (i + 1) - 1) % cap
  <2>1. r.first \in 0..(cap - 1) /\ i \in 1..(cap - 1)
    BY <1>1, <1>5, <1>6
  <2> QED BY <1>1, <1>6, <2>1, SlotAfter
<1>8. ASSUME NEW i \in 1..p.valid
      PROVE  D[i] = C[i + 1]
  <2>1. i + 1 \in 1..r.valid
    BY <1>5, <1>6
  <2>2. D[i] = p.buf[(p.first + i - 1) % cap]
    BY <1>4
  <2>3. C[i + 1] = r.buf[(r.first + (i + 1) - 1) % cap]
    BY <1>3, <2>1
  <2> QED BY <1>6, <1>7, <2>2, <2>3
<1>9. C # << >>
  BY <1>3, <1>5
<1>10. /\ Tail(C) \in Seq(Slots) /\ Len(Tail(C)) = p.valid
       /\ \A i \in 1..p.valid : Tail(C)[i] = C[i + 1]
  <2>1. /\ Tail(C) \in Seq(Slots) /\ Len(Tail(C)) = Len(C) - 1
        /\ \A i \in 1..Len(Tail(C)) : Tail(C)[i] = C[i + 1]
    BY <1>3, <1>9, HeadTailProperties
  <2> QED BY <1>3, <1>6, <2>1
<1>11. \A i \in 1..Len(D) : D[i] = Tail(C)[i]
  BY <1>4, <1>8, <1>10
<1>12. D = Tail(C)
  BY <1>4, <1>10, <1>11, SeqEqual
<1> QED BY <1>2, <1>12 DEF C, D, p, cap

------------------------------------------------------------------------------
(* The refinement: MesgBox's variables as the kernel's state gives them. *)
boxNow  == [q \in Queues |-> Contents(ring[q], Capacity[q])]
waitNow == [t \in Threads |-> IF call[t].op = "nmi" THEN User ELSE call[t]]
boxVars == << boxNow, waitNow, active >>

(* The actions of MesgBox. *)
LEMMA BoxImmediate ==
  ASSUME NEW t \in active, NEW c \in Box!Calls(NoMsg), waitNow[t] = User,
         Box!Enabled(c), Box!Effect(c), waitNow' = waitNow, active' = active
  PROVE  Box!Next
<1>1. User.m = NoMsg
  BY DEF User
<1>2. Box!Immediate(t, c)
  BY DEF Box!Immediate, waitNow
<1> QED BY <1>1, <1>2 DEF Box!Next

LEMMA BoxSuspend ==
  ASSUME NEW t \in active, NEW c \in Box!Calls(NoMsg), waitNow[t] = User,
         ~ Box!Enabled(c), waitNow' = [waitNow EXCEPT ![t] = c],
         boxNow' = boxNow, active' = active
  PROVE  Box!Next
<1>1. User.m = NoMsg
  BY DEF User
<1>2. Box!Suspend(t, c)
  BY DEF Box!Suspend, waitNow, boxNow
<1> QED BY <1>1, <1>2 DEF Box!Next

LEMMA BoxComplete ==
  ASSUME NEW t \in active, NEW c, c = waitNow[t], c # User,
         Box!Enabled(c), Box!Effect(c), waitNow' = [waitNow EXCEPT ![t] = User],
         active' = active
  PROVE  Box!Next
<1>1. Box!Complete(t)
  BY DEF Box!Complete, waitNow
<1> QED BY <1>1 DEF Box!Next

LEMMA BoxSignal ==
  ASSUME NEW q \in Queues,
         Box!Enabled(Box!Call("send", q, EventMsg)),
         Box!Effect(Box!Call("send", q, EventMsg)), waitNow' = waitNow, active' = active
  PROVE  Box!Next
<1>1. Box!Signal(q)
  BY DEF Box!Signal, waitNow
<1> QED BY <1>1 DEF Box!Next

LEMMA BoxCreate ==
  ASSUME NEW t \in Threads \ active, active' = active \cup {t},
         waitNow' = waitNow, boxNow' = boxNow
  PROVE  Box!Next
<1>1. Box!Create(t)
  BY DEF Box!Create, waitNow, boxNow
<1> QED BY <1>1 DEF Box!Next

LEMMA BoxDestroy ==
  ASSUME NEW t \in active, active' = active \ {t},
         waitNow' = [waitNow EXCEPT ![t] = User], boxNow' = boxNow
  PROVE  Box!Next
<1>1. Box!Destroy(t)
  BY DEF Box!Destroy, waitNow, boxNow
<1> QED BY <1>1 DEF Box!Next

(* What a ring has room for. *)
LEMMA BoxHolds ==
  ASSUME TypeInv, NEW q \in Queues
  PROVE  /\ boxNow[q] = Contents(ring[q], Capacity[q])
         /\ IsEmpty(q) <=> boxNow[q] = << >>
         /\ IsFull(q) <=> ~(Len(boxNow[q]) < Capacity[q])
<1>1. ring[q] \in RingType(q) /\ Capacity[q] \in Nat \ {0}
  BY KernelAssumption DEF TypeInv, TypeOK
<1>2. boxNow[q] = Contents(ring[q], Capacity[q])
  BY DEF boxNow
<1>3. boxNow[q] \in Seq(Slots) /\ Len(boxNow[q]) = ring[q].valid
  BY <1>1, <1>2, ContentsAre
<1>4. ring[q].valid \in Nat
  BY <1>1 DEF RingType
<1>5. boxNow[q] = << >> <=> Len(boxNow[q]) = 0
  BY <1>3
<1> QED BY <1>1, <1>2, <1>3, <1>4, <1>5 DEF IsEmpty, IsFull

LEMMA BoxWrites ==
  ASSUME TypeInv, NEW q \in Queues, NEW r, ring' = [ring EXCEPT ![q] = r]
  PROVE  boxNow' = [boxNow EXCEPT ![q] = Contents(r, Capacity[q])]
<1>1. DOMAIN ring = Queues
  BY DEF TypeInv, TypeOK
<1>2. \A p \in Queues : ring'[p] = IF p = q THEN r ELSE ring[p]
  BY <1>1
<1>3. /\ boxNow' = [p \in Queues |-> Contents(ring'[p], Capacity[p])]
      /\ boxNow = [p \in Queues |-> Contents(ring[p], Capacity[p])]
  BY Zenon DEF boxNow
<1> HIDE DEF boxNow
<1> DEFINE f == [boxNow EXCEPT ![q] = Contents(r, Capacity[q])]
<1>4. /\ DOMAIN f = Queues
      /\ \A p \in Queues : f[p] = IF p = q THEN Contents(r, Capacity[q])
                                 ELSE Contents(ring[p], Capacity[p])
  BY <1>3
<1>5. \A p \in Queues : f[p] = Contents(ring'[p], Capacity[p])
  BY <1>2, <1>4
<1>6. f = [p \in Queues |-> f[p]]
  BY <1>4
<1> HIDE DEF f
<1>7. f = boxNow'
  BY <1>3, <1>5, <1>6
<1> QED BY <1>7 DEF f

(* A call that takes effect, at once or after it was pending. *)
LEMMA BoxTakesEffect ==
  ASSUME TypeInv, NEW t \in active, NEW c \in Box!Calls(NoMsg), call[t] \in {User, c},
         Box!Enabled(c), Box!Effect(c), call' = [call EXCEPT ![t] = User], active' = active
  PROVE  Box!Next
<1>1. t \in Threads /\ call \in [Threads -> CallType]
  BY DEF TypeInv, TypeOK
<1>2. c # User /\ c.op # "nmi" /\ User.op # "nmi"
  BY DEF Box!Calls, Box!Call, User
<1>3. waitNow' = [waitNow EXCEPT ![t] = User]
  BY <1>1, <1>2 DEF waitNow
<1>4. CASE call[t] = User
  <2>1. waitNow[t] = User /\ waitNow' = waitNow
    BY <1>1, <1>2, <1>3, <1>4 DEF waitNow
  <2> QED BY <2>1, BoxImmediate
<1>5. CASE call[t] = c
  <2>1. c = waitNow[t]
    BY <1>1, <1>2, <1>5 DEF waitNow
  <2> QED BY <1>2, <1>3, <2>1, BoxComplete
<1> QED BY <1>4, <1>5

(* A call that waits, or that is resumed and waits again. *)
LEMMA BoxWaits ==
  ASSUME TypeInv, NEW t \in active, NEW c \in Box!Calls(NoMsg), call[t] \in {User, c},
         ~ Box!Enabled(c), call' = [call EXCEPT ![t] = c], ring' = ring, active' = active
  PROVE  Box!Next \/ boxVars' = boxVars
<1>1. t \in Threads /\ call \in [Threads -> CallType]
  BY DEF TypeInv, TypeOK
<1>2. c # User /\ c.op # "nmi" /\ User.op # "nmi"
  BY DEF Box!Calls, Box!Call, User
<1>3. waitNow' = [waitNow EXCEPT ![t] = c] /\ boxNow' = boxNow
  BY <1>1, <1>2 DEF waitNow, boxNow
<1>4. CASE call[t] = User
  <2>1. waitNow[t] = User
    BY <1>1, <1>2, <1>4 DEF waitNow
  <2> QED BY <1>3, <2>1, BoxSuspend
<1>5. CASE call[t] = c
  <2>1. waitNow' = waitNow
    BY <1>1, <1>2, <1>3, <1>5 DEF waitNow
  <2> QED BY <1>3, <2>1 DEF boxVars
<1> QED BY <1>4, <1>5

(* The body of the message calls does what MesgBox says of the call. *)
LEMMA SendIsBoxStep ==
  ASSUME TypeInv, NEW t \in active, NEW q \in Queues, NEW m \in Msgs,
         call[t] \in {User, Pending("send", q, m)}, TrySend(t, q, m), active' = active
  PROVE  Box!Next \/ boxVars' = boxVars
<1> DEFINE c == Pending("send", q, m)
<1>1. c \in Box!Calls(NoMsg) /\ c.op = "send" /\ c.q = q /\ c.m = m
  BY DEF Pending, Box!Calls, Box!Call
<1>2. ring[q] \in RingType(q) /\ m \in AllMsgs /\ DOMAIN ring = Queues
  BY DEF TypeInv, TypeOK, AllMsgs
<1>3. Box!Enabled(c) <=> ~IsFull(q)
  BY <1>1, BoxHolds DEF Box!Enabled, boxNow
<1>4. CASE Block(t, "send", q, m, FullQ(q)) /\ IsFull(q)
  BY <1>1, <1>3, <1>4, BoxWaits DEF Block
<1>5. CASE ~IsFull(q) /\ Return(t) /\ ring' = [ring EXCEPT ![q] = PutLast(@, Capacity[q], m)]
  <2>1. boxNow' = [boxNow EXCEPT ![q] = Contents(PutLast(ring[q], Capacity[q], m), Capacity[q])]
    BY <1>5, BoxWrites
  <2>2. boxNow' = [boxNow EXCEPT ![q] = Append(boxNow[q], m)]
    BY <1>2, <1>5, <2>1, PutLastAppends, BoxHolds DEF IsFull
  <2>3. Box!Effect(c)
    BY <1>1, <2>2 DEF Box!Effect, boxNow
  <2> QED BY <1>1, <1>3, <1>5, <2>3, BoxTakesEffect DEF Return
<1> QED BY <1>4, <1>5 DEF TrySend

LEMMA JamIsBoxStep ==
  ASSUME TypeInv, NEW t \in active, NEW q \in Queues, NEW m \in Msgs,
         call[t] \in {User, Pending("jam", q, m)}, TryJam(t, q, m), active' = active
  PROVE  Box!Next \/ boxVars' = boxVars
<1> DEFINE c == Pending("jam", q, m)
<1>1. c \in Box!Calls(NoMsg) /\ c.op = "jam" /\ c.q = q /\ c.m = m
  BY DEF Pending, Box!Calls, Box!Call
<1>2. ring[q] \in RingType(q) /\ m \in AllMsgs /\ DOMAIN ring = Queues
  BY DEF TypeInv, TypeOK, AllMsgs
<1>3. Box!Enabled(c) <=> ~IsFull(q)
  BY <1>1, BoxHolds DEF Box!Enabled, boxNow
<1>4. CASE Block(t, "jam", q, m, FullQ(q)) /\ IsFull(q)
  BY <1>1, <1>3, <1>4, BoxWaits DEF Block
<1>5. CASE ~IsFull(q) /\ Return(t) /\ ring' = [ring EXCEPT ![q] = PutFirst(@, Capacity[q], m)]
  <2>1. boxNow' = [boxNow EXCEPT ![q] = Contents(PutFirst(ring[q], Capacity[q], m), Capacity[q])]
    BY <1>5, BoxWrites
  <2>2. boxNow' = [boxNow EXCEPT ![q] = <<m>> \o boxNow[q]]
    BY <1>2, <1>5, <2>1, PutFirstPrepends, BoxHolds DEF IsFull
  <2>3. Box!Effect(c)
    BY <1>1, <2>2 DEF Box!Effect, boxNow
  <2> QED BY <1>1, <1>3, <1>5, <2>3, BoxTakesEffect DEF Return
<1> QED BY <1>4, <1>5 DEF TryJam

LEMMA RecvIsBoxStep ==
  ASSUME TypeInv, NEW t \in active, NEW q \in Queues,
         call[t] \in {User, Pending("recv", q, NoMsg)}, TryRecv(t, q), active' = active
  PROVE  Box!Next \/ boxVars' = boxVars
<1> DEFINE c == Pending("recv", q, NoMsg)
<1>1. c \in Box!Calls(NoMsg) /\ c.op = "recv" /\ c.q = q
  BY DEF Pending, Box!Calls, Box!Call
<1>2. ring[q] \in RingType(q) /\ DOMAIN ring = Queues
  BY DEF TypeInv, TypeOK
<1>3. Box!Enabled(c) <=> ~IsEmpty(q)
  BY <1>1, BoxHolds DEF Box!Enabled, boxNow
<1>4. CASE Block(t, "recv", q, NoMsg, MtQ(q)) /\ IsEmpty(q)
  BY <1>1, <1>3, <1>4, BoxWaits DEF Block
<1>5. CASE ~IsEmpty(q) /\ Return(t) /\ ring' = [ring EXCEPT ![q] = TakeFirst(@, Capacity[q])]
  <2>1. boxNow' = [boxNow EXCEPT ![q] = Contents(TakeFirst(ring[q], Capacity[q]), Capacity[q])]
    BY <1>5, BoxWrites
  <2> DEFINE cap == Capacity[q]
  <2>a. ring[q].valid # 0
    BY <1>5 DEF IsEmpty
  <2>b. Contents(TakeFirst(ring[q], cap), cap) = Tail(Contents(ring[q], cap))
    BY <1>2, <2>a, TakeFirstTails
  <2>c. boxNow[q] = Contents(ring[q], cap)
    BY BoxHolds
  <2>2. boxNow' = [boxNow EXCEPT ![q] = Tail(boxNow[q])]
    BY <2>1, <2>b, <2>c
  <2>3. Box!Effect(c)
    BY <1>1, <2>2 DEF Box!Effect, boxNow
  <2> QED BY <1>1, <1>3, <1>5, <2>3, BoxTakesEffect DEF Return
<1> QED BY <1>4, <1>5 DEF TryRecv

(* The message of an event is added as a whole or dropped, by the handler and by
   osSetEventMesg. *)
LEMMA PostIsBoxStep ==
  ASSUME TypeInv, NEW q \in Queues, active' = active, waitNow' = waitNow,
         \/ ring' = ring
         \/ ~IsFull(q) /\ ring' = [ring EXCEPT ![q] = PutLast(@, Capacity[q], EventMsg)]
  PROVE  Box!Next \/ boxVars' = boxVars
<1> DEFINE c == Box!Call("send", q, EventMsg)
<1>1. c.op = "send" /\ c.q = q /\ c.m = EventMsg
  BY DEF Box!Call
<1>2. ring[q] \in RingType(q) /\ EventMsg \in AllMsgs /\ DOMAIN ring = Queues
  BY DEF TypeInv, TypeOK, AllMsgs
<1>3. CASE ring' = ring
  BY <1>3 DEF boxVars, boxNow
<1>4. CASE ~IsFull(q) /\ ring' = [ring EXCEPT ![q] = PutLast(@, Capacity[q], EventMsg)]
  <2>1. boxNow' = [boxNow EXCEPT ![q] = Contents(PutLast(ring[q], Capacity[q], EventMsg), Capacity[q])]
    BY <1>4, BoxWrites
  <2>2. boxNow' = [boxNow EXCEPT ![q] = Append(boxNow[q], EventMsg)]
    BY <1>2, <1>4, <2>1, PutLastAppends, BoxHolds DEF IsFull
  <2>3. Box!Effect(c)
    BY <1>1, <2>2 DEF Box!Effect, boxNow
  <2>4. Box!Enabled(c)
    BY <1>1, <1>4, BoxHolds DEF Box!Enabled, boxNow
  <2> QED BY <2>3, <2>4, BoxSignal
<1> QED BY <1>3, <1>4

(* The message calls, entered by the application or resumed. *)
LEMMA MesgIsBoxStep ==
  ASSUME KernelInv, NEW t \in Threads, MesgCall(t) \/ ResumeMesg(t)
  PROVE  Box!Next \/ boxVars' = boxVars
<1>1. TypeInv /\ call[t] \in CallType
  BY DEF KernelInv, TypeInv, TypeOK
<1>2. Running(t) => t \in active
  BY RunningSettled
<1>3. UNCHANGED kernelRest => active' = active
  BY DEF kernelRest
<1>4. ASSUME NEW q \in Queues, NEW m \in Msgs, SendMesg(t, q, m)
      PROVE  Box!Next \/ boxVars' = boxVars
  <2>1. t \in active /\ call[t] = User /\ TrySend(t, q, m) /\ active' = active
    BY <1>2, <1>3, <1>4 DEF SendMesg, InUser
  <2> QED BY <1>1, <2>1, SendIsBoxStep
<1>5. ASSUME NEW q \in Queues, NEW m \in Msgs, JamMesg(t, q, m)
      PROVE  Box!Next \/ boxVars' = boxVars
  <2>1. t \in active /\ call[t] = User /\ TryJam(t, q, m) /\ active' = active
    BY <1>2, <1>3, <1>5 DEF JamMesg, InUser
  <2> QED BY <1>1, <2>1, JamIsBoxStep
<1>6. ASSUME NEW q \in Queues, RecvMesg(t, q)
      PROVE  Box!Next \/ boxVars' = boxVars
  <2>1. t \in active /\ call[t] = User /\ TryRecv(t, q) /\ active' = active
    BY <1>2, <1>3, <1>6 DEF RecvMesg, InUser
  <2> QED BY <1>1, <2>1, RecvIsBoxStep
<1>7. CASE ResumeMesg(t)
  <2>1. t \in active /\ active' = active
    BY <1>2, <1>3, <1>7 DEF ResumeMesg
  <2> DEFINE q == call[t].q
             m == call[t].m
  <2>2. CASE call[t].op = "send" /\ TrySend(t, q, m)
    <3>1. q \in Queues /\ m \in Msgs /\ call[t] = Pending("send", q, m)
      BY <1>1, <2>2 DEF CallType, User, Pending
    <3> HIDE DEF q, m
    <3> QED BY <1>1, <2>1, <2>2, <3>1, SendIsBoxStep
  <2>3. CASE call[t].op = "jam" /\ TryJam(t, q, m)
    <3>1. q \in Queues /\ m \in Msgs /\ call[t] = Pending("jam", q, m)
      BY <1>1, <2>3 DEF CallType, User, Pending
    <3> HIDE DEF q, m
    <3> QED BY <1>1, <2>1, <2>3, <3>1, JamIsBoxStep
  <2>4. CASE call[t].op = "recv" /\ TryRecv(t, q)
    <3>1. q \in Queues /\ call[t] = Pending("recv", q, NoMsg)
      BY <1>1, <2>4 DEF CallType, User, Pending
    <3> HIDE DEF q
    <3> QED BY <1>1, <2>1, <2>4, <3>1, RecvIsBoxStep
  <2> QED BY <1>7, <2>2, <2>3, <2>4 DEF ResumeMesg
<1> QED BY <1>4, <1>5, <1>6, <1>7 DEF MesgCall

(* A step that leaves rings, calls and the set of threads alone. *)
LEMMA BoxStutters ==
  ASSUME ring' = ring, call' = call, active' = active
  PROVE  boxVars' = boxVars
BY DEF boxVars, boxNow, waitNow

(* The thread calls create and destroy threads, and the rest is hidden. *)
LEMMA ThreadIsBoxStep ==
  ASSUME KernelInv, NEW t \in Threads, ThreadCall(t)
  PROVE  Box!Next \/ boxVars' = boxVars
<1>1. call \in [Threads -> CallType] /\ active \subseteq Threads
  BY DEF KernelInv, TypeInv, TypeOK
<1>2. ASSUME NEW u \in Threads, NEW p \in Prios, CreateThread(t, u, p)
      PROVE  Box!Next
  <2>1. u \notin active /\ active' = active \cup {u} /\ ring' = ring /\ call' = call
    BY <1>2 DEF CreateThread, threadRest
  <2>2. waitNow' = waitNow /\ boxNow' = boxNow
    BY <2>1 DEF waitNow, boxNow
  <2> QED BY <2>1, <2>2, BoxCreate
<1>3. ASSUME NEW u \in Threads, DestroyThread(t, u)
      PROVE  Box!Next
  <2>1. /\ u \in active /\ active' = active \ {u} /\ ring' = ring
        /\ call' = [call EXCEPT ![u] = User]
    BY <1>3 DEF DestroyThread, threadRest
  <2>2. boxNow' = boxNow /\ waitNow' = [waitNow EXCEPT ![u] = User]
    BY <1>1, <2>1 DEF waitNow, boxNow
  <2> QED BY <2>1, <2>2, BoxDestroy
<1>4. ASSUME NEW u \in Threads, NEW p \in Prios,
             OSStartThread(t, u) \/ StopThread(t, u) \/ YieldThread(t) \/ SetThreadPri(t, u, p)
      PROVE  ring' = ring /\ call' = call /\ active' = active
  BY <1>4 DEF OSStartThread, StopThread, YieldThread, SetThreadPri, threadRest
<1>5. ASSUME NEW u \in Threads, OSStartThread(t, u) \/ StopThread(t, u) \/ YieldThread(t)
      PROVE  ring' = ring /\ call' = call /\ active' = active
  BY <1>5 DEF OSStartThread, StopThread, YieldThread, threadRest
<1> QED BY <1>2, <1>3, <1>4, <1>5, BoxStutters DEF ThreadCall

(* The messages of events, from the handler and from osSetEventMesg, whose last part
   is hidden. *)
LEMMA EventIsBoxStep ==
  ASSUME KernelInv, NEW t \in Threads, EventCall(t) \/ ResumeSetEvent(t)
  PROVE  Box!Next \/ boxVars' = boxVars
<1>1. TypeInv /\ call \in [Threads -> CallType] /\ User.op # "nmi"
  BY DEF KernelInv, TypeInv, TypeOK, User
<1>2. ASSUME NEW e \in RegEvents, NEW q \in Queues, SetEventMesg(t, e, q)
      PROVE  Box!Next \/ boxVars' = boxVars
  <2>1. active' = active /\ call[t] = User
    BY <1>2 DEF SetEventMesg, InUser
  <2>2. CASE SendsNMI(e) /\ ~IsFull(q)
    <3>1. /\ ring' = [ring EXCEPT ![q] = PutLast(@, Capacity[q], EventMsg)]
          /\ \/ call' = call
             \/ call' = [call EXCEPT ![t] = Pending("nmi", NoQueue, NoMsg)]
      BY <1>2, <2>2 DEF SetEventMesg
    <3>2. waitNow' = waitNow
      BY <1>1, <2>1, <3>1 DEF waitNow, Pending
    <3> QED BY <1>1, <2>1, <2>2, <3>1, <3>2, PostIsBoxStep
  <2>3. CASE ~ (SendsNMI(e) /\ ~IsFull(q))
    <3>1. ring' = ring /\ call' = call
      BY <1>2, <2>3 DEF SetEventMesg
    <3> QED BY <2>1, <3>1, BoxStutters
  <2> QED BY <2>2, <2>3
<1>3. CASE ResumeSetEvent(t)
  <2>1. /\ ring' = ring /\ active' = active /\ call[t].op = "nmi"
        /\ call' = [call EXCEPT ![t] = User]
    BY <1>3 DEF ResumeSetEvent, Return
  <2>2. waitNow' = waitNow /\ boxNow' = boxNow
    BY <1>1, <2>1 DEF waitNow, boxNow
  <2> QED BY <2>1, <2>2 DEF boxVars
<1> QED BY <1>2, <1>3 DEF EventCall

LEMMA InterruptIsBoxStep ==
  ASSUME KernelInv,
         \/ Handler
         \/ \E S \in SUBSET HwEvents : Exception(S)
         \/ \E t \in Threads : Fault(t) \/ Break(t)
  PROVE  Box!Next \/ boxVars' = boxVars
<1>1. TypeInv
  BY DEF KernelInv
<1>2. ASSUME NEW e \in Events, ring' = PostRing(e), call' = call, active' = active
      PROVE  Box!Next \/ boxVars' = boxVars
  <2>1. CASE Posts(e)
    <3>1. /\ evtab[e] \in Queues /\ ~IsFull(evtab[e])
          /\ ring' = [ring EXCEPT ![evtab[e]] = PutLast(@, Capacity[evtab[e]], EventMsg)]
      BY <1>1, <1>2, <2>1 DEF Posts, PostRing, TypeInv, TypeOK
    <3>2. waitNow' = waitNow
      BY <1>2 DEF waitNow
    <3> QED BY <1>1, <1>2, <3>1, <3>2, PostIsBoxStep
  <2>2. CASE ~ Posts(e)
    BY <1>2, <2>2, BoxStutters DEF PostRing
  <2> QED BY <2>1, <2>2
<1>3. {"PRENMI", "FAULT", "CPU_BREAK"} \subseteq Events
  <2>1. HwOrder[2] = "PRENMI" /\ 2 \in 1..Len(HwOrder)
    BY DEF HwOrder
  <2> QED BY <2>1 DEF Events
<1>4. ASSUME NEW e \in HwEvents, ServeCause(e)
      PROVE  Box!Next \/ boxVars' = boxVars
  BY <1>2, <1>4, KernelAssumption DEF ServeCause
<1>5. CASE FirstPreNMI
  BY <1>2, <1>3, <1>5 DEF FirstPreNMI
<1>6. CASE \E t \in Threads : Fault(t) \/ Break(t)
  BY <1>2, <1>3, <1>6 DEF Fault, Break
<1>7. CASE \/ PiCallback \/ CartCallback \/ LaterPreNMI \/ ReturnFromException
           \/ \E S \in SUBSET HwEvents : Exception(S)
  BY <1>7, BoxStutters
     DEF PiCallback, CartCallback, LaterPreNMI, ReturnFromException, Exception
<1> QED BY <1>4, <1>5, <1>6, <1>7 DEF Handler

LEMMA StepIsBoxStep == KernelInv /\ [Next]_vars => Box!Next \/ boxVars' = boxVars
<1> SUFFICES ASSUME KernelInv, [Next]_vars PROVE Box!Next \/ boxVars' = boxVars
  OBVIOUS
<1>1. CASE Boot
  BY <1>1, BoxStutters DEF Boot, threadRest
<1>2. ASSUME NEW t \in Threads,
             MesgCall(t) \/ ThreadCall(t) \/ EventCall(t) \/ Resume(t)
               \/ Fault(t) \/ Break(t)
      PROVE  Box!Next \/ boxVars' = boxVars
  <2>1. CASE Fault(t) \/ Break(t)
    BY <2>1, InterruptIsBoxStep
  <2> QED BY <1>2, <2>1, MesgIsBoxStep, ThreadIsBoxStep, EventIsBoxStep DEF Resume
<1>3. CASE Handler \/ \E S \in SUBSET HwEvents : Exception(S)
  BY <1>3, InterruptIsBoxStep
<1>4. CASE UNCHANGED vars
  BY <1>4, BoxStutters DEF vars
<1> QED BY <1>1, <1>2, <1>3, <1>4 DEF Next

LEMMA InitIsBoxInit == Init => Box!Init
<1> SUFFICES ASSUME Init PROVE Box!Init
  OBVIOUS
<1>1. \A q \in Queues : Contents(ring[q], Capacity[q]) = << >>
  <2> TAKE q \in Queues
  <2>1. ring[q].valid = 0
    BY DEF Init
  <2> QED BY <2>1 DEF Contents
<1>2. active \in SUBSET Threads
  BY KernelAssumption DEF Init
<1>3. \A t \in Threads : (IF call[t].op = "nmi" THEN User ELSE call[t]) = User
  BY DEF Init
<1> QED BY <1>1, <1>2, <1>3 DEF Box!Init

(* The message queues keep the promise of MesgBox: messages are neither lost nor made
   up nor reordered by the rings' wrapping indices, each call takes effect once and as a
   whole however often its thread was put to sleep and woken, and an event's message is
   added as a whole or dropped (osSendMesg, osJamMesg, osRecvMesg, send_mesg). *)
THEOREM QueuesImplementBox == Spec => ImplementsBox
<1>1. KernelInv /\ [Next]_vars
        => [Box!Next]_<< [q \in Queues |-> Contents(ring[q], Capacity[q])],
                         [t \in Threads |-> IF call[t].op = "nmi" THEN User ELSE call[t]],
                         active >>
  BY StepIsBoxStep DEF boxVars, boxNow, waitNow
<1> QED BY <1>1, InitIsBoxInit, Invariance, PTL DEF Spec, ImplementsBox, Box!Spec

------------------------------------------------------------------------------
(* No lost wake-up.  Whatever a routine of the scheduler does, a wait queue that holds
   threads afterwards held some before, and threads move to the run queue only. *)
Drains(s, r) ==
  /\ OnlyToRunQ(s, r)
  /\ \A l \in Lists \ {RunQ} : r.list[l] # << >> => s.list[l] # << >>

LEMMA DrainsTwice ==
  ASSUME NEW s, NEW r, NEW v, Drains(s, r), Drains(r, v)
  PROVE  Drains(s, v)
BY DEF Drains, OnlyToRunQ

LEMMA StateDrains ==
  ASSUME NEW s \in SchedType, NEW t, NEW x
  PROVE  /\ Drains(s, [s EXCEPT !.state[t] = x])
         /\ [s EXCEPT !.state[t] = x].queue = s.queue
BY DEF Drains, OnlyToRunQ, SchedType

LEMMA EnqueueDrains ==
  ASSUME NEW s \in SchedType, NEW t \in Threads
  PROVE  Drains(s, EnqueueThread(s, RunQ, t)) /\ EnqueueThread(s, RunQ, t).queue[t] = RunQ
<1> DEFINE r == EnqueueThread(s, RunQ, t)
<1>1. /\ r.queue = [s.queue EXCEPT ![t] = RunQ]
      /\ \A l \in Lists \ {RunQ} : r.list[l] = s.list[l]
      /\ s.queue \in [Threads -> Lists \cup {NoList}]
  BY DEF EnqueueThread, SchedType
<1> HIDE DEF r
<1> QED BY <1>1 DEF Drains, OnlyToRunQ, r

LEMMA PopDrains ==
  ASSUME NEW s \in SchedType, NEW lst \in Lists, s.list[lst] # << >>
  PROVE  Drains(s, PopThread(s, lst)) /\ PopThread(s, lst).queue = s.queue
         /\ PopThread(s, lst).state = s.state
<1> DEFINE r == PopThread(s, lst)
<1>1. /\ r.queue = s.queue /\ r.state = s.state
      /\ \A l \in Lists \ {lst} : r.list[l] = s.list[l]
  BY DEF PopThread, SchedType
<1> HIDE DEF r
<1> QED BY <1>1 DEF Drains, OnlyToRunQ, r

LEMMA DispatchDrains ==
  ASSUME NEW s \in SchedType
  PROVE  Drains(s, DispatchThread(s))
<1> DEFINE r == DispatchThread(s)
<1>1. r.queue = s.queue /\ \A l \in Lists \ {RunQ} : r.list[l] = s.list[l]
  BY DEF DispatchThread, PopThread, SchedType
<1> HIDE DEF r
<1> QED BY <1>1 DEF Drains, OnlyToRunQ, r

LEMMA YieldDrains ==
  ASSUME NEW s \in SchedType, s.running \in Threads
  PROVE  Drains(s, EnqueueAndYield(s, RunQ))
<1>1. EnqueueThread(s, RunQ, s.running) \in SchedType
  BY ListsDistinct, EnqueueThreadType
<1> QED BY <1>1, EnqueueDrains, DispatchDrains, DrainsTwice DEF EnqueueAndYield

LEMMA YieldIfLowerDrains ==
  ASSUME NEW s \in SchedType, s.running \in Threads
  PROVE  Drains(s, YieldIfLower(s))
<1> DEFINE w == [s EXCEPT !.state[s.running] = "RUNNABLE"]
<1>1. w \in SchedType /\ w.running = s.running /\ Drains(s, w)
  BY StateType, StateDrains DEF States
<1>2. YieldIfLower(s) \in {s, EnqueueAndYield(w, RunQ)}
  BY DEF YieldIfLower
<1> HIDE DEF w
<1>3. Drains(s, s)
  BY DEF Drains, OnlyToRunQ
<1>4. Drains(s, EnqueueAndYield(w, RunQ))
  BY <1>1, YieldDrains, DrainsTwice
<1> QED BY <1>2, <1>3, <1>4

LEMMA RedispatchDrains ==
  ASSUME NEW s \in SchedType, s.running \in Threads
  PROVE  Drains(s, Redispatch(s))
<1> DEFINE f == [s EXCEPT !.list[RunQ] = <<s.running>> \o @]
           e == EnqueueThread(s, RunQ, s.running)
<1>1. f \in SchedType
  <2>1. <<s.running>> \in Seq(Threads) /\ s.list[RunQ] \in Seq(Threads)
    BY ListsDistinct DEF SchedType
  <2>2. <<s.running>> \o s.list[RunQ] \in Seq(Threads)
    BY <2>1, ConcatProperties
  <2> QED BY <2>2 DEF SchedType
<1>2. Drains(s, f)
  BY DEF Drains, OnlyToRunQ, SchedType
<1>3. e \in SchedType /\ Drains(s, e)
  BY ListsDistinct, EnqueueThreadType, EnqueueDrains
<1>4. Redispatch(s) \in {DispatchThread(f), DispatchThread(e)}
  BY DEF Redispatch
<1> HIDE DEF f, e
<1> QED BY <1>1, <1>2, <1>3, <1>4, DispatchDrains, DrainsTwice

LEMMA DequeueDrains ==
  ASSUME NEW s \in SchedType, NEW lst \in Lists \cup {NoList}, NEW t \in Threads
  PROVE  Drains(s, DequeueThread(s, lst, t))
<1> DEFINE r == DequeueThread(s, lst, t)
<1>1. /\ r.queue = s.queue
      /\ \A l \in Lists : r.list[l] = IF l = lst THEN Unlink(s.list[l], t) ELSE s.list[l]
  BY DEF DequeueThread, SchedType
<1> HIDE DEF r
<1>2. \A l \in Lists : s.list[l] = << >> => Unlink(s.list[l], t) = << >>
  <2>1. ~ IsIn(t, << >>)
    BY DEF IsIn
  <2> QED BY <2>1 DEF Unlink
<1> QED BY <1>1, <1>2 DEF Drains, OnlyToRunQ, r

(* A thread that changes its place in its list. *)
LEMMA RequeueDrains ==
  ASSUME NEW s \in SchedType, NEW u \in Threads,
         u # s.running /\ s.state[u] # "STOPPED"
           => s.queue[u] \in Lists /\ s.list[s.queue[u]] # << >>
  PROVE  Requeue(s, u) \in SchedType /\ Requeue(s, u).running = s.running /\ Drains(s, Requeue(s, u))
<1>1. CASE Requeue(s, u) = s
  BY <1>1 DEF Drains, OnlyToRunQ
<1>2. CASE u # s.running /\ s.state[u] # "STOPPED"
  <2> DEFINE lst == s.queue[u]
             d == DequeueThread(s, lst, u)
             r == EnqueueThread(d, lst, u)
  <2>1. lst \in Lists /\ s.list[lst] # << >>
    BY <1>2
  <2> HIDE DEF lst
  <2>2. d \in SchedType /\ d.running = s.running /\ d.queue = s.queue /\ Drains(s, d)
    BY <2>1, DequeueThreadType, DequeueDrains
  <2> HIDE DEF d
  <2>3. r \in SchedType /\ r.running = d.running
    BY <2>1, <2>2, EnqueueThreadType
  <2>4. r.queue = [d.queue EXCEPT ![u] = lst] /\ \A l \in Lists \ {lst} : r.list[l] = d.list[l]
    BY <2>2 DEF EnqueueThread, SchedType
  <2>5. s.queue \in [Threads -> Lists \cup {NoList}]
    BY DEF SchedType
  <2>6. Requeue(s, u) = r
    BY <1>2 DEF Requeue, r, d, lst
  <2> HIDE DEF r
  <2>7. \A t \in Threads : r.queue[t] = s.queue[t]
    BY <2>2, <2>4, <2>5 DEF lst
  <2> QED BY <2>1, <2>2, <2>3, <2>4, <2>6, <2>7 DEF Drains, OnlyToRunQ
<1> QED BY <1>1, <1>2 DEF Requeue

(* A thread stopped while it waited goes back to its wait queue, and one leaves it. *)
LEMMA MakeReadyDrains ==
  ASSUME NEW s \in SchedType, NEW t \in Threads
  PROVE  /\ Drains(s, MakeReady(s, t))
         /\ s.state[t] = "WAITING" => MakeReady(s, t).queue[t] = RunQ
<1> DEFINE r == [s EXCEPT !.state[t] = "RUNNABLE"]
           w == [s EXCEPT !.state[t] = "WAITING"]
           back == EnqueueThread(w, s.queue[t], t)
           next == Head(back.list[s.queue[t]])
           ready == EnqueueThread(r, RunQ, t)
           moved == EnqueueThread(PopThread(back, s.queue[t]), RunQ, next)
<1>1. /\ MakeReady(s, t) \in {s, ready, moved}
      /\ s.state[t] = "WAITING" => MakeReady(s, t) = ready
      /\ s.queue[t] \in {NoList, RunQ} => MakeReady(s, t) \in {s, ready}
  BY DEF MakeReady
<1>2. /\ r \in SchedType /\ Drains(s, r)
      /\ w \in SchedType /\ w.list = s.list /\ w.queue = s.queue
  <2>1. r \in SchedType /\ w \in SchedType /\ Drains(s, r)
    BY StateType, StateDrains DEF States
  <2> QED BY <2>1 DEF SchedType
<1> HIDE DEF r, w
<1>3. Drains(s, ready) /\ ready.queue[t] = RunQ
  BY <1>2, EnqueueDrains, DrainsTwice
<1> HIDE DEF ready
<1>4. ASSUME s.queue[t] \notin {NoList, RunQ}
      PROVE  Drains(s, moved)
  <2> DEFINE lst == s.queue[t]
             m == InsertAt(s.list[lst], InsertIndex(s.list[lst], w.priority, t), t)
             p == PopThread(back, lst)
  <2>1. lst \in Lists /\ s.list[lst] \in Seq(Threads) /\ w.priority \in [Threads -> Priorities]
        /\ s.queue \in [Threads -> Lists \cup {NoList}]
    BY <1>2, <1>4 DEF SchedType
  <2>2. Len(m) = Len(s.list[lst]) + 1 /\ m \in Seq(Threads)
    <3> DEFINE l == s.list[lst]
               i == InsertIndex(l, w.priority, t)
    <3>1. l \in Seq(Threads) /\ w.priority \in [Threads -> Priorities]
      BY <2>1
    <3> HIDE DEF l
    <3>2. i \in 1..(Len(l) + 1)
      BY <3>1, InsertIndexExists
    <3> HIDE DEF i
    <3>3. Len(InsertAt(l, i, t)) = Len(l) + 1 /\ InsertAt(l, i, t) \in Seq(Threads)
      BY <3>1, <3>2, InsertAtProperties
    <3> QED BY <3>3 DEF i, l
  <2> HIDE DEF lst
  <2>3. /\ back \in SchedType /\ back.list[lst] # << >>
        /\ back.queue = [s.queue EXCEPT ![t] = lst]
        /\ \A l \in Lists : back.list[l] = IF l = lst THEN m ELSE s.list[l]
    <3>1. back \in SchedType /\ back.list[lst] # << >>
      BY <1>2, <2>1, EnqueueThreadType DEF lst
    <3>2. /\ back.queue = [s.queue EXCEPT ![t] = lst]
          /\ \A l \in Lists : back.list[l] = IF l = lst THEN m ELSE s.list[l]
      BY <1>2, <2>1 DEF EnqueueThread, SchedType, lst
    <3> QED BY <3>1, <3>2
  <2> HIDE DEF m, back
  <2>4. /\ p \in SchedType /\ next \in Threads /\ p.queue = back.queue
        /\ \A l \in Lists : p.list[l] = IF l = lst THEN Tail(m) ELSE s.list[l]
    <3>1. p \in SchedType /\ next \in Threads
      BY <2>1, <2>3, PopThreadType DEF lst
    <3>2. p.queue = back.queue /\ \A l \in Lists : p.list[l] = IF l = lst THEN Tail(m) ELSE s.list[l]
      BY <2>1, <2>3 DEF PopThread, SchedType
    <3> QED BY <3>1, <3>2
  <2> HIDE DEF p, next
  <2>5. Tail(m) # << >> => s.list[lst] # << >>
    <3> SUFFICES ASSUME s.list[lst] = << >> PROVE Tail(m) = << >>
      OBVIOUS
    <3>1. Len(s.list[lst]) = 0
      OBVIOUS
    <3>2. Len(m) = 1
      BY <2>2, <3>1
    <3>3. m # << >>
      BY <3>2
    <3>4. Tail(m) \in Seq(Threads) /\ Len(Tail(m)) = 0
      BY <2>2, <3>2, <3>3, HeadTailProperties
    <3> QED BY <3>4, EmptySeq
  <2>6. \A u \in Threads : p.queue[u] = s.queue[u]
    BY <2>1, <2>3, <2>4 DEF lst
  <2>7. Drains(s, p)
    BY <2>4, <2>5, <2>6 DEF Drains, OnlyToRunQ
  <2>8. moved = EnqueueThread(p, RunQ, next)
    BY DEF p, lst
  <2> HIDE DEF moved
  <2> QED BY <2>4, <2>7, <2>8, EnqueueDrains, DrainsTwice
<1> HIDE DEF moved
<1>5. Drains(s, s)
  BY DEF Drains, OnlyToRunQ
<1> QED BY <1>1, <1>3, <1>4, <1>5

LEMMA StartDrains ==
  ASSUME NEW s \in SchedType, NEW t \in Threads, s.running \in Threads \cup {NoThread}
  PROVE  /\ Drains(s, StartThread(s, t))
         /\ s.state[t] = "WAITING" => StartThread(s, t).queue[t] = RunQ
<1> DEFINE r == MakeReady(s, t)
<1>1. r \in SchedType /\ r.running = s.running
  BY MakeReadyType
<1>2. Drains(s, r) /\ (s.state[t] = "WAITING" => r.queue[t] = RunQ)
  BY MakeReadyDrains
<1>3. StartThread(s, t) = IF r.running = NoThread THEN DispatchThread(r) ELSE YieldIfLower(r)
  BY DEF StartThread
<1> HIDE DEF r
<1>4. Drains(r, StartThread(s, t))
  BY <1>1, <1>3, DispatchDrains, YieldIfLowerDrains
<1> QED BY <1>2, <1>4, DrainsTwice DEF Drains, OnlyToRunQ

(* A wake-up takes the first thread of a wait queue that is not empty, whether a message
   call does it or the interrupt handler. *)
Wakes(s, r, lst) ==
  /\ Drains(s, r)
  /\ s.list[lst] # << >> => \E h \in Threads : s.queue[h] = lst /\ h \in On(s) /\ r.queue[h] = RunQ

LEMMA WakeFirstWakes ==
  ASSUME NEW s, Consistent(s), NEW lst \in Lists, lst # RunQ, s.running \in Threads
  PROVE  Wakes(s, WakeFirst(s, lst), lst)
<1>1. s \in SchedType
  BY DEF Consistent
<1>2. CASE s.list[lst] = << >>
  BY <1>2 DEF WakeFirst, Wakes, Drains, OnlyToRunQ
<1>3. CASE s.list[lst] # << >>
  <2> DEFINE h == Head(s.list[lst])
             p == PopThread(s, lst)
  <2>1. h \in On(s) /\ s.queue[h] = lst
    BY <1>3, PopLinks
  <2>2. h \in Threads /\ s.state[h] = "WAITING"
    BY <2>1, OnInLists DEF Fits
  <2>3. /\ p \in SchedType /\ p.running = s.running /\ Drains(s, p)
        /\ p.state = s.state
    BY <1>1, <1>3, PopThreadType, PopDrains
  <2>4. WakeFirst(s, lst) = StartThread(p, h)
    BY <1>3 DEF WakeFirst
  <2> HIDE DEF h, p
  <2>5. Drains(p, StartThread(p, h)) /\ StartThread(p, h).queue[h] = RunQ
    BY <2>2, <2>3, StartDrains
  <2> QED BY <2>1, <2>2, <2>3, <2>4, <2>5, DrainsTwice DEF Wakes
<1> QED BY <1>2, <1>3

LEMMA InterruptWakes ==
  ASSUME NEW s, Consistent(s), NEW lst \in Lists, lst # RunQ
  PROVE  Wakes(s, WakeFromInterrupt(s, lst), lst)
<1>1. s \in SchedType
  BY DEF Consistent
<1>2. CASE s.list[lst] = << >>
  BY <1>2 DEF WakeFromInterrupt, Wakes, Drains, OnlyToRunQ
<1>3. CASE s.list[lst] # << >>
  <2> DEFINE h == Head(s.list[lst])
             p == PopThread(s, lst)
  <2>1. h \in On(s) /\ s.queue[h] = lst
    BY <1>3, PopLinks
  <2>2. h \in Threads
    BY <2>1 DEF On
  <2>3. p \in SchedType /\ Drains(s, p)
    BY <1>1, <1>3, PopThreadType, PopDrains
  <2>4. WakeFromInterrupt(s, lst) = EnqueueThread(p, RunQ, h)
    BY <1>3 DEF WakeFromInterrupt
  <2> HIDE DEF h, p
  <2> QED BY <2>1, <2>2, <2>3, <2>4, EnqueueDrains, DrainsTwice DEF Wakes
<1> QED BY <1>2, <1>3

(* A wake-up before and after which the routine does something else. *)
LEMMA WakesBetween ==
  ASSUME NEW s, NEW w, NEW p, NEW r, NEW lst \in Lists,
         w.queue = s.queue, w.list = s.list, Wakes(w, p, lst), Drains(p, r), lst # RunQ
  PROVE  Wakes(s, r, lst)
<1>1. On(w) = On(s)
  BY DEF On
<1>2. Drains(s, w)
  BY DEF Drains, OnlyToRunQ
<1> QED BY <1>1, <1>2, DrainsTwice DEF Wakes, Drains, OnlyToRunQ

(* The state of a thread that is in no list. *)
LEMMA StateConsistent ==
  ASSUME NEW s, Consistent(s), NEW t \in Threads, t \notin On(s), NEW x \in States
  PROVE  /\ Consistent([s EXCEPT !.state[t] = x])
         /\ [s EXCEPT !.state[t] = x].queue = s.queue
         /\ [s EXCEPT !.state[t] = x].list = s.list
<1> DEFINE w == [s EXCEPT !.state[t] = x]
<1>1. /\ w \in SchedType /\ w.list = s.list /\ w.queue = s.queue /\ w.priority = s.priority
      /\ \A u \in Threads \ {t} : w.state[u] = s.state[u]
  BY DEF Consistent, SchedType
<1> HIDE DEF w
<1>2. Consistent(w)
  BY <1>1, UnlinkedChanges
<1> QED BY <1>1, <1>2 DEF w

LEMMA OnAreActive == KernelInv => On(sched) \subseteq active
<1> SUFFICES ASSUME KernelInv PROVE On(sched) \subseteq active
  OBVIOUS
<1>1. CASE sched.running = NoThread
  BY <1>1 DEF KernelInv, Scheduled, ToBoot
<1>2. CASE sched.running # NoThread
  <2>1. exc \in BOOLEAN
    BY DEF KernelInv, TypeInv, TypeOK
  <2>2. Booted(sched, active)
    BY <1>2, <2>1 DEF KernelInv, Scheduled, Interrupted, Leaving, Settled, Executing
  <2> QED BY <2>2 DEF Booted
<1> QED BY <1>1, <1>2

------------------------------------------------------------------------------
(* Counting the woken threads. *)
LEMMA CountGrows ==
  ASSUME NEW V, IsFiniteSet(V), NEW W \in SUBSET V
  PROVE  Cardinality(W) <= Cardinality(V) /\ Cardinality(W) \in Nat /\ Cardinality(V) \in Nat
BY FS_Subset, FS_CardinalityType

LEMMA CountAdds ==
  ASSUME NEW V, IsFiniteSet(V), NEW W \in SUBSET V, NEW h \in V \ W
  PROVE  /\ Cardinality(W) + 1 <= Cardinality(V)
         /\ Cardinality(W) \in Nat /\ Cardinality(V) \in Nat
<1>1. IsFiniteSet(W) /\ W \cup {h} \in SUBSET V
  BY FS_Subset
<1>2. Cardinality(W \cup {h}) = Cardinality(W) + 1
  BY <1>1, FS_AddElement
<1>3. Cardinality(W \cup {h}) <= Cardinality(V)
  BY <1>1, FS_Subset
<1> QED BY <1>1, <1>2, <1>3, FS_CardinalityType

LEMMA CountLoses ==
  ASSUME NEW V, IsFiniteSet(V), NEW W, IsFiniteSet(W), NEW t, W \ {t} \subseteq V
  PROVE  /\ Cardinality(W) <= Cardinality(V) + 1
         /\ Cardinality(W) \in Nat /\ Cardinality(V) \in Nat
<1>1. /\ IsFiniteSet(W \ {t})
      /\ Cardinality(W \ {t}) \in {Cardinality(W), Cardinality(W) - 1}
  BY FS_RemoveElement
<1>2. Cardinality(W \ {t}) <= Cardinality(V)
  BY FS_Subset
<1>3. Cardinality(W) \in Nat /\ Cardinality(V) \in Nat /\ Cardinality(W \ {t}) \in Nat
  BY <1>1, FS_CardinalityType
<1> QED BY <1>1, <1>2, <1>3

(* The inductive invariant: the set of threads is finite, as the number of woken threads
   is counted. *)
WakeInv == KernelInv /\ IsFiniteSet(active) /\ NoLostWakeup

LEMMA WokenFinite ==
  ASSUME IsFiniteSet(active), NEW ops, NEW q
  PROVE  IsFiniteSet(Woken(ops, q))
<1>1. Woken(ops, q) \in SUBSET active
  BY DEF Woken
<1> QED BY <1>1, FS_Subset

LEMMA WokenFiniteNext ==
  ASSUME IsFiniteSet(active'), NEW ops, NEW q
  PROVE  IsFiniteSet(Woken(ops, q)')
<1>1. Woken(ops, q)' \in SUBSET active'
  BY DEF Woken
<1> QED BY <1>1, FS_Subset

LEMMA RingCounts ==
  ASSUME TypeInv
  PROVE  \A q \in Queues : ring[q].valid \in 0..Capacity[q] /\ Capacity[q] \in Nat \ {0}
BY KernelAssumption DEF TypeInv, TypeOK, RingType

(* A step that moves no message and wakes or moves threads. *)
LEMMA MoveKeepsUp ==
  ASSUME WakeInv, IsFiniteSet(active'), active \subseteq active',
         \A t \in active : sched'.queue[t] \in {sched.queue[t], RunQ},
         \A l \in Lists \ {RunQ} : sched'.list[l] # << >> => sched.list[l] # << >>,
         \A t \in active : call[t].op \in {"send", "jam", "recv"} => call'[t] = call[t],
         ring' = ring
  PROVE  NoLostWakeup'
<1>1. ASSUME NEW q \in Queues, NEW ops \in {{"recv"}, {"send", "jam"}}
      PROVE  /\ Cardinality(Woken(ops, q)) \in Nat /\ Cardinality(Woken(ops, q)') \in Nat
             /\ Cardinality(Woken(ops, q)) <= Cardinality(Woken(ops, q)')
  <2>1. Woken(ops, q) \subseteq Woken(ops, q)'
    BY DEF Woken
  <2>2. IsFiniteSet(Woken(ops, q)')
    BY WokenFiniteNext
  <2> QED BY <2>1, <2>2, CountGrows
<1>2. \A q \in Queues : ring[q].valid \in Int /\ Capacity[q] - ring[q].valid \in Int
  BY RingCounts DEF WakeInv, KernelInv
<1>3. NoLostReceiver'
  <2> SUFFICES ASSUME NEW q \in Queues, sched'.list[MtQ(q)] # << >>
               PROVE  ring'[q].valid <= Cardinality(Woken({"recv"}, q)')
    BY DEF NoLostReceiver
  <2>1. sched.list[MtQ(q)] # << >>
    BY ListsDistinct
  <2>2. ring[q].valid <= Cardinality(Woken({"recv"}, q))
    BY <2>1 DEF WakeInv, NoLostWakeup, NoLostReceiver
  <2> QED BY <1>1, <1>2, <2>2
<1>4. NoLostSender'
  <2> SUFFICES ASSUME NEW q \in Queues, sched'.list[FullQ(q)] # << >>
               PROVE  Capacity[q] - ring'[q].valid <= Cardinality(Woken({"send", "jam"}, q)')
    BY DEF NoLostSender
  <2>1. sched.list[FullQ(q)] # << >>
    BY ListsDistinct
  <2>2. Capacity[q] - ring[q].valid <= Cardinality(Woken({"send", "jam"}, q))
    BY <2>1 DEF WakeInv, NoLostWakeup, NoLostSender
  <2> QED BY <1>1, <1>2, <2>2
<1> QED BY <1>3, <1>4 DEF NoLostWakeup

(* A message put in a queue wakes a receiver, and may be the one a woken sender was on
   its way to put. *)
LEMMA PutKeepsUp ==
  ASSUME WakeInv, NEW q \in Queues, NEW t, active' = active,
         \A p \in Queues : ring'[p].valid = IF p = q THEN ring[q].valid + 1 ELSE ring[p].valid,
         Wakes(sched, sched', MtQ(q)),
         \A u \in active : u # t => call'[u] = call[u],
         t \in active => call[t].op # "recv" /\ (call[t].op \in {"send", "jam"} => call[t].q = q)
  PROVE  NoLostWakeup'
<1>1. /\ \A u \in active : sched'.queue[u] \in {sched.queue[u], RunQ}
      /\ \A l \in Lists \ {RunQ} : sched'.list[l] # << >> => sched.list[l] # << >>
      /\ IsFiniteSet(active) /\ IsFiniteSet(active') /\ active \subseteq Threads
      /\ KernelInv /\ CallsMatch
  BY DEF WakeInv, KernelInv, TypeInv, TypeOK, Wakes, Drains, OnlyToRunQ
<1>2. \A p \in Queues : ring[p].valid \in 0..Capacity[p] /\ Capacity[p] \in Nat \ {0}
  BY RingCounts DEF WakeInv, KernelInv
<1>3. \A ops, p : IsFiniteSet(Woken(ops, p)) /\ IsFiniteSet(Woken(ops, p)')
  BY <1>1, WokenFinite, WokenFiniteNext
<1>4. NoLostReceiver'
  <2> SUFFICES ASSUME NEW p \in Queues, sched'.list[MtQ(p)] # << >>
               PROVE  ring'[p].valid <= Cardinality(Woken({"recv"}, p)')
    BY DEF NoLostReceiver
  <2> DEFINE W == Woken({"recv"}, p)
             V == Woken({"recv"}, p)'
  <2>1. sched.list[MtQ(p)] # << >>
    BY <1>1, ListsDistinct
  <2>2. ring[p].valid <= Cardinality(W)
    BY <2>1 DEF WakeInv, NoLostWakeup, NoLostReceiver
  <2>3. W \subseteq V
    BY <1>1 DEF Woken
  <2>4. CASE p # q
    BY <1>2, <1>3, <2>2, <2>3, <2>4, CountGrows
  <2>5. CASE p = q
    <3>1. PICK h \in Threads : sched.queue[h] = MtQ(q) /\ h \in On(sched) /\ sched'.queue[h] = RunQ
      BY <2>1, <2>5 DEF Wakes
    <3>2. h \in active /\ call[h].op = "recv" /\ call[h].q = q
      BY <1>1, <3>1, OnAreActive DEF CallsMatch
    <3>3. h \in V
      BY <2>5, <3>1, <3>2 DEF Woken
    <3>4. h \notin W
      BY <3>1, ListsDistinct DEF Woken
    <3> HIDE DEF W, V
    <3>5. IsFiniteSet(V)
      BY <1>3 DEF V
    <3>6. /\ Cardinality(W) + 1 <= Cardinality(V)
          /\ Cardinality(W) \in Nat /\ Cardinality(V) \in Nat
      BY <2>3, <3>3, <3>4, <3>5, CountAdds
    <3> QED BY <1>2, <2>2, <2>5, <3>6 DEF V
  <2> QED BY <2>4, <2>5
<1>5. NoLostSender'
  <2> SUFFICES ASSUME NEW p \in Queues, sched'.list[FullQ(p)] # << >>
               PROVE  Capacity[p] - ring'[p].valid <= Cardinality(Woken({"send", "jam"}, p)')
    BY DEF NoLostSender
  <2> DEFINE W == Woken({"send", "jam"}, p)
             V == Woken({"send", "jam"}, p)'
  <2>1. sched.list[FullQ(p)] # << >>
    BY <1>1, ListsDistinct
  <2>2. Capacity[p] - ring[p].valid <= Cardinality(W)
    BY <2>1 DEF WakeInv, NoLostWakeup, NoLostSender
  <2>3. CASE p # q
    <3>1. W \subseteq V
      BY <1>1, <2>3 DEF Woken
    <3> QED BY <1>2, <1>3, <2>2, <2>3, <3>1, CountGrows
  <2>4. CASE p = q
    <3>1. W \ {t} \subseteq V
      BY <1>1 DEF Woken
    <3>2. IsFiniteSet(W) /\ IsFiniteSet(V)
      BY <1>3
    <3> HIDE DEF W, V
    <3>3. /\ Cardinality(W) <= Cardinality(V) + 1
          /\ Cardinality(W) \in Nat /\ Cardinality(V) \in Nat
      BY <3>1, <3>2, CountLoses
    <3> QED BY <1>2, <2>2, <2>4, <3>3 DEF V
  <2> QED BY <2>3, <2>4
<1> QED BY <1>4, <1>5 DEF NoLostWakeup

(* A message taken wakes a sender, and may be the one a woken receiver was on its way
   to take. *)
LEMMA TakeKeepsUp ==
  ASSUME WakeInv, NEW q \in Queues, NEW t, active' = active,
         \A p \in Queues : ring'[p].valid = IF p = q THEN ring[q].valid - 1 ELSE ring[p].valid,
         Wakes(sched, sched', FullQ(q)),
         \A u \in active : u # t => call'[u] = call[u],
         t \in active => /\ call[t].op \notin {"send", "jam"}
                         /\ call[t].op = "recv" => call[t].q = q
  PROVE  NoLostWakeup'
<1>1. /\ \A u \in active : sched'.queue[u] \in {sched.queue[u], RunQ}
      /\ \A l \in Lists \ {RunQ} : sched'.list[l] # << >> => sched.list[l] # << >>
      /\ IsFiniteSet(active) /\ IsFiniteSet(active') /\ active \subseteq Threads
      /\ KernelInv /\ CallsMatch
  BY DEF WakeInv, KernelInv, TypeInv, TypeOK, Wakes, Drains, OnlyToRunQ
<1>2. \A p \in Queues : ring[p].valid \in 0..Capacity[p] /\ Capacity[p] \in Nat \ {0}
  BY RingCounts DEF WakeInv, KernelInv
<1>3. \A ops, p : IsFiniteSet(Woken(ops, p)) /\ IsFiniteSet(Woken(ops, p)')
  BY <1>1, WokenFinite, WokenFiniteNext
<1>4. NoLostSender'
  <2> SUFFICES ASSUME NEW p \in Queues, sched'.list[FullQ(p)] # << >>
               PROVE  Capacity[p] - ring'[p].valid <= Cardinality(Woken({"send", "jam"}, p)')
    BY DEF NoLostSender
  <2> DEFINE W == Woken({"send", "jam"}, p)
             V == Woken({"send", "jam"}, p)'
  <2>1. sched.list[FullQ(p)] # << >>
    BY <1>1, ListsDistinct
  <2>2. Capacity[p] - ring[p].valid <= Cardinality(W)
    BY <2>1 DEF WakeInv, NoLostWakeup, NoLostSender
  <2>3. W \subseteq V
    BY <1>1 DEF Woken
  <2>4. CASE p # q
    BY <1>2, <1>3, <2>2, <2>3, <2>4, CountGrows
  <2>5. CASE p = q
    <3>1. PICK h \in Threads : sched.queue[h] = FullQ(q) /\ h \in On(sched) /\ sched'.queue[h] = RunQ
      BY <2>1, <2>5 DEF Wakes
    <3>2. h \in active /\ call[h].op \in {"send", "jam"} /\ call[h].q = q
      BY <1>1, <3>1, OnAreActive DEF CallsMatch
    <3>3. h \in V
      BY <2>5, <3>1, <3>2 DEF Woken
    <3>4. h \notin W
      BY <3>1, ListsDistinct DEF Woken
    <3> HIDE DEF W, V
    <3>5. IsFiniteSet(V)
      BY <1>3 DEF V
    <3>6. /\ Cardinality(W) + 1 <= Cardinality(V)
          /\ Cardinality(W) \in Nat /\ Cardinality(V) \in Nat
      BY <2>3, <3>3, <3>4, <3>5, CountAdds
    <3> QED BY <1>2, <2>2, <2>5, <3>6 DEF V
  <2> QED BY <2>4, <2>5
<1>5. NoLostReceiver'
  <2> SUFFICES ASSUME NEW p \in Queues, sched'.list[MtQ(p)] # << >>
               PROVE  ring'[p].valid <= Cardinality(Woken({"recv"}, p)')
    BY DEF NoLostReceiver
  <2> DEFINE W == Woken({"recv"}, p)
             V == Woken({"recv"}, p)'
  <2>1. sched.list[MtQ(p)] # << >>
    BY <1>1, ListsDistinct
  <2>2. ring[p].valid <= Cardinality(W)
    BY <2>1 DEF WakeInv, NoLostWakeup, NoLostReceiver
  <2>3. CASE p # q
    <3>1. W \subseteq V
      BY <1>1, <2>3 DEF Woken
    <3> QED BY <1>2, <1>3, <2>2, <2>3, <3>1, CountGrows
  <2>4. CASE p = q
    <3>1. W \ {t} \subseteq V
      BY <1>1 DEF Woken
    <3>2. IsFiniteSet(W) /\ IsFiniteSet(V)
      BY <1>3
    <3> HIDE DEF W, V
    <3>3. /\ Cardinality(W) <= Cardinality(V) + 1
          /\ Cardinality(W) \in Nat /\ Cardinality(V) \in Nat
      BY <3>1, <3>2, CountLoses
    <3> QED BY <1>2, <2>2, <2>4, <3>3 DEF V
  <2> QED BY <2>3, <2>4
<1> QED BY <1>4, <1>5 DEF NoLostWakeup

(* A call that cannot be served puts its caller to sleep: nothing is left for it. *)
LEMMA BlockKeepsUp ==
  ASSUME WakeInv, NEW t \in active, Running(t), NEW op, NEW q \in Queues, NEW m, NEW lst \in Lists,
         \/ op = "recv" /\ lst = MtQ(q) /\ IsEmpty(q)
         \/ op \in {"send", "jam"} /\ lst = FullQ(q) /\ IsFull(q),
         call[t].op \in {"send", "jam", "recv"} => call[t].op = op /\ call[t].q = q,
         Block(t, op, q, m, lst), active' = active
  PROVE  NoLostWakeup'
<1> DEFINE w == [sched EXCEPT !.state[t] = "WAITING"]
           e == EnqueueThread(w, lst, t)
<1>1. /\ t \in Threads /\ active \subseteq Threads /\ sched \in SchedType /\ sched.running = t
      /\ call \in [Threads -> CallType] /\ IsFiniteSet(active) /\ IsFiniteSet(active')
  BY DEF WakeInv, KernelInv, TypeInv, TypeOK, Running
<1>2. /\ sched' = EnqueueAndYield(w, lst) /\ ring' = ring
      /\ call' = [call EXCEPT ![t] = Pending(op, q, m)]
  BY DEF Block
<1>3. /\ w \in SchedType /\ w.running = t /\ w.queue = sched.queue /\ w.list = sched.list
  <2>1. w \in SchedType /\ w.running = t
    BY <1>1, StateType DEF States
  <2> QED BY <1>1, <2>1 DEF SchedType
<1> HIDE DEF w
<1>4. /\ e \in SchedType /\ e.queue = [sched.queue EXCEPT ![t] = lst]
      /\ \A l \in Lists \ {lst} : e.list[l] = sched.list[l]
  <2>1. e \in SchedType
    BY <1>1, <1>3, EnqueueThreadType
  <2> QED BY <1>3, <2>1 DEF EnqueueThread, SchedType
<1>5. Drains(e, sched')
  BY <1>2, <1>3, <1>4, DispatchDrains DEF EnqueueAndYield
<1> HIDE DEF e
<1>6. /\ \A u \in active : u # t => sched'.queue[u] \in {sched.queue[u], RunQ}
      /\ \A u \in active : u # t => call'[u] = call[u]
      /\ \A l \in Lists \ {RunQ, lst} : sched'.list[l] # << >> => sched.list[l] # << >>
  BY <1>1, <1>2, <1>4, <1>5 DEF Drains, OnlyToRunQ, SchedType
<1>7. \A p \in Queues : ring[p].valid \in 0..Capacity[p] /\ Capacity[p] \in Nat \ {0}
  BY RingCounts DEF WakeInv, KernelInv
<1>8. ASSUME NEW p \in Queues, NEW ops \in {{"recv"}, {"send", "jam"}}, op \notin ops \/ p # q
      PROVE  /\ Cardinality(Woken(ops, p)) \in Nat /\ Cardinality(Woken(ops, p)') \in Nat
             /\ Cardinality(Woken(ops, p)) <= Cardinality(Woken(ops, p)')
  <2>1. t \notin Woken(ops, p)
    BY <1>8 DEF Woken
  <2>2. Woken(ops, p) \subseteq Woken(ops, p)'
    BY <1>2, <1>6, <2>1 DEF Woken, Block
  <2>3. IsFiniteSet(Woken(ops, p)')
    BY <1>1, WokenFiniteNext
  <2> QED BY <2>2, <2>3, CountGrows
<1>9. NoLostReceiver'
  <2> SUFFICES ASSUME NEW p \in Queues, sched'.list[MtQ(p)] # << >>
               PROVE  ring'[p].valid <= Cardinality(Woken({"recv"}, p)')
    BY DEF NoLostReceiver
  <2>1. CASE op = "recv" /\ p = q
    <3>1. ring'[p].valid = 0
      BY <1>2, <2>1 DEF IsEmpty
    <3>2. IsFiniteSet(Woken({"recv"}, p)')
      BY <1>1, WokenFiniteNext
    <3>3. Cardinality(Woken({"recv"}, p)') \in Nat
      BY <3>2, FS_CardinalityType
    <3> QED BY <3>1, <3>3
  <2>2. CASE ~ (op = "recv" /\ p = q)
    <3>1. MtQ(p) \in Lists \ {RunQ, lst}
      BY <2>2, ListsDistinct, ListNames
    <3>2. sched.list[MtQ(p)] # << >>
      BY <1>6, <3>1
    <3>3. ring[p].valid <= Cardinality(Woken({"recv"}, p))
      BY <3>2 DEF WakeInv, NoLostWakeup, NoLostReceiver
    <3>4. op \notin {"recv"} \/ p # q
      BY <2>2
    <3> QED BY <1>2, <1>7, <1>8, <3>3, <3>4
  <2> QED BY <2>1, <2>2
<1>10. NoLostSender'
  <2> SUFFICES ASSUME NEW p \in Queues, sched'.list[FullQ(p)] # << >>
               PROVE  Capacity[p] - ring'[p].valid <= Cardinality(Woken({"send", "jam"}, p)')
    BY DEF NoLostSender
  <2>1. CASE op \in {"send", "jam"} /\ p = q
    <3>1. Capacity[p] - ring'[p].valid = 0
      BY <1>2, <1>7, <2>1 DEF IsFull
    <3>2. IsFiniteSet(Woken({"send", "jam"}, p)')
      BY <1>1, WokenFiniteNext
    <3>3. Cardinality(Woken({"send", "jam"}, p)') \in Nat
      BY <3>2, FS_CardinalityType
    <3> QED BY <3>1, <3>3
  <2>2. CASE ~ (op \in {"send", "jam"} /\ p = q)
    <3>1. FullQ(p) \in Lists \ {RunQ, lst}
      BY <2>2, ListsDistinct, ListNames
    <3>2. sched.list[FullQ(p)] # << >>
      BY <1>6, <3>1
    <3>3. Capacity[p] - ring[p].valid <= Cardinality(Woken({"send", "jam"}, p))
      BY <3>2 DEF WakeInv, NoLostWakeup, NoLostSender
    <3>4. op \notin {"send", "jam"} \/ p # q
      BY <2>2
    <3> QED BY <1>2, <1>7, <1>8, <3>3, <3>4
  <2> QED BY <2>1, <2>2
<1> QED BY <1>9, <1>10 DEF NoLostWakeup

(* The body of a message call. *)
LEMMA BodyKeepsUp ==
  ASSUME WakeInv, NEW t \in Threads, Running(t), NEW q \in Queues, NEW m,
         \/ TrySend(t, q, m) /\ call[t].op \notin {"recv", "jam"}
         \/ TryJam(t, q, m) /\ call[t].op \notin {"recv", "send"}
         \/ TryRecv(t, q) /\ call[t].op \notin {"send", "jam"},
         call[t].op \in {"send", "jam", "recv"} => call[t].q = q, active' = active
  PROVE  NoLostWakeup'
<1>1. /\ t \in active /\ Consistent(sched) /\ sched.running = t /\ KernelInv
      /\ call \in [Threads -> CallType] /\ active \subseteq Threads
  BY RunningSettled DEF WakeInv, KernelInv, TypeInv, TypeOK
<1>2. /\ MtQ(q) \in Lists /\ MtQ(q) # RunQ /\ FullQ(q) \in Lists /\ FullQ(q) # RunQ
  BY ListsDistinct
<1>3. DOMAIN ring = Queues /\ \A p \in Queues : ring[p] \in RingType(p)
  BY <1>1 DEF KernelInv, TypeInv, TypeOK
<1>4. Return(t) => \A u \in active : u # t => call'[u] = call[u]
  BY <1>1 DEF Return
<1>5. \A r : ring' = [ring EXCEPT ![q] = r]
               => \A p \in Queues : ring'[p] = IF p = q THEN r ELSE ring[p]
  BY <1>3
<1>6. CASE \/ TrySend(t, q, m) /\ call[t].op \notin {"recv", "jam"}
           \/ TryJam(t, q, m) /\ call[t].op \notin {"recv", "send"}
  <2>1. CASE \E op \in {"send", "jam"} :
               /\ IsFull(q) /\ Block(t, op, q, m, FullQ(q))
               /\ call[t].op \in {"send", "jam", "recv"} => call[t].op = op
    BY <1>1, <1>2, <2>1, BlockKeepsUp
  <2>2. CASE /\ Return(t) /\ sched' = WakeFirst(sched, MtQ(q)) /\ call[t].op # "recv"
             /\ \E r : ring' = [ring EXCEPT ![q] = r] /\ r.valid = ring[q].valid + 1
    <3>1. Wakes(sched, sched', MtQ(q))
      BY <1>1, <1>2, <2>2, WakeFirstWakes
    <3>2. \A p \in Queues : ring'[p].valid = IF p = q THEN ring[q].valid + 1 ELSE ring[p].valid
      BY <1>5, <2>2
    <3> QED BY <1>4, <2>2, <3>1, <3>2, PutKeepsUp
  <2>3. /\ PutLast(ring[q], Capacity[q], m).valid = ring[q].valid + 1
        /\ PutFirst(ring[q], Capacity[q], m).valid = ring[q].valid + 1
    BY <1>3 DEF PutLast, PutFirst, RingType
  <2> QED BY <1>6, <2>1, <2>2, <2>3 DEF TrySend, TryJam
<1>7. CASE TryRecv(t, q) /\ call[t].op \notin {"send", "jam"}
  <2>1. CASE IsEmpty(q) /\ Block(t, "recv", q, NoMsg, MtQ(q))
    BY <1>1, <1>2, <1>7, <2>1, BlockKeepsUp
  <2>2. CASE /\ Return(t) /\ sched' = WakeFirst(sched, FullQ(q))
             /\ ring' = [ring EXCEPT ![q] = TakeFirst(ring[q], Capacity[q])]
    <3>1. Wakes(sched, sched', FullQ(q))
      BY <1>1, <1>2, <2>2, WakeFirstWakes
    <3>2. TakeFirst(ring[q], Capacity[q]).valid = ring[q].valid - 1
      BY <1>3 DEF TakeFirst, RingType
    <3> DEFINE r == TakeFirst(ring[q], Capacity[q])
    <3>3. ring' = [ring EXCEPT ![q] = r] /\ r.valid = ring[q].valid - 1
      BY <2>2, <3>2
    <3> HIDE DEF r
    <3>4. \A p \in Queues : ring'[p].valid = IF p = q THEN ring[q].valid - 1 ELSE ring[p].valid
      <4>1. \A p \in Queues : ring'[p] = IF p = q THEN r ELSE ring[p]
        BY <1>5, <3>3
      <4> QED BY <3>3, <4>1
    <3> QED BY <1>4, <1>7, <2>2, <3>1, <3>4, TakeKeepsUp
  <2> QED BY <1>7, <2>1, <2>2 DEF TryRecv
<1> QED BY <1>6, <1>7

LEMMA MesgKeepsUp ==
  ASSUME WakeInv, NEW t \in Threads, MesgCall(t) \/ ResumeMesg(t)
  PROVE  NoLostWakeup'
<1>1. call[t] \in CallType /\ User.op \notin {"send", "jam", "recv"}
  BY DEF WakeInv, KernelInv, TypeInv, TypeOK, User
<1>2. UNCHANGED kernelRest => active' = active
  BY DEF kernelRest
<1>3. ASSUME NEW q \in Queues, NEW m \in Msgs, SendMesg(t, q, m) \/ JamMesg(t, q, m)
      PROVE  NoLostWakeup'
  BY <1>1, <1>2, <1>3, BodyKeepsUp DEF SendMesg, JamMesg, InUser
<1>4. ASSUME NEW q \in Queues, RecvMesg(t, q)
      PROVE  NoLostWakeup'
  BY <1>1, <1>2, <1>4, BodyKeepsUp DEF RecvMesg, InUser
<1>5. CASE ResumeMesg(t)
  <2>1. /\ Running(t) /\ active' = active
        /\ \/ call[t].op = "send" /\ TrySend(t, call[t].q, call[t].m)
           \/ call[t].op = "jam"  /\ TryJam(t, call[t].q, call[t].m)
           \/ call[t].op = "recv" /\ TryRecv(t, call[t].q)
    BY <1>2, <1>5 DEF ResumeMesg
  <2>2. call[t].op \in {"send", "jam", "recv"} => call[t].q \in Queues
    BY <1>1 DEF CallType, User, Pending
  <2> QED BY <2>1, <2>2, BodyKeepsUp
<1> QED BY <1>3, <1>4, <1>5 DEF MesgCall

(* A routine that moves no message. *)
LEMMA DrainKeepsUp ==
  ASSUME WakeInv, active' = active, Drains(sched, sched'), ring' = ring,
         \A t \in active : call[t].op \in {"send", "jam", "recv"} => call'[t] = call[t]
  PROVE  NoLostWakeup'
<1>1. active \subseteq Threads /\ IsFiniteSet(active')
  BY DEF WakeInv, KernelInv, TypeInv, TypeOK
<1> QED BY <1>1, MoveKeepsUp DEF Drains, OnlyToRunQ

LEMMA ThreadKeepsUp ==
  ASSUME WakeInv, "destroy" \notin UserCalls, NEW t \in Threads, ThreadCall(t)
  PROVE  NoLostWakeup' /\ IsFiniteSet(active')
<1>0. ThreadCall(t) => InUser(t)
  BY DEF ThreadCall, CreateThread, OSStartThread, StopThread, SetThreadPri,
         DestroyThread, YieldThread
<1>1. /\ sched.running = t /\ t \in active /\ active \subseteq Threads /\ Consistent(sched)
      /\ sched \in SchedType /\ KernelInv /\ IsFiniteSet(active)
      /\ On(sched) = {u \in active : u # t /\ sched.state[u] # "STOPPED"}
  BY <1>0, RunningSettled DEF InUser, WakeInv, Executing, Booted, Consistent
<1>2. ASSUME NEW u \in Threads \ {Idle}, NEW p \in Prios, CreateThread(t, u, p)
      PROVE  NoLostWakeup' /\ IsFiniteSet(active')
  <2>1. /\ u \notin active /\ active' = active \cup {u} /\ call' = call /\ ring' = ring
        /\ sched'.list = sched.list
        /\ \A v \in active : sched'.queue[v] = sched.queue[v]
    BY <1>1, <1>2 DEF CreateThread, threadRest, SchedType
  <2>2. IsFiniteSet(active')
    BY <1>1, <2>1, FS_AddElement
  <2> QED BY <2>1, <2>2, MoveKeepsUp
<1>3. ASSUME active' = active, Drains(sched, sched'), call' = call, ring' = ring
      PROVE  NoLostWakeup' /\ IsFiniteSet(active')
  BY <1>1, <1>3, DrainKeepsUp
<1>4. ASSUME NEW u \in Threads, OSStartThread(t, u)
      PROVE  NoLostWakeup' /\ IsFiniteSet(active')
  BY <1>1, <1>3, <1>4, StartDrains DEF OSStartThread, threadRest
<1>5. ASSUME NEW u \in Threads, StopThread(t, u)
      PROVE  NoLostWakeup' /\ IsFiniteSet(active')
  <2> DEFINE w == [sched EXCEPT !.state[u] = "STOPPED"]
  <2>1. /\ active' = active /\ call' = call /\ ring' = ring
        /\ sched' \in {DispatchThread(w), DequeueThread(w, sched.queue[u], u)}
    BY <1>5 DEF StopThread, threadRest
  <2>2. w \in SchedType /\ Drains(sched, w) /\ sched.queue[u] \in Lists \cup {NoList}
    <3>1. w \in SchedType /\ Drains(sched, w)
      BY <1>1, StateType, StateDrains DEF States
    <3> QED BY <1>1, <3>1 DEF SchedType
  <2> HIDE DEF w
  <2>3. Drains(w, sched')
    BY <2>1, <2>2, DispatchDrains, DequeueDrains
  <2> QED BY <1>3, <2>1, <2>2, <2>3, DrainsTwice
<1>6. ASSUME NEW u \in Threads, NEW p \in Prios, SetThreadPri(t, u, p)
      PROVE  NoLostWakeup' /\ IsFiniteSet(active')
  <2> DEFINE w == [sched EXCEPT !.priority[u] = p]
             r == Requeue(w, u)
  <2>1. /\ active' = active /\ call' = call /\ ring' = ring /\ u \in active
        /\ sched' = YieldIfLower(r) /\ p \in Priorities
    BY <1>6, KernelAssumption DEF SetThreadPri, threadRest, Priorities
  <2>2. /\ w \in SchedType /\ w.running = t /\ w.queue = sched.queue /\ w.list = sched.list
        /\ w.state = sched.state
    BY <1>1, <2>1 DEF SchedType
  <2> HIDE DEF w
  <2>3. Drains(sched, w)
    BY <2>2 DEF Drains, OnlyToRunQ
  <2>4. u # w.running /\ w.state[u] # "STOPPED"
          => w.queue[u] \in Lists /\ w.list[w.queue[u]] # << >>
    <3> SUFFICES ASSUME u # w.running, w.state[u] # "STOPPED"
                 PROVE  sched.queue[u] \in Lists /\ sched.list[sched.queue[u]] # << >>
      BY <2>2
    <3>1. u \in On(sched)
      BY <1>1, <2>1, <2>2
    <3>2. sched.queue[u] \in Lists
      BY <1>1, <3>1, OnInLists
    <3> QED BY <1>1, <3>1, <3>2, EmptyList
  <2>5. r \in SchedType /\ r.running = t /\ Drains(w, r)
    BY <2>2, <2>4, RequeueDrains
  <2> HIDE DEF r
  <2>6. Drains(r, sched')
    BY <2>1, <2>5, YieldIfLowerDrains
  <2> QED BY <1>3, <2>1, <2>3, <2>5, <2>6, DrainsTwice
<1>7. CASE YieldThread(t)
  <2> DEFINE w == [sched EXCEPT !.state[t] = "RUNNABLE"]
  <2>1. active' = active /\ call' = call /\ ring' = ring /\ sched' = EnqueueAndYield(w, RunQ)
    BY <1>7 DEF YieldThread, threadRest
  <2>2. w \in SchedType /\ w.running = t /\ Drains(sched, w)
    BY <1>1, StateType, StateDrains DEF States
  <2> HIDE DEF w
  <2>3. Drains(w, sched')
    BY <2>1, <2>2, YieldDrains
  <2> QED BY <1>3, <2>1, <2>2, <2>3, DrainsTwice
<1> QED BY <1>2, <1>4, <1>5, <1>6, <1>7 DEF ThreadCall, DestroyThread

(* osSetEventMesg may send the message of the reset button. *)
LEMMA EventKeepsUp ==
  ASSUME WakeInv, NEW t \in Threads, EventCall(t) \/ ResumeSetEvent(t)
  PROVE  NoLostWakeup' /\ active' = active
<1>1. call \in [Threads -> CallType] /\ active \subseteq Threads /\ IsFiniteSet(active)
  BY DEF WakeInv, KernelInv, TypeInv, TypeOK
<1>2. Drains(sched, sched)
  BY DEF Drains, OnlyToRunQ
<1>3. ASSUME NEW e \in RegEvents, NEW q \in Queues, SetEventMesg(t, e, q)
      PROVE  NoLostWakeup' /\ active' = active
  <2>1. Running(t) /\ active' = active /\ call[t].op = "user"
    BY <1>3 DEF SetEventMesg, InUser, User
  <2>2. CASE SendsNMI(e) /\ ~IsFull(q)
    <3>1. /\ ring' = [ring EXCEPT ![q] = PutLast(@, Capacity[q], EventMsg)]
          /\ sched' = WakeFirst(sched, MtQ(q))
          /\ \/ call' = call
             \/ call' = [call EXCEPT ![t] = Pending("nmi", NoQueue, NoMsg)]
      BY <1>3, <2>2 DEF SetEventMesg
    <3>2. Consistent(sched) /\ sched.running \in Threads
      BY <2>1, RunningSettled DEF WakeInv, Running
    <3>3. Wakes(sched, sched', MtQ(q))
      BY <3>1, <3>2, ListsDistinct, WakeFirstWakes
    <3>4. \A u \in active : u # t => call'[u] = call[u]
      BY <1>1, <3>1
    <3>5. DOMAIN ring = Queues /\ \A p \in Queues : ring[p] \in RingType(p)
      BY DEF WakeInv, KernelInv, TypeInv, TypeOK
    <3> DEFINE r == PutLast(ring[q], Capacity[q], EventMsg)
    <3>6. ring' = [ring EXCEPT ![q] = r] /\ r.valid = ring[q].valid + 1
      BY <3>1, <3>5 DEF PutLast, RingType
    <3> HIDE DEF r
    <3>7. \A p \in Queues : ring'[p].valid = IF p = q THEN ring[q].valid + 1 ELSE ring[p].valid
      <4>1. \A p \in Queues : ring'[p] = IF p = q THEN r ELSE ring[p]
        BY <3>5, <3>6
      <4> QED BY <3>6, <4>1
    <3> QED BY <2>1, <3>3, <3>4, <3>7, PutKeepsUp
  <2>3. CASE ~ (SendsNMI(e) /\ ~IsFull(q))
    <3>1. ring' = ring /\ sched' = sched /\ call' = call
      BY <1>3, <2>3 DEF SetEventMesg
    <3> QED BY <1>2, <2>1, <3>1, DrainKeepsUp
  <2> QED BY <2>2, <2>3
<1>4. CASE ResumeSetEvent(t)
  <2>1. /\ ring' = ring /\ sched' = sched /\ active' = active /\ call[t].op = "nmi"
        /\ call' = [call EXCEPT ![t] = User]
    BY <1>4 DEF ResumeSetEvent, Return
  <2>2. \A u \in active : call[u].op \in {"send", "jam", "recv"} => call'[u] = call[u]
    BY <1>1, <2>1
  <2> QED BY <1>2, <2>1, <2>2, DrainKeepsUp
<1> QED BY <1>3, <1>4 DEF EventCall

(* An event posted by the handler, whatever it does to the scheduler around it. *)
LEMMA PostKeepsUp ==
  ASSUME WakeInv, NEW e \in Events, NEW w, Consistent(w),
         w.queue = sched.queue, w.list = sched.list,
         ring' = PostRing(e), Drains(PostSched(w, e), sched'), call' = call, active' = active
  PROVE  NoLostWakeup'
<1>1. CASE Posts(e)
  <2> DEFINE q == evtab[e]
  <2>1. q \in Queues /\ DOMAIN ring = Queues /\ \A p \in Queues : ring[p] \in RingType(p)
    BY <1>1 DEF Posts, WakeInv, KernelInv, TypeInv, TypeOK
  <2>2. /\ ring' = [ring EXCEPT ![q] = PutLast(ring[q], Capacity[q], EventMsg)]
        /\ PostSched(w, e) = WakeFromInterrupt(w, MtQ(q))
    BY <1>1 DEF PostRing, PostSched
  <2> HIDE DEF q
  <2>3. MtQ(q) \in Lists /\ MtQ(q) # RunQ
    BY <2>1, ListsDistinct
  <2>4. Wakes(w, PostSched(w, e), MtQ(q))
    BY <2>2, <2>3, InterruptWakes
  <2>5. Wakes(sched, sched', MtQ(q))
    <3> DEFINE p == PostSched(w, e)
    <3>1. Wakes(w, p, MtQ(q)) /\ Drains(p, sched')
      BY <2>4
    <3> HIDE DEF p
    <3> QED BY <2>3, <3>1, WakesBetween
  <2> DEFINE r == PutLast(ring[q], Capacity[q], EventMsg)
  <2>6. ring' = [ring EXCEPT ![q] = r] /\ r.valid = ring[q].valid + 1
    BY <2>1, <2>2 DEF PutLast, RingType
  <2> HIDE DEF r
  <2>7. \A p \in Queues : ring'[p].valid = IF p = q THEN ring[q].valid + 1 ELSE ring[p].valid
    <3>1. \A p \in Queues : ring'[p] = IF p = q THEN r ELSE ring[p]
      BY <2>1, <2>6
    <3> QED BY <2>6, <3>1
  <2>8. NoThread \notin active
    BY DistinctAssumption DEF WakeInv, KernelInv, TypeInv, TypeOK
  <2> QED BY <2>1, <2>5, <2>7, <2>8, PutKeepsUp
<1>2. CASE ~ Posts(e)
  <2>1. ring' = ring /\ PostSched(w, e) = w
    BY <1>2 DEF PostRing, PostSched
  <2>2. Drains(sched, sched')
    BY <2>1 DEF Drains, OnlyToRunQ
  <2> QED BY <2>1, <2>2, DrainKeepsUp
<1> QED BY <1>1, <1>2

LEMMA HandlerKeepsUp ==
  ASSUME WakeInv, Handler
  PROVE  NoLostWakeup' /\ active' = active
<1>1. /\ exc /\ active' = active /\ call' = call /\ KernelInv /\ Consistent(sched)
      /\ sched \in SchedType /\ sched.running \in Threads
  BY AlwaysConsistent
     DEF Handler, ServeCause, PiCallback, CartCallback, FirstPreNMI, LaterPreNMI,
         ReturnFromException, IsNext, WakeInv, KernelInv, TypeInv, TypeOK, InterruptedThread
<1>2. \A s : Drains(s, s)
  BY DEF Drains, OnlyToRunQ
<1>3. ASSUME NEW e \in Events, ring' = PostRing(e), sched' = PostSched(sched, e)
      PROVE  NoLostWakeup'
  BY <1>1, <1>2, <1>3, PostKeepsUp
<1>4. ASSUME ring' = ring, Drains(sched, sched')
      PROVE  NoLostWakeup'
  BY <1>1, <1>4, DrainKeepsUp
<1>5. ASSUME NEW e \in HwEvents, ServeCause(e)
      PROVE  NoLostWakeup'
  BY <1>3, <1>5, KernelAssumption DEF ServeCause
<1>6. CASE FirstPreNMI
  <2>1. "PRENMI" \in Events
    <3>1. HwOrder[2] = "PRENMI" /\ 2 \in 1..Len(HwOrder)
      BY DEF HwOrder
    <3> QED BY <3>1 DEF Events
  <2> QED BY <1>3, <1>6, <2>1 DEF FirstPreNMI
<1>7. CASE PiCallback \/ CartCallback \/ LaterPreNMI
  BY <1>2, <1>4, <1>7 DEF PiCallback, CartCallback, LaterPreNMI
<1>8. CASE ReturnFromException
  BY <1>1, <1>4, <1>8, RedispatchDrains DEF ReturnFromException
<1> QED BY <1>1, <1>5, <1>6, <1>7, <1>8 DEF Handler

LEMMA ExceptionKeepsUp ==
  ASSUME WakeInv,
         \/ \E S \in SUBSET HwEvents : Exception(S)
         \/ \E t \in Threads : Fault(t) \/ Break(t)
  PROVE  NoLostWakeup' /\ active' = active
<1>1. PICK t \in Threads :
        /\ InUser(t)
        /\ (\E S \in SUBSET HwEvents : Exception(S)) \/ Fault(t) \/ Break(t)
  BY DEF Exception, Fault, Break
<1>2. /\ sched.running = t /\ Consistent(sched) /\ sched \in SchedType /\ t \notin On(sched)
  BY <1>1, RunningSettled DEF InUser, WakeInv, Executing, Booted, Consistent
<1>3. active' = active /\ call' = call
  BY <1>1 DEF Exception, Fault, Break
<1>4. CASE \E S \in SUBSET HwEvents : Exception(S)
  <2>1. ring' = ring /\ sched' = [sched EXCEPT !.state[t] = "RUNNABLE"]
    BY <1>2, <1>4 DEF Exception
  <2>2. Drains(sched, sched')
    BY <1>2, <2>1, StateDrains
  <2> QED BY <1>3, <2>1, <2>2, DrainKeepsUp
<1>5. ASSUME NEW x \in States, NEW e \in Events,
             ring' = PostRing(e),
             LET p == PostSched([sched EXCEPT !.state[t] = x], e)
             IN sched' \in {DispatchThread(p), Redispatch(p)}
      PROVE  NoLostWakeup'
  <2> DEFINE w == [sched EXCEPT !.state[t] = x]
             p == PostSched(w, e)
  <2>1. Consistent(w) /\ w.queue = sched.queue /\ w.list = sched.list
    BY <1>2, StateConsistent
  <2>2. w \in SchedType /\ w.running = t
    BY <1>2, StateType
  <2>3. sched' \in {DispatchThread(p), Redispatch(p)}
    BY <1>5
  <2> HIDE DEF w
  <2>4. p \in SchedType /\ p.running = t
    <3>1. evtab[e] # NoQueue => evtab[e] \in Queues
      BY DEF WakeInv, KernelInv, TypeInv, TypeOK
    <3> QED BY <2>2, <3>1, ListsDistinct, WakeFromInterruptType DEF PostSched, Posts
  <2>5. Drains(p, sched')
    <3> HIDE DEF p
    <3> QED BY <2>3, <2>4, DispatchDrains, RedispatchDrains
  <2> QED BY <1>3, <1>5, <2>1, <2>5, PostKeepsUp
<1>6. CASE Fault(t)
  <2>1. "STOPPED" \in States /\ "FAULT" \in Events
    BY DEF States, Events
  <2> QED BY <1>3, <1>5, <1>6, <2>1 DEF Fault
<1>7. CASE Break(t)
  <2>1. "RUNNABLE" \in States /\ "CPU_BREAK" \in Events
    BY DEF States, Events
  <2> QED BY <1>3, <1>5, <1>7, <2>1 DEF Break
<1> QED BY <1>1, <1>3, <1>4, <1>6, <1>7

LEMMA WakeInit == Init => WakeInv
<1> SUFFICES ASSUME Init PROVE WakeInv
  OBVIOUS
<1>1. KernelInv
  BY InitInv
<1>2. IsFiniteSet(active)
  <2>1. active = {Idle}
    BY DEF Init
  <2> QED BY <2>1, FS_Singleton
<1>3. \A l \in Lists : sched.list[l] = << >>
  BY DEF Init
<1>4. NoLostWakeup
  BY <1>3, ListsDistinct DEF NoLostWakeup, NoLostReceiver, NoLostSender
<1> QED BY <1>1, <1>2, <1>4 DEF WakeInv

LEMMA WakeStep ==
  ASSUME "destroy" \notin UserCalls
  PROVE  WakeInv /\ [Next]_vars => WakeInv'
<1> SUFFICES ASSUME WakeInv, [Next]_vars PROVE WakeInv'
  OBVIOUS
<1>1. KernelInv'
  BY InvStep DEF WakeInv
<1>2. NoLostWakeup' /\ IsFiniteSet(active')
  <2>0. IsFiniteSet(active)
    BY DEF WakeInv
  <2>1. ASSUME active' = active, call' = call, ring' = ring, Drains(sched, sched')
        PROVE  NoLostWakeup' /\ IsFiniteSet(active')
    BY <2>0, <2>1, DrainKeepsUp
  <2>2. CASE Boot
    <3>1. sched \in SchedType /\ Idle \in Threads
      BY KernelAssumption DEF WakeInv, KernelInv, TypeInv, TypeOK
    <3>2. /\ sched.running = NoThread /\ sched' = StartThread(sched, Idle)
          /\ active' = active /\ call' = call /\ ring' = ring
      BY <2>2 DEF Boot, threadRest
    <3>3. Drains(sched, sched')
      BY <3>1, <3>2, StartDrains
    <3> QED BY <2>1, <3>2, <3>3
  <2>3. ASSUME NEW t \in Threads, MesgCall(t) \/ ResumeMesg(t)
        PROVE  NoLostWakeup' /\ IsFiniteSet(active')
    <3>1. active' = active
      BY <2>3 DEF MesgCall, SendMesg, JamMesg, RecvMesg, ResumeMesg, kernelRest
    <3> QED BY <2>0, <2>3, <3>1, MesgKeepsUp
  <2>4. ASSUME NEW t \in Threads, ThreadCall(t)
        PROVE  NoLostWakeup' /\ IsFiniteSet(active')
    BY <2>4, ThreadKeepsUp
  <2>5. ASSUME NEW t \in Threads, EventCall(t) \/ ResumeSetEvent(t)
        PROVE  NoLostWakeup' /\ IsFiniteSet(active')
    BY <2>0, <2>5, EventKeepsUp
  <2>6. ASSUME NEW t \in Threads, Fault(t) \/ Break(t)
        PROVE  NoLostWakeup' /\ IsFiniteSet(active')
    BY <2>0, <2>6, ExceptionKeepsUp
  <2>7. CASE \E S \in SUBSET HwEvents : Exception(S)
    BY <2>0, <2>7, ExceptionKeepsUp
  <2>8. CASE Handler
    BY <2>0, <2>8, HandlerKeepsUp
  <2>9. CASE UNCHANGED vars
    <3>1. Drains(sched, sched')
      BY <2>9 DEF vars, Drains, OnlyToRunQ
    <3> QED BY <2>1, <2>9, <3>1 DEF vars
  <2> QED BY <2>2, <2>3, <2>4, <2>5, <2>6, <2>7, <2>8, <2>9 DEF Next, Resume
<1> QED BY <1>1, <1>2 DEF WakeInv

(* Nobody sleeps on a queue that has a message, or a free slot, for him without as many
   woken threads being on their way to it, through every interleaving of sends, receives,
   events, priority changes, stops and restarts: osSendMesg, osJamMesg, osRecvMesg,
   send_mesg of exceptasm.s and osStartThread.  Destroying a thread that was woken and
   has not run yet does lose its wake-up (destroythread.c), so that osDestroyThread is
   left out here. *)
THEOREM NobodyIsForgotten ==
  ASSUME "destroy" \notin UserCalls
  PROVE  Spec => []NoLostWakeup
<1>1. WakeInv => NoLostWakeup
  BY DEF WakeInv
<1> QED BY <1>1, WakeInit, WakeStep, PTL DEF Spec
==============================================================================
