----------------------------- MODULE ThreadQueue -----------------------------
(***************************************************************************)
(* The scheduler's data: the thread table, the run queue and the wait      *)
(* queues of the message queues, and the routines that link and unlink     *)
(* threads (src/src/os/exceptasm.s, thread.c, startthread.c).              *)
(*                                                                         *)
(* A routine of the C and assembly code becomes an operator from scheduler *)
(* state to scheduler state, so that a system call is the composition of   *)
(* the routines it calls.  A linked list of OSThread is a sequence; the    *)
(* sentinel __osThreadTail that ends every list is the end of the          *)
(* sequence.                                                               *)
(***************************************************************************)
EXTENDS Integers, Sequences, SequencesExt

CONSTANTS
  Threads,     \* the OSThread structures
  Queues,      \* the OSMesgQueue structures
  NoThread,    \* __osRunningThread before the first dispatch (NULL)
  ThreadTail,  \* the sentinel, as something that could be dispatched
  NoQueue      \* a queue pointer that is NULL

ASSUME DistinctAssumption ==
  /\ NoThread \notin Threads /\ ThreadTail \notin Threads
  /\ NoThread # ThreadTail /\ NoQueue \notin Queues

\* What OSThread.queue points to: the run queue, or one of the two wait
\* queues of a message queue.
RunQ     == <<"run", NoQueue>>
MtQ(q)   == <<"mt", q>>
FullQ(q) == <<"full", q>>
NoList   == <<"null", NoQueue>>
Lists    == {RunQ} \cup {MtQ(q) : q \in Queues} \cup {FullQ(q) : q \in Queues}

States     == {"STOPPED", "RUNNABLE", "RUNNING", "WAITING"}
Priorities == 0..255

SchedType ==
  [ running  : Threads \cup {NoThread, ThreadTail},
    state    : [Threads -> States],
    priority : [Threads -> Priorities],
    queue    : [Threads -> Lists \cup {NoList}],
    list     : [Lists -> Seq(Threads)] ]

------------------------------------------------------------------------------
\* Mutant: a thread goes ahead of those of its own priority.
InsertIndexAhead(l, pri, t) ==
  CHOOSE i \in 1..(Len(l) + 1) :
    /\ \A j \in 1..(i - 1) : pri[l[j]] > pri[t]
    /\ i <= Len(l) => pri[l[i]] <= pri[t]

\* Position at which a thread enters list l: before the first thread of lower
\* priority, hence behind those of its own priority.
InsertIndex(l, pri, t) ==
  CHOOSE i \in 1..(Len(l) + 1) :
    /\ \A j \in 1..(i - 1) : pri[l[j]] >= pri[t]
    /\ i <= Len(l) => pri[l[i]] < pri[t]

\* Mutant: OSThread.queue keeps naming the previous list.
EnqueueThreadStale(s, lst, t) ==
  [s EXCEPT !.list[lst] = InsertAt(@, InsertIndex(@, s.priority, t), t)]

EnqueueThread(s, lst, t) ==
  [s EXCEPT !.list[lst] = InsertAt(@, InsertIndex(@, s.priority, t), t),
            !.queue[t] = lst]

PopThread(s, lst) == [s EXCEPT !.list[lst] = Tail(@)]

IsIn(t, l) == \E i \in 1..Len(l) : l[i] = t

Unlink(l, t) ==
  IF IsIn(t, l)
  THEN RemoveAt(l, CHOOSE i \in 1..Len(l) :
                     l[i] = t /\ \A j \in 1..(i - 1) : l[j] # t)
  ELSE l

DequeueThread(s, lst, t) == [s EXCEPT !.list[lst] = Unlink(@, t)]

\* __osDispatchThread: run the head of the run queue.  With no thread left the
\* sentinel itself would be dispatched.
DispatchThread(s) ==
  IF s.list[RunQ] = <<>>
  THEN [s EXCEPT !.running = ThreadTail]
  ELSE [PopThread(s, RunQ) EXCEPT !.running = Head(s.list[RunQ]),
                                  !.state[Head(s.list[RunQ])] = "RUNNING"]

\* __osEnqueueAndYield(queue)
EnqueueAndYield(s, lst) == DispatchThread(EnqueueThread(s, lst, s.running))

\* Priority of the head of the run queue; the sentinel's is -1.
HeadPriority(s) ==
  IF s.list[RunQ] = <<>> THEN -1 ELSE s.priority[Head(s.list[RunQ])]

\* The running thread gives way to a more urgent one.
YieldIfLower(s) ==
  IF s.priority[s.running] < HeadPriority(s)
  THEN EnqueueAndYield([s EXCEPT !.state[s.running] = "RUNNABLE"], RunQ)
  ELSE s

\* First half of osStartThread: make t ready.  A thread that was stopped while
\* it waited goes back to its wait queue and the head of that queue, which may
\* be another thread, is made ready in its place.
MakeReady(s, t) ==
  LET ready == EnqueueThread([s EXCEPT !.state[t] = "RUNNABLE"], RunQ, t)
      back  == EnqueueThread([s EXCEPT !.state[t] = "WAITING"], s.queue[t], t)
  IN CASE s.state[t] = "WAITING" -> ready
       [] s.state[t] = "STOPPED" /\ s.queue[t] \in {NoList, RunQ} -> ready
       [] s.state[t] = "STOPPED" /\ s.queue[t] \notin {NoList, RunQ} ->
            EnqueueThread(PopThread(back, s.queue[t]), RunQ,
                          Head(back.list[s.queue[t]]))
       [] OTHER -> s

\* Mutant: the caller keeps the processor from the thread it made ready.
StartThreadKeep(s, t) ==
  LET r == MakeReady(s, t)
  IN IF r.running = NoThread THEN DispatchThread(r) ELSE r

StartThread(s, t) ==
  LET r == MakeReady(s, t)
  IN IF r.running = NoThread THEN DispatchThread(r) ELSE YieldIfLower(r)

\* Wake the first thread waiting in lst, if there is one, as the message calls do.
WakeFirst(s, lst) ==
  IF s.list[lst] = <<>> THEN s
  ELSE StartThread(PopThread(s, lst), Head(s.list[lst]))

\* Mutant: the handler posts the message and wakes nobody.
WakeFromInterruptNot(s, lst) == s

\* The interrupt handler's wake-up (send_mesg): the thread goes to the run queue
\* with its state left at OS_STATE_WAITING.
WakeFromInterrupt(s, lst) ==
  IF s.list[lst] = <<>> THEN s
  ELSE EnqueueThread(PopThread(s, lst), RunQ, Head(s.list[lst]))

\* Mutant: the interrupted thread is not put back.
RedispatchLosing(s) ==
  IF s.priority[s.running] >= HeadPriority(s)
  THEN DispatchThread(s)
  ELSE DispatchThread(EnqueueThread(s, RunQ, s.running))

\* redispatch: the interrupted thread goes to the front of the run queue unless
\* a more urgent thread is there, in which case it queues by priority.
Redispatch(s) ==
  LET t == s.running
  IN IF s.priority[t] >= HeadPriority(s)
     THEN DispatchThread([s EXCEPT !.list[RunQ] = <<t>> \o @])
     ELSE DispatchThread(EnqueueThread(s, RunQ, t))
==============================================================================
