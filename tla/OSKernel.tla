------------------------------- MODULE OSKernel -------------------------------
(***************************************************************************)
(* The libultra kernel: threads, message queues, and the exceptions that   *)
(* turn hardware interrupts into messages (src/src/os).                    *)
(*                                                                         *)
(* A system call runs with interrupts disabled, so one call is one action, *)
(* up to the point where it yields.  A thread that yields inside a call is *)
(* resumed with interrupts still disabled: when it is dispatched again the *)
(* rest of its call (call[t]) is the next step, before any interrupt.      *)
(* An exception is a sequence of actions during which exc is TRUE and no   *)
(* thread runs.                                                            *)
(***************************************************************************)
EXTENDS ThreadQueue, FiniteSets

CONSTANTS
  Idle,      \* the idle thread, of priority 0: it never blocks, stops or faults
  Capacity,  \* msgCount of each queue
  Msgs,      \* the messages threads send
  NoMsg,     \* contents of a slot that was never written
  Prios,     \* priorities application threads are created with
  HwEvents,  \* interrupt causes the hardware raises
  RegEvents, \* events for which a queue is registered
  Clients,   \* threads that call osSetEventMesg
  UserCalls  \* system calls the application uses

EventMsg == "event"      \* the message registered with every event
AllMsgs  == Msgs \cup {EventMsg}

\* Order in which __osException serves the pending causes: IP8, IP5, IP4, the
\* RCP causes of IP3, then the software interrupts.
HwOrder == << "COUNTER", "PRENMI", "CART", "SP", "SP_BREAK", "VI", "AI",
              "SI", "PI", "DP", "SW2", "SW1" >>
Events  == {HwOrder[i] : i \in 1..Len(HwOrder)} \cup {"FAULT", "CPU_BREAK"}

ASSUME KernelAssumption ==
  /\ Idle \in Threads /\ Clients \subseteq Threads
  /\ Capacity \in [Queues -> Nat \ {0}]
  /\ EventMsg \notin Msgs /\ NoMsg \notin AllMsgs
  /\ Prios \subseteq 1..255
  /\ HwEvents \subseteq Events \ {"FAULT", "CPU_BREAK"}
  /\ RegEvents \subseteq Events

VARIABLES
  sched,     \* thread table, run queue and wait queues
  active,    \* threads on __osActiveQueue
  call,      \* what is left of the system call each thread is in
  ring,      \* first, validCount and msg[] of each message queue
  evtab,     \* __osEventStateTab: the queue registered for each event
  exc,       \* the processor is in __osException
  pend,      \* causes the exception handler still has to serve
  shutdown,  \* __osShutdown
  preNMI,    \* __osPreNMI
  nmiOff,    \* threads whose saved SR masks IP5
  nmiSent,   \* PRENMI messages put in a queue so far      (history)
  nmiLost    \* a PRENMI message met a full queue          (history)

mqVars  == << ring >>
nmiVars == << shutdown, preNMI, nmiOff, nmiSent, nmiLost >>
excVars == << exc, pend >>
vars    == << sched, active, call, ring, evtab, exc, pend, nmiVars >>

NmiSentMax == 3    \* bound of the history counter

User == [op |-> "user", q |-> NoQueue, m |-> NoMsg]
Pending(op, q, m) == [op |-> op, q |-> q, m |-> m]

CallType ==
  {User, Pending("nmi", NoQueue, NoMsg)}
    \cup [op : {"send", "jam"}, q : Queues, m : Msgs]
    \cup [op : {"recv"}, q : Queues, m : {NoMsg}]

RingType(q) ==
  [ first : 0..(Capacity[q] - 1), valid : 0..Capacity[q],
    buf : [0..(Capacity[q] - 1) -> AllMsgs \cup {NoMsg}] ]

TypeOK ==
  /\ sched \in SchedType
  /\ active \subseteq Threads
  /\ call \in [Threads -> CallType]
  /\ DOMAIN ring = Queues /\ \A q \in Queues : ring[q] \in RingType(q)
  /\ evtab \in [Events -> Queues \cup {NoQueue}]
  /\ exc \in BOOLEAN /\ pend \subseteq Events
  /\ shutdown \in BOOLEAN /\ preNMI \in BOOLEAN
  /\ nmiOff \subseteq Threads \cup {ThreadTail}
  /\ nmiSent \in 0..NmiSentMax /\ nmiLost \in BOOLEAN

Init ==
  /\ sched = [ running  |-> NoThread,
               state    |-> [t \in Threads |-> "STOPPED"],
               priority |-> [t \in Threads |-> 0],
               queue    |-> [t \in Threads |-> NoList],
               list     |-> [l \in Lists |-> <<>>] ]
  /\ active = {Idle}
  /\ call = [t \in Threads |-> User]
  /\ ring = [q \in Queues |->
              [first |-> 0, valid |-> 0,
               buf |-> [i \in 0..(Capacity[q] - 1) |-> NoMsg]]]
  /\ evtab = [e \in Events |-> NoQueue]
  /\ exc = FALSE /\ pend = {}
  /\ shutdown = FALSE /\ preNMI = FALSE
  /\ nmiOff = {} /\ nmiSent = 0 /\ nmiLost = FALSE

------------------------------------------------------------------------------
\* Message ring of one queue: r is its record, cap its msgCount.
PutLast(r, cap, m) ==
  [r EXCEPT !.buf[(r.first + r.valid) % cap] = m, !.valid = @ + 1]

\* Mutant: the message lands in the first slot, over the message there.
PutFirstOver(r, cap, m) ==
  [r EXCEPT !.buf[r.first] = m, !.valid = @ + 1]

PutFirst(r, cap, m) ==
  LET f == (r.first + cap - 1) % cap
  IN [r EXCEPT !.first = f, !.buf[f] = m, !.valid = @ + 1]

\* Mutant: the index runs off the end of the ring.
TakeFirstNoWrap(r, cap) == [r EXCEPT !.first = @ + 1, !.valid = @ - 1]

TakeFirst(r, cap) == [r EXCEPT !.first = (@ + 1) % cap, !.valid = @ - 1]

IsEmpty(q) == ring[q].valid = 0

IsFull(q)  == ring[q].valid >= Capacity[q]

Running(t) == ~exc /\ sched.running = t
\* t executes application code: interrupts are enabled.
InUser(t)  == Running(t) /\ call[t] = User
Return(t)  == call' = [call EXCEPT ![t] = User]

\* The loop body of the message calls when the queue cannot serve the caller.
Block(t, op, q, m, lst) ==
  /\ t # Idle
  /\ call' = [call EXCEPT ![t] = Pending(op, q, m)]
  /\ sched' = EnqueueAndYield([sched EXCEPT !.state[t] = "WAITING"], lst)
  /\ UNCHANGED ring

\* With OS_MESG_NOBLOCK a call that would block returns -1 and changes nothing:
\* a stuttering step.  A call that succeeds does the same with either flag.
TrySend(t, q, m) ==
  \/ /\ IsFull(q)
     /\ Block(t, "send", q, m, FullQ(q))
  \/ /\ ~IsFull(q)
     /\ ring' = [ring EXCEPT ![q] = PutLast(@, Capacity[q], m)]
     /\ sched' = WakeFirst(sched, MtQ(q))
     /\ Return(t)

TryJam(t, q, m) ==
  \/ /\ IsFull(q)
     /\ Block(t, "jam", q, m, FullQ(q))
  \/ /\ ~IsFull(q)
     /\ ring' = [ring EXCEPT ![q] = PutFirst(@, Capacity[q], m)]
     /\ sched' = WakeFirst(sched, MtQ(q))
     /\ Return(t)

TryRecv(t, q) ==
  \/ /\ IsEmpty(q)
     /\ Block(t, "recv", q, NoMsg, MtQ(q))
  \/ /\ ~IsEmpty(q)
     /\ ring' = [ring EXCEPT ![q] = TakeFirst(@, Capacity[q])]
     /\ sched' = WakeFirst(sched, FullQ(q))
     /\ Return(t)

kernelRest == << active, evtab, exc, pend, nmiVars >>

SendMesg(t, q, m) ==
  "send" \in UserCalls /\ InUser(t) /\ TrySend(t, q, m) /\ UNCHANGED kernelRest

JamMesg(t, q, m) ==
  "jam" \in UserCalls /\ InUser(t) /\ TryJam(t, q, m) /\ UNCHANGED kernelRest

RecvMesg(t, q) ==
  "recv" \in UserCalls /\ InUser(t) /\ TryRecv(t, q) /\ UNCHANGED kernelRest

\* A thread dispatched inside osSendMesg, osJamMesg or osRecvMesg tests its queue
\* again.
ResumeMesg(t) ==
  /\ Running(t)
  /\ \/ call[t].op = "send" /\ TrySend(t, call[t].q, call[t].m)
     \/ call[t].op = "jam"  /\ TryJam(t, call[t].q, call[t].m)
     \/ call[t].op = "recv" /\ TryRecv(t, call[t].q)
  /\ UNCHANGED kernelRest

------------------------------------------------------------------------------
threadRest == << ring, evtab, exc, pend, shutdown, preNMI, nmiSent, nmiLost >>

\* The boot code has created the idle thread and starts it.
Boot ==
  /\ sched.running = NoThread
  /\ sched' = StartThread(sched, Idle)
  /\ UNCHANGED << active, call, nmiOff, threadRest >>

CreateThread(t, u, p) ==
  /\ InUser(t) /\ u \notin active
  /\ sched' = [sched EXCEPT !.state[u] = "STOPPED", !.priority[u] = p,
                            !.queue[u] = NoList]
  /\ active' = active \cup {u}
  /\ nmiOff' = nmiOff \ {u}
  /\ UNCHANGED << call, threadRest >>

\* osStartThread applies to a stopped thread.
OSStartThread(t, u) ==
  /\ InUser(t) /\ u \in active /\ sched.state[u] = "STOPPED"
  /\ sched' = StartThread(sched, u)
  /\ UNCHANGED << active, call, nmiOff, threadRest >>

StopThread(t, u) ==
  /\ "stop" \in UserCalls /\ InUser(t) /\ u \in active \ {Idle}
  /\ LET s == [sched EXCEPT !.state[u] = "STOPPED"]
     IN \/ sched.state[u] = "RUNNING" /\ sched' = DispatchThread(s)
        \/ /\ sched.state[u] \in {"RUNNABLE", "WAITING"}
           /\ sched' = DequeueThread(s, sched.queue[u], u)
  /\ UNCHANGED << active, call, nmiOff, threadRest >>

YieldThread(t) ==
  /\ "yield" \in UserCalls /\ InUser(t)
  /\ sched' = EnqueueAndYield([sched EXCEPT !.state[t] = "RUNNABLE"], RunQ)
  /\ UNCHANGED << active, call, nmiOff, threadRest >>

\* Mutant: a thread that waits for a message keeps its place.
RequeueReady(s, u) ==
  IF u # s.running /\ s.state[u] = "RUNNABLE"
  THEN EnqueueThread(DequeueThread(s, s.queue[u], u), s.queue[u], u)
  ELSE s

\* A queued thread takes the place its new priority gives it in its queue.
Requeue(s, u) ==
  IF u # s.running /\ s.state[u] # "STOPPED"
  THEN EnqueueThread(DequeueThread(s, s.queue[u], u), s.queue[u], u)
  ELSE s

SetThreadPri(t, u, p) ==
  /\ "setpri" \in UserCalls /\ InUser(t) /\ u \in active \ {Idle}
  /\ sched.priority[u] # p
  /\ sched' = YieldIfLower(Requeue([sched EXCEPT !.priority[u] = p], u))
  /\ UNCHANGED << active, call, nmiOff, threadRest >>

\* osDestroyThread; a thread whose entry function returns destroys itself.  The
\* destroyed thread's stack is abandoned with the call it was in.
DestroyThread(t, u) ==
  /\ "destroy" \in UserCalls /\ InUser(t) /\ u \in active \ {Idle}
  /\ active' = active \ {u}
  /\ sched' = IF u = t THEN DispatchThread(sched)
              ELSE IF sched.state[u] # "STOPPED"
                   THEN DequeueThread(sched, sched.queue[u], u) ELSE sched
  /\ call' = [call EXCEPT ![u] = User]
  /\ UNCHANGED << nmiOff, threadRest >>

------------------------------------------------------------------------------
\* One more PRENMI message was put in a queue.
CountNMI == IF nmiSent < NmiSentMax THEN nmiSent + 1 ELSE nmiSent

\* Mutant: every registration after the press sends the message.
SendsNMIAgain(e) == e = "PRENMI" /\ shutdown

\* The press came before the first registration for it.
SendsNMI(e) == e = "PRENMI" /\ shutdown /\ ~preNMI

\* osSetEventMesg.  Registering for PRENMI after the reset button was pressed
\* sends the message at once, and that osSendMesg may yield before __osPreNMI
\* is set.
SetEventMesg(t, e, q) ==
  /\ t \in Clients /\ InUser(t)
  /\ evtab' = [evtab EXCEPT ![e] = q]
  /\ IF SendsNMI(e) /\ ~IsFull(q)
     THEN /\ ring' = [ring EXCEPT ![q] = PutLast(@, Capacity[q], EventMsg)]
          /\ sched' = WakeFirst(sched, MtQ(q))
          /\ nmiSent' = CountNMI
          /\ IF sched'.running = t
             THEN preNMI' = TRUE /\ call' = call
             ELSE /\ preNMI' = FALSE
                  /\ call' = [call EXCEPT ![t] = Pending("nmi", NoQueue, NoMsg)]
          /\ nmiLost' = nmiLost
     ELSE /\ preNMI' = (preNMI \/ e = "PRENMI")
          /\ nmiLost' = (nmiLost \/ SendsNMI(e))
          /\ UNCHANGED << ring, sched, call, nmiSent >>
  /\ UNCHANGED << active, exc, pend, shutdown, nmiOff >>

ResumeSetEvent(t) ==
  /\ Running(t) /\ call[t].op = "nmi"
  /\ preNMI' = TRUE
  /\ Return(t)
  /\ UNCHANGED << sched, active, ring, evtab, exc, pend, shutdown, nmiOff,
                  nmiSent, nmiLost >>

------------------------------------------------------------------------------
\* send_mesg: the event's message goes to the registered queue unless there is
\* none or it is full; the first thread waiting there is made ready.
Posts(e) == evtab[e] # NoQueue /\ ~IsFull(evtab[e])

PostRing(e) ==
  IF Posts(e)
  THEN [ring EXCEPT ![evtab[e]] = PutLast(@, Capacity[evtab[e]], EventMsg)]
  ELSE ring

PostSched(s, e) ==
  IF Posts(e) THEN WakeFromInterrupt(s, MtQ(evtab[e])) ELSE s

\* The causes S are pending when an instruction of the running thread completes.
Exception(S) ==
  /\ sched.running \in Threads /\ InUser(sched.running)
  /\ S # {} /\ ~({"SP", "SP_BREAK"} \subseteq S)
  /\ "PRENMI" \in S => sched.running \notin nmiOff
  /\ exc' = TRUE /\ pend' = S
  /\ sched' = [sched EXCEPT !.state[sched.running] = "RUNNABLE"]
  /\ UNCHANGED << active, call, ring, evtab, nmiVars >>

Rank(e)    == CHOOSE i \in 1..Len(HwOrder) : HwOrder[i] = e
IsNext(e)  == exc /\ e \in pend /\ \A f \in pend : Rank(e) <= Rank(f)

ServeCause(e) ==
  /\ IsNext(e) /\ e # "PRENMI"
  /\ pend' = pend \ {e}
  /\ ring' = PostRing(e) /\ sched' = PostSched(sched, e)
  /\ UNCHANGED << active, call, evtab, exc, nmiVars >>

\* The PI callback handled the interrupt itself: no event is posted.
PiCallback ==
  /\ IsNext("PI")
  /\ pend' = pend \ {"PI"}
  /\ UNCHANGED << sched, active, call, ring, evtab, exc, nmiVars >>

\* The cartridge callback returned nonzero: redispatch at once.
CartCallback ==
  /\ IsNext("CART")
  /\ pend' = {}
  /\ UNCHANGED << sched, active, call, ring, evtab, exc, nmiVars >>

\* Head of the run queue as prenmi reads it, the sentinel when it is empty.
FirstReady(s) ==
  IF s.list[RunQ] = <<>> THEN ThreadTail ELSE Head(s.list[RunQ])

\* The reset button is seen for the first time: post PRENMI, mask IP5 in the
\* interrupted thread and in the head of the run queue, redispatch at once.
FirstPreNMI ==
  /\ IsNext("PRENMI") /\ ~shutdown
  /\ shutdown' = TRUE /\ pend' = {}
  /\ ring' = PostRing("PRENMI") /\ sched' = PostSched(sched, "PRENMI")
  /\ nmiSent' = IF Posts("PRENMI") THEN CountNMI ELSE nmiSent
  /\ nmiLost' = (nmiLost \/ (evtab["PRENMI"] # NoQueue /\ ~Posts("PRENMI")))
  /\ nmiOff' = nmiOff \cup {sched.running, FirstReady(sched')}
  /\ UNCHANGED << active, call, evtab, exc, preNMI >>

\* IP5 stays asserted: each thread that still has it unmasked takes it once.
LaterPreNMI ==
  /\ IsNext("PRENMI") /\ shutdown
  /\ pend' = {}
  /\ nmiOff' = nmiOff \cup {sched.running}
  /\ UNCHANGED << sched, active, call, ring, evtab, exc, shutdown, preNMI,
                  nmiSent, nmiLost >>

ReturnFromException ==
  /\ exc /\ pend = {}
  /\ exc' = FALSE
  /\ sched' = Redispatch(sched)
  /\ UNCHANGED << active, call, ring, evtab, pend, nmiVars >>

\* An exception that is no interrupt (panic): the thread is stopped.
Fault(t) ==
  /\ "fault" \in UserCalls /\ InUser(t) /\ t # Idle
  /\ ring' = PostRing("FAULT")
  /\ sched' = DispatchThread(
                PostSched([sched EXCEPT !.state[t] = "STOPPED"], "FAULT"))
  /\ UNCHANGED << active, call, evtab, exc, pend, nmiVars >>

\* handle_break
Break(t) ==
  /\ "break" \in UserCalls /\ InUser(t)
  /\ ring' = PostRing("CPU_BREAK")
  /\ sched' = Redispatch(
                PostSched([sched EXCEPT !.state[t] = "RUNNABLE"], "CPU_BREAK"))
  /\ UNCHANGED << active, call, evtab, exc, pend, nmiVars >>

------------------------------------------------------------------------------
MesgCall(t) ==
  \/ \E q \in Queues, m \in Msgs : SendMesg(t, q, m) \/ JamMesg(t, q, m)
  \/ \E q \in Queues : RecvMesg(t, q)

ThreadCall(t) ==
  \/ \E u \in Threads \ {Idle}, p \in Prios : CreateThread(t, u, p)
  \/ \E u \in Threads : OSStartThread(t, u) \/ StopThread(t, u)
  \/ \E u \in Threads, p \in Prios : SetThreadPri(t, u, p)
  \/ \E u \in Threads : DestroyThread(t, u)
  \/ YieldThread(t)

EventCall(t) == \E e \in RegEvents, q \in Queues : SetEventMesg(t, e, q)

Resume(t) == ResumeMesg(t) \/ ResumeSetEvent(t)

Handler ==
  \/ \E e \in HwEvents : ServeCause(e)
  \/ PiCallback \/ CartCallback \/ FirstPreNMI \/ LaterPreNMI
  \/ ReturnFromException

Next ==
  \/ Boot
  \/ \E t \in Threads :
       MesgCall(t) \/ ThreadCall(t) \/ EventCall(t) \/ Resume(t)
         \/ Fault(t) \/ Break(t)
  \/ \E S \in SUBSET HwEvents : Exception(S)
  \/ Handler

Spec == Init /\ [][Next]_vars

\* Fairness: the processor finishes an exception and the rest of a system call,
\* and takes a pending interrupt as soon as a thread enables interrupts again
\* (strong: the video retrace keeps coming, interrupts are only masked now and
\* then).  Nothing is assumed of application code.
LiveSpec ==
  /\ Spec
  /\ WF_vars(Boot) /\ WF_vars(Handler)
  /\ WF_vars(\E t \in Threads : Resume(t))
  /\ SF_vars(Exception({"VI"}))

------------------------------------------------------------------------------
\* Every thread is where its state says it is, and in one place only:
\* OSThread.queue is never cleared, yet it names the list a queued thread is in,
\* the only one osStopThread, osSetThreadPri and osDestroyThread search.  A
\* thread in a wait queue is there for the call it is in; a thread that waits in
\* the run queue was put there by an interrupt.
OneList(t) ==
  \A l \in Lists : IsIn(t, sched.list[l]) => l = sched.queue[t]

Queued(t) == sched.queue[t] \in Lists /\ IsIn(t, sched.list[sched.queue[t]])

WaitsForItsCall(t) ==
  sched.state[t] = "WAITING" =>
    \A q \in Queues :
      /\ sched.queue[t] = MtQ(q)   => call[t].op = "recv" /\ call[t].q = q
      /\ sched.queue[t] = FullQ(q) => call[t].op \in {"send", "jam"} /\ call[t].q = q

Placement ==
  /\ \A l \in Lists : \A i, j \in 1..Len(sched.list[l]) :
       sched.list[l][i] = sched.list[l][j] => i = j
  /\ \A t \in Threads : OneList(t)
  /\ \A t \in Threads :
       Queued(t) <=> /\ t \in active /\ t # sched.running
                     /\ sched.state[t] # "STOPPED"
  /\ \A t \in active :
       /\ sched.state[t] = "RUNNING"  <=> t = sched.running /\ ~exc
       /\ sched.state[t] = "RUNNABLE" /\ t # sched.running => sched.queue[t] = RunQ
       /\ WaitsForItsCall(t)

\* Every list is ordered by priority, the most urgent thread first.
ListsSorted ==
  \A l \in Lists : \A i, j \in 1..Len(sched.list[l]) :
    i < j => sched.priority[sched.list[l][i]] >= sched.priority[sched.list[l][j]]

\* No ready thread is more urgent than the one that runs: every path that makes
\* a thread ready or changes a priority compares with the head of the run queue.
UrgentRuns ==
  sched.running \in Threads /\ ~exc
    => HeadPriority(sched) <= sched.priority[sched.running]

\* The idle thread keeps __osThreadTail from ever being dispatched.
TailNeverRuns == sched.running # ThreadTail

\* No lost wake-up.  Receivers sleep on a queue that holds messages only while
\* as many woken receivers are on their way to those messages; the same for
\* senders and free slots.  A woken thread may find that another thread took the
\* message first, and then it sleeps again.
Woken(ops, q) ==
  {t \in active : call[t].op \in ops /\ call[t].q = q /\ sched.queue[t] = RunQ}

NoLostReceiver ==
  \A q \in Queues : sched.list[MtQ(q)] # <<>>
    => ring[q].valid <= Cardinality(Woken({"recv"}, q))

NoLostSender ==
  \A q \in Queues : sched.list[FullQ(q)] # <<>>
    => Capacity[q] - ring[q].valid <= Cardinality(Woken({"send", "jam"}, q))

\* Whoever waits for a message or for a free slot is woken for it (osSendMesg,
\* osJamMesg, osRecvMesg, and send_mesg of exceptasm.s).
NoLostWakeup == NoLostReceiver /\ NoLostSender

\* Turns among threads of equal priority: in every list who comes later stays
\* behind, whatever is inserted, taken out or stopped around them, and an interrupt
\* takes the processor only for a more urgent thread.
Ahead(l, t, u) ==
  \E i \in 1..Len(l) : l[i] = t /\ \A j \in 1..i : l[j] # u

KeepsPriority(t) == sched'.priority[t] = sched.priority[t]

EqualsKeepOrder ==
  \A l \in Lists : \A t, u \in ToSet(sched'.list[l]) :
    ( /\ t # u /\ Ahead(sched.list[l], t, u)
      /\ KeepsPriority(t) /\ KeepsPriority(u)
      /\ sched.priority[t] = sched.priority[u] )
    => Ahead(sched'.list[l], t, u)

InterruptKeepsTurn ==
  exc /\ ~exc' /\ sched'.running # sched.running
    => sched.priority[sched'.running] > sched.priority[sched.running]

Turns == [][EqualsKeepOrder /\ InterruptKeepsTurn]_vars

\* The reset button reaches the application exactly once, whether it registers
\* for PRENMI before or after the press, unless the queue was full.
InRegistration == \E t \in active : call[t].op = "nmi"

NmiDelivered ==
  /\ nmiSent <= 1
  /\ shutdown /\ preNMI /\ ~InRegistration => nmiSent = 1 \/ nmiLost

\* IP5 stays asserted after the press: the thread that runs next has it masked,
\* or the handler would be entered again before one instruction of it.
NmiMasked == FirstPreNMI => Redispatch(sched').running \in nmiOff'

\* Both: the button is served once.
NmiServedOnce == [][NmiDelivered' /\ NmiMasked]_vars

\* The most urgent thread, blocked in osRecvMesg on the queue registered for the
\* video interrupt, gets a message whatever the other threads do.
MostUrgent(t) ==
  t \in active /\ \A u \in active \ {t} : sched.priority[u] < sched.priority[t]

TopReceives ==
  \A t \in Threads, q \in Queues :
    (IsIn(t, sched.list[MtQ(q)]) /\ MostUrgent(t) /\ evtab["VI"] = q)
      ~> (call[t] = User \/ ~MostUrgent(t) \/ evtab["VI"] # q)

------------------------------------------------------------------------------
\* The message queues implement MesgBox: what a queue holds is the ring read
\* from first on, and a thread's pending call is the one it is blocked in.
Contents(r, cap) == [i \in 1..r.valid |-> r.buf[(r.first + i - 1) % cap]]

Box == INSTANCE MesgBox WITH
  Threads <- Threads, Queues <- Queues, Capacity <- Capacity, Msgs <- Msgs,
  EventMsg <- EventMsg, NoCall <- User,
  box <- [q \in Queues |-> Contents(ring[q], Capacity[q])],
  wait <- [t \in Threads |-> IF call[t].op = "nmi" THEN User ELSE call[t]],
  alive <- active

ImplementsBox == Box!Spec
==============================================================================
