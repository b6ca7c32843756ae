-------------------------------- MODULE OSTimer --------------------------------
(***************************************************************************)
(* Interval timers (src/src/os/timerintr.c, settimer.c, stoptimer.c).      *)
(*                                                                         *)
(* The active timers are in a list ordered by expiry; OSTimer.value is the *)
(* time from the expiry of the timer before it, for the first one from the *)
(* Count register's value in __osTimerCounter.  The Compare register       *)
(* raises an interrupt when Count reaches it; the exception handler posts  *)
(* OS_EVENT_COUNTER to the queue of the video manager, whose thread walks  *)
(* the list with interrupts enabled.  That thread is more urgent than any  *)
(* thread that sets or stops timers (OS_PRIORITY_VIMGR), so those run only *)
(* while it waits for a message; interrupts and time pass at any point.    *)
(***************************************************************************)
EXTENDS Integers, Sequences, SequencesExt

CONSTANTS
  Timers,     \* the OSTimer structures
  NoTimer,    \* a thread that is in no osStopTimer call
  Apps,       \* threads that use timers
  Settings,   \* the <<countdown, interval>> pairs they ask for
  CountMod,   \* the Count register wraps at this value (2^32 in the machine)
  MinDelay,   \* least distance of Compare from Count (468 in the code)
  QueueLen,   \* length of viEventBuf
  Retraces,   \* the video retrace also posts to that queue
  MaxLag,     \* bound on the cycles an interrupt or the manager takes
  MaxSets     \* bound on the calls of osSetTimer

ASSUME TimerAssumption ==
  /\ NoTimer \notin Timers /\ {"idle", "walk"} \cap Timers = {}
  /\ Settings \subseteq Nat \X Nat
  /\ CountMod \in Nat /\ MinDelay \in 1..(CountMod - 1)
  /\ QueueLen \in Nat \ {0} /\ Retraces \in BOOLEAN /\ MaxSets \in Nat
  /\ MaxLag \in Nat /\ MaxLag < CountMod - 1

VARIABLES
  list,      \* the timers of __osTimerList, first to expire first
  value,     \* OSTimer.value
  interval,  \* OSTimer.interval
  counter,   \* __osTimerCounter
  count,     \* the Count register
  compare,   \* the Compare register
  ip8,       \* Count reached Compare, the interrupt was not taken yet
  queue,     \* messages in viEventQueue
  walk,      \* the manager: "idle", "walk" or the timer it has just expired
  stopping,  \* timer each thread has tested at the top of osStopTimer
  crashed,   \* osStopTimer followed a NULL pointer
  left,      \* true time until the timer is due                  (history)
  lag,       \* cycles the interrupt or the manager has taken      (history)
  dropped,   \* a COUNTER message found the queue full             (history)
  sets       \* calls of osSetTimer so far                         (history)

vars == << list, value, interval, counter, count, compare, ip8, queue, walk,
           stopping, crashed, left, lag, dropped, sets >>

clockVars == << counter, compare, ip8, dropped >>
appVars   == << stopping, crashed, left, sets >>

MaxOf(S) == CHOOSE x \in S : \A y \in S : y <= x

\* __osTimerServicesInit
Init ==
  /\ list = <<>>
  /\ value = [t \in Timers |-> 0] /\ interval = [t \in Timers |-> 0]
  /\ counter = 0 /\ count = 0 /\ compare = 0 /\ ip8 = FALSE
  /\ queue = <<>> /\ walk = "idle"
  /\ stopping = [p \in Apps |-> NoTimer] /\ crashed = FALSE
  /\ left = [t \in Timers |-> 0] /\ dropped = FALSE /\ lag = 0 /\ sets = 0

------------------------------------------------------------------------------
InList(t) == \E i \in 1..Len(list) : list[i] = t

\* Cycles since __osTimerCounter was read, in 32-bit arithmetic.
Elapsed == (count - counter) % CountMod

\* __osSetTimerIntr(v).  Writing Compare drops an interrupt not taken yet.
SetTimerIntr(v) ==
  /\ counter' = count
  /\ compare' = (count + (IF v < MinDelay THEN MinDelay ELSE v)) % CountMod
  /\ ip8' = FALSE /\ dropped' = FALSE

SetCompareZero == compare' = 0 /\ ip8' = FALSE

\* Time from __osTimerCounter until the timer at position i is due.
DueAt(v, i) ==
  LET due[j \in 0..i] == IF j = 0 THEN 0 ELSE due[j - 1] + v[list[j]]
  IN due[i]

\* __osInsertTimer, with v the values before the call: t goes before the first
\* timer that is due no earlier, and that timer's value becomes relative to t.
InsertTimer(v, t) ==
  LET pos == CHOOSE i \in 1..(Len(list) + 1) :
               /\ \A j \in 1..(i - 1) : v[t] > DueAt(v, j)
               /\ i <= Len(list) => v[t] <= DueAt(v, i)
      tim == v[t] - DueAt(v, pos - 1)
  IN /\ list' = InsertAt(list, pos, t)
     /\ value' = [u \in Timers |->
                    IF u = t THEN tim
                    ELSE IF pos <= Len(list) /\ u = list[pos] THEN v[u] - tim
                    ELSE v[u]]

\* Threads run while the manager waits for a message.
AppRuns == walk = "idle" /\ queue = <<>> /\ ~crashed

\* The first timer's value as osSetTimer brings it up to date.
HeadNow == IF Elapsed < value[Head(list)] THEN value[Head(list)] - Elapsed ELSE 1

CaughtUp == IF list = <<>> THEN value ELSE [value EXCEPT ![Head(list)] = HeadNow]

\* osSetTimer on a timer that is not active; the timer's links say so.
SetTimer(p, t, s) ==
  /\ AppRuns /\ stopping[p] = NoTimer /\ sets < MaxSets
  /\ ~InList(t)
  /\ interval' = [interval EXCEPT ![t] = s[2]]
  /\ LET first == IF s[1] # 0 THEN s[1] ELSE s[2]
     IN /\ InsertTimer([CaughtUp EXCEPT ![t] = first], t)
        /\ left' = [left EXCEPT ![t] = first]
  /\ SetTimerIntr(value'[Head(list')])
  /\ sets' = sets + 1
  /\ UNCHANGED << count, queue, walk, lag, stopping, crashed >>

\* osStopTimer tests t->next before it disables interrupts: an idle timer is
\* refused with -1, which changes nothing.
StopTimerTest(p, t) ==
  /\ AppRuns /\ stopping[p] = NoTimer /\ InList(t)
  /\ stopping' = [stopping EXCEPT ![p] = t]
  /\ UNCHANGED << list, value, interval, clockVars, count, queue, walk, lag,
                  crashed, left, sets >>

\* Mutant: the time the stopped timer had left is lost.
FoldStoppedNot(i) == value

\* The stopped timer's time goes to the one behind it.
FoldStopped(i) ==
  IF i < Len(list)
  THEN [value EXCEPT ![list[i + 1]] = @ + value[list[i]]] ELSE value

\* The rest of osStopTimer, with interrupts disabled.  If the timer has expired
\* in between, t->next is NULL and the thread faults on it.
StopTimer(p) ==
  /\ AppRuns /\ stopping[p] # NoTimer
  /\ stopping' = [stopping EXCEPT ![p] = NoTimer]
  /\ LET t == stopping[p] IN
     \/ /\ ~InList(t)
        /\ crashed' = TRUE
        /\ UNCHANGED << list, value, compare, ip8 >>
     \/ \E i \in 1..Len(list) :
          /\ list[i] = t
          /\ value' = FoldStopped(i)
          /\ list' = RemoveAt(list, i)
          /\ crashed' = crashed
          /\ IF list' = <<>> THEN SetCompareZero ELSE UNCHANGED << compare, ip8 >>
  /\ UNCHANGED << interval, counter, dropped, count, queue, walk, lag, left, sets >>

------------------------------------------------------------------------------
\* A cycle passes.  The 2^32 cycles in which Count wraps are 91 seconds: an
\* interrupt and the manager take less.
Busy == ip8 \/ queue # <<>> \/ walk # "idle"

Cycle ==
  /\ Busy => lag < MaxLag
  /\ lag' = IF Busy THEN lag + 1 ELSE 0
  /\ count' = (count + 1) % CountMod
  /\ left' = [t \in Timers |-> IF left[t] > 0 THEN left[t] - 1 ELSE 0]

Tick ==
  /\ Cycle
  /\ ip8' = (ip8 \/ count' = compare)
  /\ UNCHANGED << list, value, interval, counter, compare, dropped, queue, walk,
                  stopping, crashed, sets >>

\* The exception handler acknowledges IP8 and posts OS_EVENT_COUNTER, which is
\* lost when the queue is full.
CounterInterrupt ==
  /\ ip8 /\ ip8' = FALSE
  /\ IF Len(queue) < QueueLen
     THEN queue' = Append(queue, "COUNTER") /\ dropped' = dropped
     ELSE queue' = queue /\ dropped' = TRUE
  /\ UNCHANGED << list, value, interval, counter, compare, count, walk, lag,
                  appVars >>

\* The manager reads a retrace before the next one comes.
Retrace ==
  /\ Retraces /\ Len(queue) < QueueLen /\ ~Contains(queue, "VI")
  /\ queue' = Append(queue, "VI")
  /\ UNCHANGED << list, value, interval, clockVars, count, walk, lag, appVars >>

\* The manager takes a message; a COUNTER message starts __osTimerInterrupt,
\* which returns at once when no timer is active.
ViMgrRecv ==
  /\ walk = "idle" /\ queue # <<>>
  /\ queue' = Tail(queue)
  /\ walk' = IF Head(queue) = "COUNTER" /\ list # <<>> THEN "walk" ELSE "idle"
  /\ UNCHANGED << list, value, interval, clockVars, count, lag, appVars >>

WalkEnd ==
  /\ walk = "walk" /\ list = <<>>
  /\ SetCompareZero
  /\ counter' = 0 /\ walk' = "idle"
  /\ UNCHANGED << list, value, interval, dropped, count, queue, lag, appVars >>

\* Mutant: the next interrupt is not programmed.
WalkWaitUnarmed ==
  /\ walk = "walk" /\ list # <<>> /\ Elapsed < value[Head(list)]
  /\ value' = [value EXCEPT ![Head(list)] = @ - Elapsed]
  /\ counter' = count /\ walk' = "idle"
  /\ UNCHANGED << list, interval, compare, ip8, dropped, count, queue, lag, appVars >>

\* The first timer is not due yet: program the next interrupt.
WalkWait ==
  /\ walk = "walk" /\ list # <<>> /\ Elapsed < value[Head(list)]
  /\ value' = [value EXCEPT ![Head(list)] = @ - Elapsed]
  /\ SetTimerIntr(value'[Head(list)])
  /\ walk' = "idle"
  /\ UNCHANGED << list, interval, count, queue, lag, appVars >>

\* Mutant: the timer expires one cycle early.
IsDueEarly(t) == Elapsed + 1 >= value[t]

IsDue(t) == Elapsed >= value[t]

\* The first timer expires: it leaves the list and its message is sent.
Expire(t) ==
  /\ walk = "walk" /\ list # <<>> /\ t = Head(list) /\ IsDue(t)
  /\ list' = Tail(list)
  /\ counter' = count
  /\ walk' = t
  /\ left' = [left EXCEPT ![t] = interval[t]]
  /\ UNCHANGED << value, interval, compare, ip8, dropped, count, queue, lag,
                  stopping, crashed, sets >>

\* A periodic timer goes back into the list.
Rearm(t) ==
  /\ walk = t
  /\ IF interval[t] # 0
     THEN InsertTimer([value EXCEPT ![t] = interval[t]], t)
     ELSE UNCHANGED << list, value >>

ViMgrRearm ==
  /\ \E t \in Timers : Rearm(t)
  /\ walk' = "walk"
  /\ UNCHANGED << interval, clockVars, count, queue, lag, appVars >>

ViMgr ==
  \/ ViMgrRecv \/ WalkEnd \/ WalkWait \/ ViMgrRearm
  \/ \E t \in Timers : Expire(t)

App(p) ==
  \/ \E t \in Timers, s \in Settings : SetTimer(p, t, s)
  \/ \E t \in Timers : StopTimerTest(p, t)
  \/ StopTimer(p)

Next == Tick \/ CounterInterrupt \/ Retrace \/ ViMgr \/ \E p \in Apps : App(p)

Spec == Init /\ [][Next]_vars

\* Fairness: time passes, an interrupt that stays pending is taken, and the most
\* urgent thread runs until it waits.
LiveSpec ==
  Spec /\ SF_vars(Tick) /\ WF_vars(CounterInterrupt) /\ WF_vars(ViMgr)

------------------------------------------------------------------------------
\* A timer never fires before its countdown, and a periodic timer never twice
\* within its interval, however the calls that change the list's relative values
\* fall between Count, the interrupt and the manager's walk.
NeverEarly == [][\A t \in Timers : Expire(t) => left[t] = 0]_vars

\* The relative values add up: by the list no timer is due before it is due in
\* truth, whatever was inserted before it, stopped before it or found overdue.
DueInTime ==
  \A i \in 1..Len(list) :
    left[list[i]] = 0 \/ DueAt(value, i) - Elapsed >= left[list[i]]

\* As long as a timer is active something will look at the list in time: the
\* manager is in it, a COUNTER message is queued, the interrupt is pending, or
\* Compare is reached no later than the first timer is due or MinDelay from when
\* it was programmed.
ToCompare == ((compare - count - 1) % CountMod) + 1

Watched ==
  list # <<>> =>
    \/ walk # "idle" \/ ip8 \/ dropped \/ Contains(queue, "COUNTER")
    \/ ToCompare <= MaxOf({MinDelay, value[Head(list)] - Elapsed})

\* Both: by the list no timer is due too early, and none is looked for too late.
ListTrue == DueInTime /\ Watched

\* Every active timer fires, or is stopped.
Fires == \A t \in Timers : InList(t) ~> (~InList(t) \/ crashed)
==============================================================================
