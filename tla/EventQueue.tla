------------------------------- MODULE EventQueue -------------------------------
(***************************************************************************)
(* The event queue of the audio players (event.c): a list of events, each  *)
(* with the time after the one before it.  The queue is a sequence here;   *)
(* its items come from a free list of MaxEvents.                           *)
(***************************************************************************)
EXTENDS Integers, Sequences, SequencesExt, FiniteSets

CONSTANT MaxEvents

ASSUME EventQueueAssumption == MaxEvents \in Nat

\* AL_EVTQ_END: after every event in the queue
End == 2147483647

\* alEvtqNew: every item is on the free list.
NewQueue == << >>

\* When item i is due, from when the queue's first item is counted.
DueAt(q, i) ==
  LET due[n \in 0..Len(q)] == IF n = 0 THEN 0 ELSE due[n - 1] + q[n].delta IN due[i]

\* An event goes in front of item i, which waits for it.
PutBefore(q, i, evt, delta) ==
  LET wait == delta - DueAt(q, i - 1)
  IN InsertAt([q EXCEPT ![i].delta = @ - wait], i, [delta |-> wait, evt |-> evt])

PutLast(q, evt, delta) ==
  Append(q, [delta |-> IF delta = End THEN 0 ELSE delta - DueAt(q, Len(q)), evt |-> evt])

FirstOf(items) == CHOOSE i \in items : \A j \in items : i <= j

\* An event goes after those of the same time; without a free item it is dropped.
PostEvent(q, evt, delta) ==
  LET later == {i \in 1..Len(q) : delta < DueAt(q, i)}
  IN IF Len(q) = MaxEvents THEN q
     ELSE IF later = {} THEN PutLast(q, evt, delta)
     ELSE PutBefore(q, FirstOf(later), evt, delta)

\* What an empty queue gives: an event of no type, at once.
NoEvent == [type |-> "none"]
NextEvent(q) == IF q = << >> THEN [delta |-> 0, evt |-> NoEvent] ELSE Head(q)
AfterNext(q) == IF q = << >> THEN q ELSE Tail(q)

\* The numbers of S in their order
Ascending(S) ==
  [i \in 1..Cardinality(S) |-> CHOOSE j \in S : Cardinality({k \in S : k <= j}) = i]

\* Items are taken out of the middle; the next one waits their time as well.
Without(q, gone) ==
  LET kept == Ascending((1..Len(q)) \ gone)
  IN [i \in 1..Len(kept) |->
       [q[kept[i]] EXCEPT !.delta = DueAt(q, kept[i]) - (IF i = 1 THEN 0 ELSE DueAt(q, kept[i - 1]))]]

FlushType(q, type) == Without(q, {i \in 1..Len(q) : q[i].evt.type = type})
=================================================================================
