------------------------------- MODULE MesgBox -------------------------------
(***************************************************************************)
(* What a message queue promises to its users, with neither ring buffer    *)
(* nor wait queues nor scheduler: a bounded sequence of messages per       *)
(* queue.  A call takes effect once, as a whole, at its end; a call that   *)
(* cannot take effect yet is pending, and only a pending call of a thread  *)
(* that is destroyed is forgotten.  Nothing but a receive removes a        *)
(* message.                                                                *)
(***************************************************************************)
EXTENDS Integers, Sequences

CONSTANTS Threads, Queues, Capacity, Msgs, EventMsg, NoCall

VARIABLES
  box,     \* the messages in each queue, the next to be received first
  wait,    \* the pending call of each thread, or NoCall
  alive    \* the threads that exist

Call(op, q, m) == [op |-> op, q |-> q, m |-> m]

\* The call c can take effect, and its effect.
Enabled(c) ==
  IF c.op = "recv" THEN box[c.q] # <<>> ELSE Len(box[c.q]) < Capacity[c.q]

Effect(c) ==
  box' = [box EXCEPT ![c.q] =
            CASE c.op = "send" -> Append(@, c.m)
              [] c.op = "jam"  -> <<c.m>> \o @
              [] c.op = "recv" -> Tail(@)]

Calls(noMsg) ==
  {Call("recv", q, noMsg) : q \in Queues}
    \cup {Call(op, q, m) : op \in {"send", "jam"}, q \in Queues, m \in Msgs}

Init ==
  /\ box = [q \in Queues |-> <<>>]
  /\ wait = [t \in Threads |-> NoCall]
  /\ alive \in SUBSET Threads

\* A call that can take effect at once does.
Immediate(t, c) ==
  wait[t] = NoCall /\ Enabled(c) /\ Effect(c) /\ UNCHANGED << wait, alive >>

Suspend(t, c) ==
  /\ wait[t] = NoCall /\ ~Enabled(c)
  /\ wait' = [wait EXCEPT ![t] = c]
  /\ UNCHANGED << box, alive >>

Complete(t) ==
  /\ wait[t] # NoCall /\ Enabled(wait[t])
  /\ Effect(wait[t])
  /\ wait' = [wait EXCEPT ![t] = NoCall]
  /\ UNCHANGED alive

\* An event's message; it is dropped when the queue is full.
Signal(q) == Effect(Call("send", q, EventMsg))
               /\ Enabled(Call("send", q, EventMsg)) /\ UNCHANGED << wait, alive >>

Create(t) == alive' = alive \cup {t} /\ UNCHANGED << box, wait >>

Destroy(t) ==
  /\ alive' = alive \ {t} /\ wait' = [wait EXCEPT ![t] = NoCall]
  /\ UNCHANGED box

Next ==
  \/ \E t \in alive :
       \/ \E c \in Calls(NoCall.m) : Immediate(t, c) \/ Suspend(t, c)
       \/ Complete(t) \/ Destroy(t)
  \/ \E q \in Queues : Signal(q)
  \/ \E t \in Threads \ alive : Create(t)

Spec == Init /\ [][Next]_<< box, wait, alive >>
==============================================================================
