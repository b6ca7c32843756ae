---------------------------------- MODULE SeqTempo ----------------------------------
(***************************************************************************)
(* Tempo changes of the compact sequence player (__CSPHandleMetaMsg,       *)
(* __CSPRepostEvent of csplayer.c).  The queue holds times in microseconds,*)
(* and a note of a compact sequence ends by an event that was posted with  *)
(* it: a new tempo takes those events out of the queue and posts them      *)
(* again, with the ticks they still had to wait.                           *)
(***************************************************************************)
EXTENDS EventQueue, FiniteSets

CONSTANTS
  SeqNotes, Durations,   \* notes that may sound at once, and their lengths in ticks
  Gaps,                  \* ticks from one event of the sequence to the next
  Rates,                 \* microseconds of a tick (uspt)
  TempoFrame,            \* frameTime
  LiveTempo,             \* the program sets the tempo while the sequence plays, or only before
  MaxTick

ASSUME SeqTempoAssumption ==
  /\ Durations \subseteq Nat \ {0} /\ Gaps \subseteq Nat /\ Rates \subseteq Nat \ {0}
  /\ TempoFrame \in Nat \ {0} /\ MaxTick \in Nat /\ LiveTempo \in BOOLEAN

VARIABLES
  tempoq, ready,      \* evtq and nextEvent
  uspt,
  tick, past,         \* the time of the next event, in ticks and microseconds past (history)
  endTick,            \* when each sounding note should end (history)
  seqTick             \* when the next event of the sequence should come (history)

tempoVars == << tempoq, ready, uspt, tick, past, endTick, seqTick >>

TApi == [type |-> "api"]
TRef == [type |-> "ref"]
TPlay == [type |-> "play"]
OffOf(n) == [type |-> "off", note |-> n]
MetaOf(rate) == [type |-> "meta", rate |-> rate]

TempoInit ==
  /\ tempoq = << >> /\ ready = TApi /\ uspt \in Rates
  /\ tick = 0 /\ past = 0 /\ endTick = << >> /\ seqTick = 0

------------------------------------------------------------------------------
Offs(q) == {i \in 1..Len(q) : q[i].evt.type = "off"}

\* __CSPHandleMetaMsg: those after the first are kept in reverse.
Reposted(q, old, new) ==
  LET offs  == SetToSortSeq(Offs(q), <)
      order == IF offs = << >> THEN offs ELSE << Head(offs) >> \o Reverse(Tail(offs))
  IN FoldLeft(LAMBDA p, i : PostEvent(p, q[i].evt, (DueAt(q, i) \div old) * new),
              Without(q, Offs(q)), order)

\* The next event is taken, and while the sequence plays the clock goes on by its time
\* (alEvtqNextEvent).
Turn(q, rate, on) ==
  LET delta == NextEvent(q).delta
      at    == IF TRef \in {q[i].evt : i \in 1..Len(q)} THEN on + delta ELSE 0
  IN /\ ready' = NextEvent(q).evt /\ tempoq' = AfterNext(q)
     /\ tick' = tick + (at \div rate) /\ past' = at % rate

\* AL_SEQ_REF_EVT: an event of the sequence, and the next one is posted.
SeqEvent(q, rate, on) ==
  /\ ready = TRef /\ tick < MaxTick
  /\ \E gap \in Gaps :
       /\ Turn(PostEvent(q, TRef, gap * rate), rate, on)
       /\ seqTick' = tick + gap

NoteOn0 ==
  \E n \in SeqNotes \ DOMAIN endTick, d \in Durations :
    /\ SeqEvent(PostEvent(tempoq, OffOf(n), d * uspt), uspt, past)
    /\ endTick' = [m \in DOMAIN endTick \cup {n} |-> IF m = n THEN tick + d ELSE endTick[m]]
    /\ UNCHANGED uspt

\* AL_TEMPO_EVT
TempoEvent ==
  \E rate \in Rates :
    /\ SeqEvent(Reposted(tempoq, uspt, rate), rate, (past * rate) \div uspt)
    /\ uspt' = rate /\ UNCHANGED endTick

OtherEvent == SeqEvent(tempoq, uspt, past) /\ UNCHANGED << uspt, endTick >>

\* AL_CSP_NOTEOFF_EVT
NoteOff0 ==
  /\ ready.type = "off" /\ Turn(tempoq, uspt, past)
  /\ endTick' = [m \in DOMAIN endTick \ {ready.note} |-> endTick[m]]
  /\ UNCHANGED << uspt, seqTick >>

\* AL_SEQP_API_EVT
ApiEvent0 ==
  /\ ready = TApi /\ Turn(PostEvent(tempoq, TApi, TempoFrame), uspt, past)
  /\ UNCHANGED << uspt, endTick, seqTick >>

\* The program posts to the queue; how far the clock is from the next event does not matter.
Posts0(evt) ==
  /\ evt \notin {tempoq[i].evt : i \in 1..Len(tempoq)} \cup {ready}
  /\ tempoq' = PostEvent(tempoq, evt, 0)
  /\ UNCHANGED << ready, uspt, tick, past, endTick, seqTick >>

Playing0 == {TRef, TPlay} \cap ({tempoq[i].evt : i \in 1..Len(tempoq)} \cup {ready}) # {}

\* alCSPPlay, and what it does
PlayTempo == ~Playing0 /\ Posts0(TPlay)
PlayEvent0 ==
  /\ ready = TPlay
  /\ \E gap \in Gaps :
       /\ Turn(PostEvent(tempoq, TRef, gap * uspt), uspt, 0)
       /\ seqTick' = tick + gap
  /\ UNCHANGED << uspt, endTick >>

\* alCSPSetTempo, and what it does
SetTempo(rate) == (LiveTempo \/ ~Playing0) /\ Posts0(MetaOf(rate))
MetaEvent ==
  /\ ready.type = "meta"
  /\ Turn(Reposted(tempoq, uspt, ready.rate), ready.rate, (past * ready.rate) \div uspt)
  /\ uspt' = ready.rate /\ UNCHANGED << endTick, seqTick >>

TempoNext ==
  \/ NoteOn0 \/ TempoEvent \/ OtherEvent \/ NoteOff0 \/ ApiEvent0
  \/ PlayTempo \/ PlayEvent0 \/ (\E rate \in Rates : SetTempo(rate)) \/ MetaEvent

------------------------------------------------------------------------------
\* However often the tempo changed, each note ends and the sequence goes on at the tick
\* they should: the queue has what is left of them in the tempo there is now
\* (__CSPHandleMetaMsg, __CSPPostNextSeqEvent).
InTempo ==
  LET Left(t) == ((t - tick) * uspt) - past
  IN /\ \A i \in Offs(tempoq) : DueAt(tempoq, i) = Left(endTick[tempoq[i].evt.note])
     /\ \A i \in 1..Len(tempoq) : tempoq[i].evt = TRef => DueAt(tempoq, i) = Left(seqTick)
     /\ ready.type = "off" => Left(endTick[ready.note]) = 0
     /\ ready = TRef => Left(seqTick) = 0
====================================================================================
