-------------------------------- MODULE SeqPlayer --------------------------------
(***************************************************************************)
(* The sequence player (seqplayer.c and the calls in seqp*.c) and the      *)
(* compact one (csplayer.c, csp*.c).  The synthesizer calls the player's   *)
(* handler when its next event is due; the handler takes events until one  *)
(* lies in the future, and would go round for ever on an empty queue: it   *)
(* has no action then.  Programs post events at any time.                  *)
(*                                                                         *)
(* A voice is mapped from its note on to its note end.  What it will do is *)
(* in the queue: the end of its attack, the steps of its oscillators, its  *)
(* end after the release, and in the compact player the note off.          *)
(*                                                                         *)
(* Volumes, pans, pitches, programs and priorities are left out, with the  *)
(* events that only change them.  The sequence gives any events.           *)
(***************************************************************************)
EXTENDS EventQueue, FiniteSets

CONSTANTS
  Voices, Keys,
  Attack, Rel,   \* the attack and the release time of the sound of each key
  Waits,         \* times from one event of a sequence to the next
  FrameTime, KillTime, OscTime,
  Hasty,         \* the program plays again before the player has stopped
  LiveMidi,      \* the program's own messages release notes
  EndsEarly,     \* a compact sequence may end before the last of its notes
  MaxCalls       \* bound on the calls of the program

ASSUME SeqPlayerAssumption ==
  /\ IsFiniteSet(Voices)
  /\ Attack \in [Keys -> 0..End] /\ Rel \in [Keys -> 0..End] /\ Waits \subseteq 0..(End - 1)
  /\ {FrameTime, KillTime, OscTime} \subseteq 1..(End - 1)
  /\ {Hasty, LiveMidi, EndsEarly} \subseteq BOOLEAN

VARIABLES
  compact,       \* it is the compact player
  evtq,
  nextEvent,
  state,
  vAlloc,        \* the mapped voices, in the order of their notes
  vFree,
  vs,            \* what the player knows of each voice
  pedal,         \* sustain
  calls

playerVars == << compact, evtq, nextEvent, state, vAlloc, vFree, vs, pedal, calls >>

Api == [type |-> "api"]
Ref == [type |-> "ref"]
StopEvt == [type |-> "stop"]
NoteEndOf(v) == [type |-> "noteEnd", voice |-> v]
EnvOf(v) == [type |-> "env", voice |-> v]
OscOf(v) == [type |-> "osc", voice |-> v]
NoteOffOf(k) == [type |-> "noteOff", key |-> k]
Midi(m) == [type |-> "midi", msg |-> m]

MidiMsgs ==
  [kind : {"on", "off"}, key : Keys] \cup [kind : {"sustain"}, down : BOOLEAN]

NoVoice == [key |-> "none", phase |-> "none", env |-> "none", osc |-> FALSE]

PlayerInit ==
  /\ compact \in BOOLEAN
  /\ evtq = NewQueue /\ nextEvent = Api /\ state = "stopped"
  /\ vAlloc = << >> /\ vFree = SetToSeq(Voices) /\ vs = [v \in Voices |-> NoVoice]
  /\ pedal = FALSE /\ calls = 0

------------------------------------------------------------------------------
(* Voices and their events.  An operator takes and gives the queue and the     *)
(* voices, w = [q, vs].                                                        *)

Now == [q |-> evtq, vs |-> vs]

ItemsOf(q, evt) == {i \in 1..Len(q) : q[i].evt = evt}

\* Mutant: the end of the attack stays in the queue.
ReleaseVoiceKeeps(w, v, time) ==
  [q |-> PostEvent(w.q, NoteEndOf(v), time), vs |-> [w.vs EXCEPT ![v].env = "release"]]

\* __seqpReleaseVoice
ReleaseVoice(w, v, time) ==
  LET q == IF w.vs[v].env = "attack" THEN Without(w.q, ItemsOf(w.q, EnvOf(v))) ELSE w.q
  IN [q |-> PostEvent(q, NoteEndOf(v), time), vs |-> [w.vs EXCEPT ![v].env = "release"]]

\* __voiceNeedsNoteKill: a voice that ends in time does not need it, and one that
\* ends later loses its note end.
KillVoice(w, v) ==
  LET ends == ItemsOf(w.q, NoteEndOf(v))
      i    == CHOOSE i \in ends : \A j \in ends : i <= j
  IN IF ends = {} THEN ReleaseVoice(w, v, KillTime)
     ELSE IF DueAt(w.q, i) > KillTime THEN ReleaseVoice([w EXCEPT !.q = Without(w.q, {i})], v, KillTime)
     ELSE w

\* __seqpStopOsc
StopOsc(w, v) ==
  [q |-> IF w.vs[v].osc THEN Without(w.q, ItemsOf(w.q, OscOf(v))) ELSE w.q,
   vs |-> [w.vs EXCEPT ![v].osc = FALSE]]

\* __lookupVoice: the first voice of the key whose note off has not come
Sounding(k) ==
  {i \in 1..Len(vAlloc) : vs[vAlloc[i]].key = k /\ vs[vAlloc[i]].phase \in {"on", "sustain"}}
Lookup(k) == vAlloc[CHOOSE i \in Sounding(k) : \A j \in Sounding(k) : i <= j]

------------------------------------------------------------------------------
(* The handler.  A turn ends by taking the next event.                         *)

\* The queue after a turn, w, and the event that is next
TurnEnds(w) ==
  /\ nextEvent' = NextEvent(w.q).evt /\ evtq' = AfterNext(w.q) /\ vs' = w.vs

\* __postNextSeqEvent, when there is a next event
PostRef(w, wait) == [w EXCEPT !.q = PostEvent(w.q, Ref, wait)]

\* What w becomes when v starts the note k, with or without an oscillator; the notes of
\* a compact sequence have a duration.
Started(w, v, k, osc, duration) ==
  LET q1 == IF osc THEN PostEvent(w.q, OscOf(v), OscTime) ELSE w.q
      q2 == PostEvent(q1, EnvOf(v), Attack[k])
  IN [q |-> IF duration > 0 THEN PostEvent(q2, NoteOffOf(k), duration) ELSE q2,
      vs |-> [w.vs EXCEPT ![v] = [key |-> k, phase |-> IF pedal THEN "sustain" ELSE "on",
                                  env |-> "attack", osc |-> osc]]]

\* A voice whose key is released, or is held by the pedal
Offed(w, k) ==
  IF Sounding(k) = {} THEN w
  ELSE LET v == Lookup(k)
       IN IF w.vs[v].phase = "sustain" THEN [w EXCEPT !.vs[v].phase = "sustrel"]
          ELSE ReleaseVoice([w EXCEPT !.vs[v].phase = "release"], v, Rel[k])

\* The pedal goes down or up: what it does to a voice
PedalDown(w, v) ==
  IF w.vs[v].phase = "on" THEN [w EXCEPT !.vs[v].phase = "sustain"] ELSE w
PedalUp(w, v) ==
  CASE w.vs[v].phase = "sustain" -> [w EXCEPT !.vs[v].phase = "on"]
    [] w.vs[v].phase = "sustrel" ->
         ReleaseVoice([w EXCEPT !.vs[v].phase = "release"], v, Rel[w.vs[v].key])
    [] OTHER -> w

\* What is done to each of the mapped voices, one after the other
ToVoice(what, w, v) ==
  CASE what = "kill"       -> KillVoice(w, v)
    [] what = "stopOsc"   -> StopOsc(w, v)
    [] what = "pedalDown" -> PedalDown(w, v)
    [] what = "pedalUp"   -> PedalUp(w, v)
ToVoices(what, w) ==
  LET after[n \in 0..Len(vAlloc)] == IF n = 0 THEN w ELSE ToVoice(what, after[n - 1], vAlloc[n])
  IN after[Len(vAlloc)]

\* A note takes the voice that was given back last.
MapVoice == vAlloc' = Append(vAlloc, Head(vFree)) /\ vFree' = Tail(vFree)

\* __handleMIDIMsg; wait: the time to the next event of a sequence, or End when the
\* message is not from one.
Message(m, wait) ==
  LET Then(w) == TurnEnds(IF wait = End THEN w ELSE PostRef(w, wait))
  IN CASE m.kind = "off" ->
            Then(Offed(Now, m.key)) /\ UNCHANGED << vAlloc, vFree, pedal >>
       [] m.kind = "sustain" ->
            /\ Then(ToVoices(IF m.down THEN "pedalDown" ELSE "pedalUp", Now))
            /\ pedal' = m.down /\ UNCHANGED << vAlloc, vFree >>
       [] m.kind = "on" /\ (state # "playing" \/ vFree = << >>) ->
            Then(Now) /\ UNCHANGED << vAlloc, vFree, pedal >>
       [] m.kind = "on" /\ state = "playing" /\ vFree # << >> ->
            /\ \E osc \in BOOLEAN, d \in (IF compact /\ wait # End THEN Waits ELSE {0}) :
                 Then(Started(Now, Head(vFree), m.key, osc, d))
            /\ MapVoice
            /\ UNCHANGED pedal

\* AL_SEQ_REF_EVT: the next event of the sequence, or its end
SeqRef ==
  /\ nextEvent = Ref
  /\ UNCHANGED calls
  /\ \/ \E m \in {m \in MidiMsgs : compact => m.kind # "off"}, wait \in Waits :
          Message(m, wait) /\ UNCHANGED state
     \/ /\ compact => EndsEarly \/ ~\E i \in 1..Len(evtq) : evtq[i].evt.type = "noteOff"
        /\ state' = "stopping"
        /\ TurnEnds([Now EXCEPT !.q = PostEvent(evtq, StopEvt, End)])
        /\ UNCHANGED << vAlloc, vFree, pedal >>

MidiEvent ==
  /\ nextEvent.type = "midi"
  /\ Message(nextEvent.msg, End)
  /\ UNCHANGED << state, calls >>

\* AL_CSP_NOTEOFF_EVT
NoteOff ==
  /\ nextEvent.type = "noteOff"
  /\ Message([kind |-> "off", key |-> nextEvent.key], End)
  /\ UNCHANGED << state, calls >>

\* AL_SEQP_API_EVT keeps the handler awake.
ApiEvent ==
  /\ nextEvent = Api
  /\ TurnEnds([Now EXCEPT !.q = PostEvent(evtq, Api, FrameTime)])
  /\ UNCHANGED << state, vAlloc, vFree, pedal, calls >>

EnvEvent ==
  /\ nextEvent.type = "env"
  /\ TurnEnds([Now EXCEPT !.vs[nextEvent.voice].env = IF @ = "attack" THEN "decay" ELSE @])
  /\ UNCHANGED << state, vAlloc, vFree, pedal, calls >>

\* AL_TREM_OSC_EVT and AL_VIB_OSC_EVT
OscEvent ==
  /\ nextEvent.type = "osc"
  /\ TurnEnds([Now EXCEPT !.q = PostEvent(evtq, nextEvent, OscTime)])
  /\ UNCHANGED << state, vAlloc, vFree, pedal, calls >>

\* A voice that is not mapped stays where it is.
UnmapVoice(v) ==
  IF Contains(vAlloc, v)
  THEN LET i == CHOOSE i \in 1..Len(vAlloc) : vAlloc[i] = v
       IN vAlloc' = RemoveAt(vAlloc, i) /\ vFree' = << v >> \o vFree
  ELSE UNCHANGED << vAlloc, vFree >>

NoteEnd ==
  LET v == nextEvent.voice
  IN /\ nextEvent.type = "noteEnd"
     /\ TurnEnds(StopOsc(Now, v))
     /\ UnmapVoice(v)
     /\ UNCHANGED << state, pedal, calls >>

PlayEvent ==
  /\ nextEvent.type = "play"
  /\ IF state = "playing" THEN TurnEnds(Now) ELSE \E wait \in Waits : TurnEnds(PostRef(Now, wait))
  /\ state' = "playing"
  /\ UNCHANGED << vAlloc, vFree, pedal, calls >>

\* The events of the sequence, and those the program sent
Flushed(q) ==
  LET q1 == FlushType(q, "ref")
  IN FlushType(IF compact THEN FlushType(q1, "noteOff") ELSE q1, "midi")

\* AL_SEQP_STOPPING_EVT: the notes are released, and a stop is posted after the last.
Stopping ==
  /\ nextEvent.type = "stopping"
  /\ IF state # "playing" THEN TurnEnds(Now) /\ UNCHANGED state
     ELSE LET w == ToVoices("kill", [Now EXCEPT !.q = Flushed(evtq)])
          IN state' = "stopping" /\ TurnEnds([w EXCEPT !.q = PostEvent(w.q, StopEvt, End)])
  /\ UNCHANGED << vAlloc, vFree, pedal, calls >>

\* AL_SEQP_STOP_EVT: the voices that are left are freed.
Stop ==
  /\ nextEvent = StopEvt
  /\ IF state # "stopping" THEN TurnEnds(Now) /\ UNCHANGED << state, vAlloc, vFree >>
     ELSE /\ TurnEnds(ToVoices("stopOsc", Now))
          /\ state' = "stopped" /\ vAlloc' = << >> /\ vFree' = Reverse(vAlloc) \o vFree
  /\ UNCHANGED << pedal, calls >>

------------------------------------------------------------------------------
(* The program *)

Posts(evt) ==
  /\ calls < MaxCalls /\ calls' = calls + 1
  /\ evtq' = PostEvent(evtq, evt, 0)
  /\ UNCHANGED << nextEvent, state, vAlloc, vFree, vs, pedal >>

Pending(type) == nextEvent.type = type \/ \E i \in 1..Len(evtq) : evtq[i].evt.type = type

\* alSeqpPlay, by a program that waits for the end of what it stopped
Play ==
  /\ Hasty \/ (state = "stopped" /\ ~Pending("play") /\ ~Pending("stopping"))
  /\ Posts([type |-> "play"])

\* alSeqpStop
AskStop == Posts([type |-> "stopping"])

Releases(m) == m.kind = "off" \/ (m.kind = "sustain" /\ ~m.down)

\* alSeqpSendMidi, while the player plays and is not asked to stop
SendMidi ==
  /\ state = "playing" /\ ~Pending("stopping")
  /\ \E m \in MidiMsgs : (Releases(m) => LiveMidi) /\ Posts(Midi(m))

Handler ==
  \/ SeqRef \/ MidiEvent \/ NoteOff \/ ApiEvent \/ EnvEvent \/ OscEvent \/ NoteEnd
  \/ PlayEvent  \/ Stopping \/ Stop

PlayerNext == (Handler \/ Play \/ AskStop \/ SendMidi) /\ UNCHANGED compact

PlayerSpec == PlayerInit /\ [][PlayerNext]_playerVars

------------------------------------------------------------------------------
\* The queue has room for what the release of every voice posts: it drops no event.
PlayerHasRoom == Len(evtq) + Len(vAlloc) + 4 <= MaxEvents

Count(evt) ==
  Cardinality(ItemsOf(evtq, evt)) + (IF nextEvent = evt THEN 1 ELSE 0)

\* What a voice will do is in the queue once, and nothing is left in it when the voice
\* is free: an event never meets a voice that plays another note
\* (__seqpReleaseVoice, __voiceNeedsNoteKill, __seqpStopOsc, __unmapVoice).
EventsMatchVoices ==
  \A v \in Voices :
    LET mapped == Contains(vAlloc, v)
    IN /\ Count(NoteEndOf(v)) = (IF mapped /\ vs[v].env = "release" THEN 1 ELSE 0)
       /\ Count(EnvOf(v)) = (IF mapped /\ vs[v].env = "attack" THEN 1 ELSE 0)
       /\ Count(OscOf(v)) = (IF mapped /\ vs[v].osc THEN 1 ELSE 0)

\* A player that has stopped has no voice, and one that plays reads its sequence once:
\* each event of the sequence posts the next (__postNextSeqEvent).
SequenceReadOnce ==
  /\ state = "stopped" => vAlloc = << >>
  /\ Count(Ref) = (IF state = "playing" THEN 1 ELSE 0)
  /\ Count(Api) = 1

\* The queue of a player holds what its voices and its sequence will do, and nothing else.
QueueMatchesPlayer == EventsMatchVoices /\ SequenceReadOnce
=================================================================================
