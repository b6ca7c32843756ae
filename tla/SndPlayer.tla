------------------------------- MODULE SndPlayer --------------------------------
(***************************************************************************)
(* The sound player (sndplayer.c and the calls in sndp*.c).  A sound goes  *)
(* through its envelope by events its slot posts for itself: the end of    *)
(* the attack, a stop at the end of the decay, the end of the release.     *)
(* The program posts plays and stops of its own into the same queue.       *)
(*                                                                         *)
(* The target of a call is a parameter here, set by alSndpSetSound before. *)
(* Volume, pan, effect and priority, which change no step, are left out.   *)
(***************************************************************************)
EXTENDS EventQueue, FiniteSets

CONSTANTS
  Slots,                          \* sndState
  Sounds, SndAttack, SndDecay, SndRelease,
  Looped,                         \* decayTime of a sound that is not stopped
  Pitches,                        \* what the durations are divided by
  SndFrame,                       \* frameTime
  PlayDelays,                     \* alSndpPlayAt
  MaxSndCalls                     \* bound on the calls of the program

ASSUME SndPlayerAssumption ==
  /\ SndAttack \in [Sounds -> Nat] /\ SndRelease \in [Sounds -> Nat]
  /\ SndDecay \in [Sounds -> Nat \cup {Looped}] /\ Looped \notin Nat
  /\ Pitches \subseteq Nat \ {0} /\ SndFrame \in Nat \ {0} /\ PlayDelays \subseteq Nat
  /\ MaxSndCalls \in Nat

VARIABLES
  sndq, sndNext,   \* evtq and nextEvent
  slot,            \* sound, state and pitch of each ALSoundState
  sndCalls

sndVars == << sndq, sndNext, slot, sndCalls >>

SndApi == [type |-> "api"]
Evt(type, s) == [type |-> type, slot |-> s]
NoSound == "no sound"

SndInit ==
  /\ sndq = << >> /\ sndNext = SndApi /\ sndCalls = 0
  /\ slot = [s \in Slots |-> [sound |-> NoSound, state |-> "stopped", pitch |-> 1]]

\* _DivS32ByF32, for times that do not overflow
Duration(time, s) == time \div slot[s].pitch

\* Mutant: what was posted for the sound stays.
RemoveEventsNot(q, s) == q

\* _removeEvents
RemoveEvents(q, s) ==
  Without(q, {i \in 1..Len(q) : q[i].evt.type # "api" /\ q[i].evt.slot = s})

\* The queue after a turn of the handler, and the next event
SndTurn(q) == sndNext' = NextEvent(q).evt /\ sndq' = AfterNext(q) /\ UNCHANGED sndCalls

SndApiEvent ==
  /\ sndNext = SndApi
  /\ SndTurn(PostEvent(sndq, SndApi, SndFrame))
  /\ UNCHANGED slot

Handles(type, s) == sndNext = Evt(type, s)

\* AL_SNDP_PLAY_EVT
PlaySound(s) ==
  /\ Handles("play", s)
  /\ IF slot[s].state # "stopped" \/ slot[s].sound = NoSound
     THEN SndTurn(sndq) /\ UNCHANGED slot
     ELSE /\ SndTurn(PostEvent(sndq, Evt("decay", s), Duration(SndAttack[slot[s].sound], s)))
          /\ slot' = [slot EXCEPT ![s].state = "playing"]

\* The end of a sound: its voice is freed, and nothing is left for it.
Silenced(s) ==
  /\ SndTurn(RemoveEvents(sndq, s))
  /\ slot' = [slot EXCEPT ![s].state = "stopped"]

\* AL_SNDP_STOP_EVT
StopSound(s) ==
  LET release == Duration(SndRelease[slot[s].sound], s)
  IN /\ Handles("stop", s)
     /\ IF slot[s].state # "playing" \/ slot[s].sound = NoSound
        THEN SndTurn(sndq) /\ UNCHANGED slot
        ELSE IF release = 0 THEN Silenced(s)
        ELSE /\ SndTurn(PostEvent(sndq, Evt("end", s), release))
             /\ slot' = [slot EXCEPT ![s].state = "stopping"]

\* AL_SNDP_DECAY_EVT
DecaySound(s) ==
  LET decay == SndDecay[slot[s].sound]
  IN /\ Handles("decay", s)
     /\ SndTurn(IF decay = Looped THEN sndq
                ELSE PostEvent(sndq, Evt("stop", s), Duration(decay, s)))
     /\ UNCHANGED slot

EndSound(s) == Handles("end", s) /\ Silenced(s)

\* AL_SNDP_PITCH_EVT
PitchSound(s) ==
  /\ sndNext.type = "pitch" /\ sndNext.slot = s
  /\ SndTurn(sndq)
  /\ slot' = [slot EXCEPT ![s].pitch = sndNext.pitch]

SndHandler(s) ==
  PlaySound(s) \/ StopSound(s) \/ DecaySound(s) \/ EndSound(s) \/ PitchSound(s)

------------------------------------------------------------------------------
(* The program *)

Called == sndCalls < MaxSndCalls /\ sndCalls' = sndCalls + 1
PostSnd(evt, delay) == Called /\ sndq' = PostEvent(sndq, evt, delay) /\ UNCHANGED << sndNext, slot >>

Waiting(type, s) ==
  (IF Handles(type, s) THEN 1 ELSE 0) + Cardinality({i \in 1..Len(sndq) : sndq[i].evt = Evt(type, s)})

\* alSndpAllocate takes the first slot without a sound.
Allocate(sound, s) ==
  /\ Called
  /\ s \in {u \in Slots : slot[u].sound = NoSound}
  /\ \A u \in Slots : slot[u].sound = NoSound => s <= u
  /\ slot' = [slot EXCEPT ![s] = [sound |-> sound, state |-> "stopped", pitch |-> 1]]
  /\ UNCHANGED << sndq, sndNext >>

\* alSndpDeallocate, of a sound that is stopped; a play may still wait for it.
Deallocate(s) ==
  /\ Called
  /\ slot[s].sound # NoSound /\ slot[s].state = "stopped"
  /\ slot' = [slot EXCEPT ![s].sound = NoSound]
  /\ UNCHANGED << sndq, sndNext >>

\* alSndpPlay, alSndpPlayAt, alSndpStop and alSndpSetPitch
Program(s) ==
  /\ slot[s].sound # NoSound
  /\ \/ \E delay \in PlayDelays : PostSnd(Evt("play", s), delay)
     \/ PostSnd(Evt("stop", s), 0)
     \/ \E p \in Pitches : PostSnd([type |-> "pitch", slot |-> s, pitch |-> p], 0)

SndNext ==
  \/ SndApiEvent
  \/ \E s \in Slots : \/ SndHandler(s) \/ Deallocate(s) \/ Program(s)
                      \/ \E sound \in Sounds : Allocate(sound, s)

------------------------------------------------------------------------------
\* A sound ends, whatever the program posts and when: while it plays, the end of its
\* attack or its stop is to come, unless it is looped; while it stops, its end is to
\* come, once; and when it is stopped nothing is left that would end another sound of
\* the slot, or that would find no sound (_handleEvent reads snd->envelope at the end
\* of the attack without a test).
SoundsEnd ==
  \A s \in Slots :
    LET n(type) == Waiting(type, s)
    IN CASE slot[s].state = "playing" ->
              /\ slot[s].sound # NoSound /\ n("end") = 0
              /\ n("decay") = 1 \/ (n("decay") = 0 /\ (SndDecay[slot[s].sound] = Looped \/ n("stop") > 0))
         [] slot[s].state = "stopping" -> slot[s].sound # NoSound /\ n("end") = 1
         [] OTHER -> n("decay") = 0 /\ n("end") = 0
=================================================================================
