-------------------------------- MODULE SeqChannels --------------------------------
(***************************************************************************)
(* What a sequence player tells the synthesizer of its voices: volume, pan,*)
(* pitch and effect, made from the settings of the player, of the channel  *)
(* and of the note (seqplayer.c and csplayer.c, which agree in this, and   *)
(* the calls in seqpset*.c and cspset*.c).  Settings come from the         *)
(* sequence at any time, and from the program through the event queue.     *)
(*                                                                         *)
(* A volume or a pitch is the record of what it is made from: the          *)
(* multiplications are left out, but for a gain of nothing, which makes    *)
(* silence.  When events are due is modelled in SeqPlayer.                 *)
(***************************************************************************)
EXTENDS EventQueue

CONSTANTS
  SVoices, Channels,
  Insts,          \* instruments of a bank; their names stand for their volumes, pans and ranges
  Levels,         \* values of the controllers
  Patient,        \* a new sequence is set only when all that was asked for has been done
  MaxAsked, MaxMessages

ASSUME SeqChannelsAssumption ==
  /\ Patient \in BOOLEAN /\ {MaxAsked, MaxMessages} \subseteq Nat

VARIABLES
  running,        \* state: "stopped", "playing" or "stopping"
  chans,          \* chanState
  playerVol,
  voices,         \* ALVoiceState of each voice
  told,           \* what the synthesizer was last told of each voice
  requests,          \* the program's events in the queue
  newInst,        \* settings of channels that came with a program since (history)
  asserted,       \* an assertion failed
  messages

chanVars == << running, chans, playerVol, voices, told, requests, newInst, asserted, messages >>

Default == "default"
Silent0 == "silent"
Free0 == [env |-> "free"]

\* __setInstChanState
SetInst(ch, i) == [ch EXCEPT !.pan = i, !.vol = i, !.range = i]

\* __resetPerfChanState
Reset0 == [fx |-> Default, pan |-> Default, vol |-> Default, range |-> Default, bend |-> Default]

\* __initFromBank: the first instrument of the bank
FromBank(i) == [c \in Channels |-> SetInst(Reset0, i)]

FirstInst == CHOOSE i \in Insts : TRUE

ChannelsInit ==
  /\ running = "stopped" /\ chans = FromBank(FirstInst) /\ playerVol = Default
  /\ voices = [v \in SVoices |-> Free0] /\ told = [v \in SVoices |-> Free0]
  /\ requests = << >> /\ newInst = {} /\ asserted = FALSE /\ messages = 0

------------------------------------------------------------------------------
Mapped == {v \in SVoices : voices[v].env # "free"}
On(c) == {v \in Mapped : voices[v].chan = c}
Held0 == {v \in Mapped : voices[v].env # "release"}

\* __vsVol
Vol(n, ch, player) ==
  IF n.gain = "none" THEN Silent0 ELSE [n |-> << n.tremolo, n.velocity, n.gain >>, ch |-> ch.vol, all |-> player]

\* What alSynSetPitch is given
Pitch0(n, ch) == << ch.bend, n.vibrato >>

\* __vsDelta: until the end of the segment of the envelope, or shortly when it has passed
When(n) == IF n.over THEN "soon" ELSE n.segment

\* alSynSetVol, Pan, Pitch and FXMix of voices
TellVol(tld, vcs, chs, player, S) ==
  [v \in SVoices |-> IF v \in S THEN [tld[v] EXCEPT !.vol = Vol(vcs[v], chs[vcs[v].chan], player),
                                                    !.at = When(vcs[v])] ELSE tld[v]]

\* __seqpReleaseVoice
Released(n) == [n EXCEPT !.env = "release", !.velocity = "none", !.gain = "none",
                         !.segment = "release", !.over = FALSE]
ReleaseAll(S) ==
  /\ voices' = [v \in SVoices |-> IF v \in S THEN Released(voices[v]) ELSE voices[v]]
  /\ told' = [v \in SVoices |-> IF v \in S THEN [told[v] EXCEPT !.vol = Silent0, !.at = "release"]
                                ELSE told[v]]

------------------------------------------------------------------------------
(* MIDI messages (__handleMIDIMsg)                                             *)

\* A note on
NoteOn(v, c) ==
  /\ running = "playing" /\ v \notin Mapped
  /\ LET n == [chan |-> c, env |-> "attack", velocity |-> "struck", gain |-> "attack",
               tremolo |-> Default, vibrato |-> Default, segment |-> "attack", over |-> FALSE]
     IN /\ voices' = [voices EXCEPT ![v] = n]
        /\ told' = [told EXCEPT ![v] =
             [env |-> "on", vol |-> Vol(n, chans[c], playerVol), at |-> "attack", pan |-> chans[c].pan,
              pitch |-> Pitch0(n, chans[c]), fx |-> chans[c].fx]]
  /\ UNCHANGED << chans, playerVol, newInst >>

\* A note off, or the pedal that lets a note go
NoteGoes(v) ==
  /\ v \in Held0 /\ ReleaseAll({v})
  /\ UNCHANGED << chans, playerVol, newInst >>

\* Pressure on a key, or on all of a channel
Pressure(S, vel) ==
  /\ voices' = [v \in SVoices |-> IF v \in S THEN [voices[v] EXCEPT !.velocity = vel] ELSE voices[v]]
  /\ told' = TellVol(told, voices', chans, playerVol, S)
  /\ UNCHANGED << chans, playerVol, newInst >>

ChannelPan(c, x) ==
  /\ chans' = [chans EXCEPT ![c].pan = x] /\ newInst' = newInst \ {<< c, "pan" >>}
  /\ told' = [v \in SVoices |-> IF v \in On(c) THEN [told[v] EXCEPT !.pan = x] ELSE told[v]]
  /\ UNCHANGED << playerVol, voices >>

ChannelVol(c, x) ==
  /\ chans' = [chans EXCEPT ![c].vol = x] /\ newInst' = newInst \ {<< c, "vol" >>}
  /\ told' = TellVol(told, voices, chans', playerVol, On(c) \cap Held0)
  /\ UNCHANGED << playerVol, voices >>

ChannelFX(c, x) ==
  /\ chans' = [chans EXCEPT ![c].fx = x]
  /\ told' = [v \in SVoices |-> IF v \in On(c) THEN [told[v] EXCEPT !.fx = x] ELSE told[v]]
  /\ UNCHANGED << playerVol, voices, newInst >>

PitchBend(c, x) ==
  /\ chans' = [chans EXCEPT ![c].bend = << chans[c].range, x >>]
  /\ told' = [v \in SVoices |-> IF v \in On(c) THEN [told[v] EXCEPT !.pitch = Pitch0(voices[v], chans'[c])]
                                ELSE told[v]]
  /\ UNCHANGED << playerVol, voices, newInst >>

\* A program change: voices that sound keep what they were told.
Program0(c, i) ==
  /\ chans' = [chans EXCEPT ![c] = SetInst(@, i)]
  /\ newInst' = newInst \cup ({c} \X {"pan", "vol"})
  /\ UNCHANGED << playerVol, voices, told >>

------------------------------------------------------------------------------
(* The other events of the handler                                             *)

\* Mutant: the volume is made before the gain is that of the decay.
EnvelopeEventLate(v) ==
  /\ voices[v].env = "attack"
  /\ voices' = [voices EXCEPT ![v] = [@ EXCEPT !.env = "decay", !.gain = "decay",
                                               !.segment = "decay", !.over = FALSE]]
  /\ told' = [told EXCEPT ![v] = [@ EXCEPT !.vol = Vol(voices[v], chans[voices[v].chan], playerVol),
                                           !.at = "decay"]]
  /\ UNCHANGED << chans, playerVol, newInst >>

\* AL_SEQP_ENV_EVT
EnvelopeEvent(v) ==
  /\ voices[v].env = "attack"
  /\ voices' = [voices EXCEPT ![v] = [@ EXCEPT !.env = "decay", !.gain = "decay",
                                               !.segment = "decay", !.over = FALSE]]
  /\ told' = TellVol(told, voices', chans, playerVol, {v})
  /\ UNCHANGED << chans, playerVol, newInst >>

\* AL_TREM_OSC_EVT and AL_VIB_OSC_EVT
Tremolo(v, x) ==
  /\ v \in Mapped /\ voices' = [voices EXCEPT ![v].tremolo = x]
  /\ told' = TellVol(told, voices', chans, playerVol, {v})
  /\ UNCHANGED << chans, playerVol, newInst >>
Vibrato(v, x) ==
  /\ v \in Mapped /\ voices' = [voices EXCEPT ![v].vibrato = x]
  /\ told' = [told EXCEPT ![v].pitch = Pitch0(voices'[v], chans[voices[v].chan])]
  /\ UNCHANGED << chans, playerVol, newInst >>

\* AL_NOTE_END_EVT
VoiceEnds(v) ==
  /\ v \in Mapped \ Held0
  /\ voices' = [voices EXCEPT ![v] = Free0] /\ told' = [told EXCEPT ![v] = Free0]
  /\ UNCHANGED << chans, playerVol, newInst >>

\* The end of the decay passes; nothing is told of it.
SegmentEnds(v) ==
  /\ v \in Held0 /\ voices[v].env = "decay" /\ voices' = [voices EXCEPT ![v].over = TRUE]
  /\ UNCHANGED << chans, playerVol, told, newInst >>

\* AL_SEQP_VOL_EVT
PlayerVolume(x) ==
  /\ playerVol' = x /\ told' = TellVol(told, voices, chans, x, Mapped)
  /\ UNCHANGED << chans, voices, newInst >>

\* AL_SEQP_SEQ_EVT and AL_SEQP_BANK_EVT
FreshBank ==
  /\ chans' = FromBank(FirstInst) /\ newInst' = newInst \cup (Channels \X {"pan", "vol"})
  /\ UNCHANGED << playerVol, voices, told >>

------------------------------------------------------------------------------
(* The calls of the program: alSeqpSetVol, alSeqpSetChlVol, alSeqpSetPan,      *)
(* alSeqpSetFXMix, alSeqpSetProgram, alSeqpSetSeq, alSeqpSetBank, and play and *)
(* stop; the compact player has the same.                                      *)

Ask(evt) ==
  /\ Len(requests) < MaxAsked /\ messages < MaxMessages /\ messages' = messages + 1
  /\ requests' = Append(requests, evt)
  /\ UNCHANGED << running, chans, playerVol, voices, told, newInst, asserted >>

AskVol(x)        == Ask([type |-> "vol", x |-> x])
AskChlVol(c, x)  == Ask([type |-> "midi", kind |-> "vol", chan |-> c, x |-> x])
AskPan(c, x)     == Ask([type |-> "midi", kind |-> "pan", chan |-> c, x |-> x])
AskFXMix(c, x)   == Ask([type |-> "midi", kind |-> "fx", chan |-> c, x |-> x])
AskProgram(c, i) == Ask([type |-> "midi", kind |-> "program", chan |-> c, x |-> i])
AskPlay          == Ask([type |-> "play"])
AskStopping      == Ask([type |-> "stopping"])

\* alSeqpGetState tells the program that the player has stopped.
AskSeq  == running = "stopped" /\ (Patient => requests = << >>) /\ Ask([type |-> "seq"])
AskBank == running = "stopped" /\ (Patient => requests = << >>) /\ Ask([type |-> "bank"])

Midi0(kind, c, x) ==
  \/ kind = "vol" /\ ChannelVol(c, x)
  \/ kind = "pan" /\ ChannelPan(c, x)
  \/ kind = "fx" /\ ChannelFX(c, x)
  \/ kind = "program" /\ Program0(c, x)

Unsettled == UNCHANGED << chans, playerVol, newInst >>

\* What is left of the queue without the messages in it
ButMessages(q) ==
  LET left == Ascending({i \in 1..Len(q) : q[i].type # "midi"})
  IN [i \in 1..Len(left) |-> q[left[i]]]

\* The handler takes the next of the program's events.
AskedEvent ==
  /\ requests # << >>
  /\ LET e == Head(requests)
         rest == Tail(requests)
     IN \/ e.type = "vol" /\ PlayerVolume(e.x) /\ requests' = rest /\ UNCHANGED << running, asserted >>
        \/ e.type = "midi" /\ Midi0(e.kind, e.chan, e.x) /\ requests' = rest /\ UNCHANGED << running, asserted >>
        \/ /\ e.type = "play" /\ running' = "playing" /\ requests' = rest
           /\ UNCHANGED << voices, told, asserted >> /\ Unsettled
        \* AL_SEQP_STOPPING_EVT lets the voices go and drops the messages behind it.
        \/ /\ e.type = "stopping" /\ running = "playing" /\ running' = "stopping"
           /\ requests' = ButMessages(rest) /\ ReleaseAll(Held0)
           /\ UNCHANGED asserted /\ Unsettled
        \/ /\ e.type = "stopping" /\ running # "playing" /\ requests' = rest
           /\ UNCHANGED << running, voices, told, asserted >> /\ Unsettled
        \/ /\ e.type \in {"seq", "bank"} /\ FreshBank /\ requests' = rest
           /\ asserted' = IF e.type = "seq" THEN running = "playing" ELSE running # "stopped"
           /\ UNCHANGED running
  /\ UNCHANGED messages

\* AL_SEQP_STOP_EVT, after the ends of the voices
Stopped0 ==
  /\ running = "stopping" /\ Mapped = {} /\ running' = "stopped"
  /\ UNCHANGED << chans, playerVol, voices, told, requests, newInst, asserted, messages >>

\* An event that is not the program's; the sequence's own only while it plays
Event ==
  /\ \/ \E v \in SVoices : EnvelopeEvent(v) \/ VoiceEnds(v) \/ SegmentEnds(v)
     \/ \E v \in SVoices, x \in Levels : Tremolo(v, x) \/ Vibrato(v, x)
     \/ /\ running = "playing"
        /\ \/ \E v \in SVoices : NoteGoes(v) \/ \E c \in Channels : NoteOn(v, c)
           \/ \E v \in Held0, x \in Levels : Pressure({v}, x)
           \/ \E c \in Channels, x \in Levels : Pressure(On(c), x) \/ PitchBend(c, x)
           \/ \E c \in Channels, x \in Levels, kind \in {"vol", "pan", "fx"} : Midi0(kind, c, x)
           \/ \E c \in Channels, i \in Insts : Program0(c, i)
  /\ messages < MaxMessages /\ messages' = messages + 1
  /\ UNCHANGED << running, requests, asserted >>

ChannelsNext ==
  \/ Event \/ AskedEvent \/ Stopped0
  \/ \E x \in Levels : AskVol(x)
  \/ \E c \in Channels, x \in Levels : AskChlVol(c, x) \/ AskPan(c, x) \/ AskFXMix(c, x)
  \/ \E c \in Channels, i \in Insts : AskProgram(c, i)
  \/ AskPlay \/ AskStopping \/ AskSeq \/ AskBank

------------------------------------------------------------------------------
\* A voice that sounds is as the player, its channel and its note are set now, whatever
\* changed in which order, but for what came with a new program; its volume comes when the
\* segment of its envelope ends.  A voice that was let go is never heard again, and no
\* sequence or bank is set while the player is not ready for it (__handleMIDIMsg,
\* __seqpVoiceHandler, __vsVol, __vsDelta).
VoicesAsSet ==
  /\ \A v \in Held0 :
       LET n == voices[v]  ch == chans[n.chan]
       IN /\ told[v].pitch = Pitch0(n, ch) /\ told[v].fx = ch.fx
          /\ << n.chan, "pan" >> \in newInst \/ told[v].pan = ch.pan
          /\ << n.chan, "vol" >> \in newInst \/ told[v].vol = Vol(n, ch, playerVol)
          /\ n.over \/ told[v].at = n.segment
  /\ \A v \in Mapped \ Held0 : told[v].vol = Silent0
  /\ ~asserted
====================================================================================
