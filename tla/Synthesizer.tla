------------------------------ MODULE Synthesizer -------------------------------
(***************************************************************************)
(* The synthesis driver: alAudioFrame of synthesizer.c, the voice calls of *)
(* syn*.c, and the update list of the envelope mixer (env.c).              *)
(*                                                                         *)
(* A frame first runs the handlers of the players that are due in it, the  *)
(* earliest first.  Handlers start and end notes; each call appends an     *)
(* update, stamped with a sample time, to the list of a physical voice.    *)
(* Then the frame is rendered in parts, each of which applies the updates  *)
(* that fall into it.  A voice of higher or equal priority may steal a     *)
(* physical voice: the old note fades for Offset samples, and until it is  *)
(* freed every update of the new one is that much later.                   *)
(*                                                                         *)
(* Times are counted from curSamples.  Sound, pan, pitch and mix are left  *)
(* out.                                                                    *)
(***************************************************************************)
EXTENDS Integers, Sequences, SequencesExt, FiniteSets

CONSTANTS
  PVoices, VVoices, NoPV, NoVV,
  Players, Plays,       \* the player each voice belongs to
  Priority,             \* the priority of each player's notes
  OutLen, MaxOut,       \* samples of a frame and of a part of it
  Align, Offset,        \* 16 and 512 samples
  Delays,               \* what the handlers return, in samples
  MaxUpdates,
  Scarce,               \* the updates may run out
  Outside               \* voice calls are made outside of the handlers

ASSUME SynthesizerAssumption ==
  /\ Plays \in [VVoices -> Players] /\ Priority \in [Players -> Int] /\ IsFiniteSet(PVoices)
  /\ NoPV \notin PVoices /\ NoVV \notin VVoices
  /\ {OutLen, MaxOut, Align, Offset} \subseteq Nat \ {0}
  /\ \A n \in {OutLen, MaxOut, Offset} : n % Align = 0
  /\ Delays \subseteq Nat /\ MaxUpdates \in Nat /\ {Scarce, Outside} \subseteq BOOLEAN

VARIABLES
  synPhase,            \* "idle", "due", "handler" or "render"
  clients, samplesLeft,
  client,              \* whose handler runs
  paramSamples,
  toRender,            \* what is left of outLen
  pFree, pLame, pAlloc,
  pvoice, vvoice,      \* ALVoice.pvoice and PVoice.vvoice
  offset,
  ctrl,                \* ctrlList of each voice's envelope mixer
  motion               \* it is playing

voiceVars == << pFree, pLame, pAlloc, pvoice, vvoice, offset, ctrl >>
synVars == << synPhase, clients, samplesLeft, client, paramSamples, toRender, voiceVars, motion >>

SynInit ==
  /\ synPhase = "idle" /\ clients = << >> /\ samplesLeft = [c \in Players |-> 0]
  /\ client = CHOOSE c \in Players : TRUE
  /\ paramSamples = 0 /\ toRender = 0
  /\ pFree = SetToSeq(PVoices) /\ pLame = << >> /\ pAlloc = << >>
  /\ pvoice = [v \in VVoices |-> NoPV] /\ vvoice = [p \in PVoices |-> NoVV]
  /\ offset = [p \in PVoices |-> 0] /\ ctrl = [p \in PVoices |-> << >>]
  /\ motion = [p \in PVoices |-> FALSE]

------------------------------------------------------------------------------
(* The voice calls.  An operator takes and gives s, the voices, lists and updates. *)

Synth == [free |-> pFree, lame |-> pLame, alloc |-> pAlloc, pv |-> pvoice, vv |-> vvoice,
          offset |-> offset, ctrl |-> ctrl]
SynthBecomes(s) ==
  /\ pFree' = s.free /\ pLame' = s.lame /\ pAlloc' = s.alloc /\ pvoice' = s.pv
  /\ vvoice' = s.vv /\ offset' = s.offset /\ ctrl' = s.ctrl

\* The updates that are in lists
Used(s) == Cardinality(UNION {{p} \X DOMAIN s.ctrl[p] : p \in PVoices})

\* __allocParam and AL_FILTER_ADD_UPDATE: without a free update the call does nothing.
AddUpdate(s, p, type, at) ==
  IF Used(s) = MaxUpdates THEN s
  ELSE [s EXCEPT !.ctrl[p] = Append(@, [type |-> type, at |-> at])]

\* Mutant: the time a stolen voice needs to fall silent is not added.
UpdateAtOnce(s, v, type) ==
  IF s.pv[v] = NoPV THEN s ELSE AddUpdate(s, s.pv[v], type, paramSamples)

\* alSynStartVoice, alSynStopVoice and alSynSetVol, pan, pitch and mix
Update(s, v, type) ==
  IF s.pv[v] = NoPV THEN s ELSE AddUpdate(s, s.pv[v], type, paramSamples + s.offset[s.pv[v]])

\* alUnlink
Unlinked(list, gone) ==
  LET kept[i \in 0..Len(list)] ==
        IF i = 0 THEN << >>
        ELSE IF list[i] \in gone THEN kept[i - 1] ELSE Append(kept[i - 1], list[i])
  IN kept[Len(list)]

\* alSynFreeVoice
FreeVoice(s, v) ==
  LET p == s.pv[v]
  IN CASE p = NoPV -> s
       [] p # NoPV /\ s.offset[p] # 0 ->
            IF Used(s) = MaxUpdates THEN s
            ELSE [AddUpdate(s, p, "free", paramSamples + s.offset[p]) EXCEPT !.pv[v] = NoPV]
       [] OTHER ->
            [s EXCEPT !.alloc = Unlinked(@, {p}), !.lame = << p >> \o @, !.pv[v] = NoPV]

\* The voice to steal for a note of this priority: the last of the lowest priority in
\* pAllocList that has not been stolen, or none
Victim(s, priority) ==
  LET rank(i) == Priority[Plays[s.vv[s.alloc[i]]]]
      open    == {i \in 1..Len(s.alloc) : rank(i) <= priority /\ s.offset[s.alloc[i]] = 0}
      lowest  == {i \in open : \A j \in open : rank(i) <= rank(j)}
  IN IF open = {} THEN NoPV ELSE s.alloc[Max(lowest)]

\* A physical voice is taken from its note, which fades and stops.
Stolen(s, p) ==
  LET taken == [s EXCEPT !.offset[p] = Offset, !.pv[s.vv[p]] = NoPV]
  IN AddUpdate(AddUpdate(taken, p, "vol", paramSamples), p, "stop", paramSamples + Offset)

\* alSynAllocVoice
AllocVoice(s, v) ==
  LET Give(x, p) == [x EXCEPT !.vv[p] = v, !.pv[v] = p]
      Fresh(x, p) == Give([x EXCEPT !.alloc = << p >> \o @, !.offset[p] = 0], p)
      p == Victim(s, Priority[Plays[v]])
  IN CASE s.lame # << >> -> Fresh([s EXCEPT !.lame = Tail(@)], Head(s.lame))
       [] s.lame = << >> /\ s.free # << >> -> Fresh([s EXCEPT !.free = Tail(@)], Head(s.free))
       [] OTHER -> IF p = NoPV THEN [s EXCEPT !.pv[v] = NoPV] ELSE Give(Stolen(s, p), p)

\* The notes of the players: allocated and started, stopped and freed.
StartNote(v) ==
  /\ pvoice[v] = NoPV
  /\ SynthBecomes(Update(AllocVoice(Synth, v), v, "start"))
EndNote(v) == pvoice[v] # NoPV /\ SynthBecomes(FreeVoice(Update(Synth, v, "stop"), v))
SetVol(v) == pvoice[v] # NoPV /\ SynthBecomes(Update(Synth, v, "vol"))
Note(v) ==
  /\ Scarce \/ Used(Synth) + 3 <= MaxUpdates
  /\ StartNote(v) \/ EndNote(v) \/ SetVol(v)

------------------------------------------------------------------------------
(* A frame *)

Aligned(n) == n - (n % Align)

\* __nextSampleTime: the first in the list of those that are due first
Earliest ==
  LET i == CHOOSE i \in 1..Len(clients) :
             \A j \in 1..Len(clients) :
               /\ samplesLeft[clients[i]] <= samplesLeft[clients[j]]
               /\ j < i => samplesLeft[clients[i]] < samplesLeft[clients[j]]
  IN clients[i]

\* alAudioFrame returns at once when there is no player.
StartFrame ==
  /\ synPhase = "idle" /\ clients # << >>
  /\ synPhase' = "due" /\ toRender' = OutLen
  /\ UNCHANGED << clients, samplesLeft, client, paramSamples, voiceVars, motion >>

CallHandler ==
  /\ synPhase = "due" /\ samplesLeft[Earliest] < OutLen
  /\ client' = Earliest /\ paramSamples' = Aligned(samplesLeft[Earliest])
  /\ synPhase' = "handler"
  /\ UNCHANGED << clients, samplesLeft, toRender, voiceVars, motion >>

\* A call of the player whose handler runs, or of the program between frames, which is
\* stamped with the time of the next handler
VoiceCall(v) ==
  /\ IF synPhase = "handler" THEN Plays[v] = client
     ELSE Outside /\ synPhase = "idle" /\ Contains(clients, Plays[v])
  /\ Note(v)
  /\ UNCHANGED << synPhase, clients, samplesLeft, client, paramSamples, toRender, motion >>

\* The handler returns the time to its next event.
HandlerReturns ==
  /\ synPhase = "handler"
  /\ \E d \in Delays : samplesLeft' = [samplesLeft EXCEPT ![client] = @ + d]
  /\ synPhase' = "due"
  /\ UNCHANGED << clients, client, paramSamples, toRender, voiceVars, motion >>

AllCalled ==
  /\ synPhase = "due" /\ samplesLeft[Earliest] >= OutLen
  /\ paramSamples' = Aligned(samplesLeft[Earliest])
  /\ synPhase' = "render"
  /\ UNCHANGED << clients, samplesLeft, client, toRender, voiceVars, motion >>

\* How many updates fall into the next n samples: alEnvmixerPull goes through the list
\* until one is later.
Reached(p, n) == Max({k \in 0..Len(ctrl[p]) : \A i \in 1..k : ctrl[p][i].at <= n})

\* AL_FILTER_FREE_VOICE, for the voices gone
Freed(s, gone) ==
  [s EXCEPT !.offset = [p \in PVoices |-> IF p \in gone THEN 0 ELSE @[p]],
            !.alloc = Unlinked(@, gone), !.lame = SetToSeq(gone) \o @]

\* A voice that is in motion or not, after some updates
Switches(updates) == {i \in 1..Len(updates) : updates[i].type \in {"start", "stop"}}
Moving(updates, before) ==
  IF Switches(updates) = {} THEN before ELSE updates[Max(Switches(updates))].type = "start"

\* What the updates that are reached do
Pulled(n) ==
  LET now(p)  == SubSeq(ctrl[p], 1, Reached(p, n))
      late(p) == SubSeq(ctrl[p], Reached(p, n) + 1, Len(ctrl[p]))
      gone    == {p \in PVoices : \E i \in 1..Len(now(p)) : now(p)[i].type = "free"}
      left    == [p \in PVoices |-> [i \in 1..Len(late(p)) |-> [late(p)[i] EXCEPT !.at = @ - n]]]
  IN [synth |-> Freed([Synth EXCEPT !.ctrl = left], gone),
      motion |-> [p \in PVoices |-> Moving(now(p), motion[p])]]

\* One part of the frame; after the last one _collectPVoices.
Render ==
  LET n == IF toRender < MaxOut THEN toRender ELSE MaxOut
      after == Pulled(n)
      done == toRender = n
  IN /\ synPhase = "render"
     /\ toRender' = toRender - n
     /\ SynthBecomes(IF done THEN [after.synth EXCEPT !.free = Reverse(after.synth.lame) \o @,
                                                      !.lame = << >>]
                     ELSE after.synth)
     /\ motion' = after.motion
     /\ samplesLeft' = [c \in Players |-> IF Contains(clients, c) THEN samplesLeft[c] - n ELSE 0]
     /\ paramSamples' = paramSamples - n
     /\ synPhase' = IF done THEN "idle" ELSE "render"
     /\ UNCHANGED << clients, client >>

------------------------------------------------------------------------------
(* The program, between frames *)

Busy(c) == \E v \in VVoices : Plays[v] = c /\ pvoice[v] # NoPV

\* alSynAddPlayer: the player is due at once.
AddPlayer(c) ==
  /\ synPhase = "idle" /\ ~Contains(clients, c)
  /\ clients' = << c >> \o clients /\ samplesLeft' = [samplesLeft EXCEPT ![c] = 0]
  /\ UNCHANGED << synPhase, client, paramSamples, toRender, voiceVars, motion >>

\* alSynRemovePlayer, of a player without a voice
RemovePlayer(c) ==
  /\ synPhase = "idle" /\ Contains(clients, c) /\ ~Busy(c)
  /\ clients' = Unlinked(clients, {c}) /\ samplesLeft' = [samplesLeft EXCEPT ![c] = 0]
  /\ UNCHANGED << synPhase, client, paramSamples, toRender, voiceVars, motion >>

SynNext ==
  \/ StartFrame \/ CallHandler \/ HandlerReturns \/ AllCalled \/ Render
  \/ \E v \in VVoices : VoiceCall(v)
  \/ \E c \in Players : AddPlayer(c) \/ RemovePlayer(c)

------------------------------------------------------------------------------
\* The updates of a voice are in the order of their times, and none is late: the
\* mixer counts the samples from each to the next and asserts that they are not
\* negative (alEnvmixerPull).
UpdatesInOrder ==
  \A p \in PVoices :
    /\ ctrl[p] # << >> => ctrl[p][1].at >= 0
    /\ \A i \in 2..Len(ctrl[p]) : ctrl[p][i - 1].at <= ctrl[p][i].at

InList(p, type) == Cardinality({i \in 1..Len(ctrl[p]) : ctrl[p][i].type = type})

\* A physical voice is in one list; a note and its voice know each other; a voice
\* whose note is gone is on its way to be freed, once, or is free and falls silent.
VoicesMatch ==
  /\ Len(pFree) + Len(pLame) + Len(pAlloc) = Cardinality(PVoices)
  /\ ToSet(pFree) \cup ToSet(pLame) \cup ToSet(pAlloc) = PVoices
  /\ \A v \in VVoices : pvoice[v] # NoPV => vvoice[pvoice[v]] = v /\ Contains(pAlloc, pvoice[v])
  /\ \A p \in PVoices :
       LET owned == vvoice[p] # NoVV /\ pvoice[vvoice[p]] = p
       IN /\ InList(p, "free") = (IF Contains(pAlloc, p) /\ ~owned THEN 1 ELSE 0)
          /\ owned = Moving(ctrl[p], motion[p])

\* Notes, their physical voices and what these have still to do agree (alAudioFrame,
\* alSynAllocVoice, alSynFreeVoice, alEnvmixerPull).
VoicesInStep == UpdatesInOrder /\ VoicesMatch
=================================================================================
