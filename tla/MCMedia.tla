--------------------------------- MODULE MCMedia ---------------------------------
(***************************************************************************)
(* Small instances of the sequence players, their channels, tempo and      *)
(* readers, the sound player, the synthesizer and three of its filters,    *)
(* the video manager, the video modes and the files of controller paks.    *)
(* They do not interact: each behaviour is one of them, `part', and the    *)
(* variables of the others stay as they are.                               *)
(***************************************************************************)
EXTENDS SeqPlayer, SndPlayer, Synthesizer, ViMgr, PakFiles, SeqChannels, SeqTempo, AudioFilters,
  SequenceReader, ViModes

CONSTANTS k1, k2, d1, d2, x1, x2, x3, A, B, m1, m2, pak1, pak2

\* A long and a short sound, in different order of attack and release
KeyAttack  == k1 :> 1 @@ k2 :> 2
KeyRelease == k1 :> 1 @@ k2 :> 4

\* A sound that ends, and one that is looped and falls silent at once
SoundAttack  == d1 :> 2 @@ d2 :> 0
SoundDecay   == d1 :> 2 @@ d2 :> -1
SoundRelease == d1 :> 3 @@ d2 :> 1
Minus1       == -1

\* Two voices of a player and one of a more important one
VoicePlayer    == x1 :> A @@ x2 :> A @@ x3 :> B
PlayerPriority == A :> 1 @@ B :> 2

ModeGamma == m1 :> TRUE @@ m2 :> FALSE

\* A pak of one bank and one of two; the first bank has pages in two blocks.
Sizing == pak1 :> 1 @@ pak2 :> 2
PageSets == 0 :> {4, 5, 6} @@ 1 :> {1}

\* Raw sounds that begin in a word or not, and compressed ones; loops that begin and end
\* anywhere in words and frames, in turns or for ever
Wave(type, base, len, loop) ==
  [type |-> type, base |-> base, len |-> len, start |-> loop[1], end |-> loop[2], count |-> loop[3]]
LoopsOfBoth == { << 0, 0, 0 >>, << 3, 12, 2 >>, << 5, 14, -1 >>, << 0, 9, 1 >> }
SmallWaves ==
  {Wave("raw", base, 14, loop) : base \in {0, 3}, loop \in LoopsOfBoth} \cup
  {Wave("adpcm", 0, 16, loop) : loop \in LoopsOfBoth \cup { << 4, 13, 1 >>, << 0, 11, -1 >> }}

\* A section with feedback and a chorus behind it
TwoSections == << [input |-> 0, output |-> 8, chorus |-> FALSE, fb |-> TRUE],
                  [input |-> 4, output |-> 10, chorus |-> TRUE, fb |-> FALSE] >>

\* Two compact songs with blocks, with loops in loops and with a loop for ever; two MIDI files
ANote(d, name) == [k |-> "note", d |-> d, id |-> name]
EndAt(d) == [k |-> "end", d |-> d, id |-> "end"]
Looping(d, body, last, count) == [k |-> "loop", d |-> d, body |-> body, last |-> last, count |-> count]
SameNotes(d, notes) == [k |-> "same", d |-> d, notes |-> notes]
Song1 == [compact |-> TRUE, tracks |-> <<
  << ANote(0, "a"), ANote(2, "b"), SameNotes(1, << ANote(0, "a"), ANote(2, "b") >>), ANote(0, "c"),
     EndAt(3) >>,
  << ANote(1, "d"), Looping(0, << ANote(1, "e"), Looping(0, << ANote(2, "f") >>, 0, 2) >>, 1, 1),
     EndAt(2) >> >>]
Song2 == [compact |-> TRUE, tracks |-> <<
  << ANote(1, "a"), ANote(2, "b"),
     Looping(1, << ANote(0, "c"), ANote(1, "d"), SameNotes(2, << ANote(0, "d") >>) >>, 1, 255),
     EndAt(0) >>,
  << ANote(2, "x"), ANote(2, "y"), EndAt(1) >> >>]
File1 == [compact |-> FALSE, loop |-> [start |-> 2, end |-> 5, count |-> 2],
          notes |-> << ANote(0, "a"), ANote(2, "b"), ANote(0, "c"), ANote(3, "d"), ANote(1, "e"),
                       ANote(2, "end") >>]
File2 == [File1 EXCEPT !.loop = [start |-> 1, end |-> 7, count |-> 1]]
FewSongs == {Song1, Song2, File1, File2}

FirstSong == CompactSong(Song1)

\* Every mode; lines above and below that the picture has room for, and those that make PAL full screen
AllModes == 0..55
MoreLines == [tv \in 0..3 |-> IF tv = 1 THEN {0, 2, 48} ELSE {0, 2}]

VARIABLE part

Sound == << playerVars, chanVars, tempoVars, songVars, sndVars, synVars, loadVars, fxVars, resampleVars >>
Others == << viVars, screenVars, pakVars >>
mediaVars == << Sound, Others, part >>

MediaInit ==
  /\ part \in {"seq", "chan", "tempo", "song", "snd", "syn", "load", "fx", "resample", "vi", "screen", "pak"}
  /\ PlayerInit /\ (compact => part = "seq")
  /\ TempoInit /\ (uspt # 2 => part = "tempo")
  /\ ResampleInit /\ (rspAt # 0 => part = "resample")
  /\ SongInit /\ (song # FirstSong => part = "song")
  /\ ChannelsInit /\ SndInit /\ SynInit /\ LoadInit /\ FxInit /\ ViInit /\ PakInit
  /\ ScreenInit /\ (screen.mode # 0 => part = "screen")

\* One part takes a step.
Players0 == << playerVars, chanVars, tempoVars, songVars >>
Synth0   == << sndVars, synVars, loadVars, fxVars, resampleVars >>

MediaNext ==
  /\ UNCHANGED part
  /\ \/ part = "seq" /\ PlayerNext /\ UNCHANGED << chanVars, tempoVars, songVars, Synth0, Others >>
     \/ part = "chan" /\ ChannelsNext /\ UNCHANGED << playerVars, tempoVars, songVars, Synth0, Others >>
     \/ part = "tempo" /\ TempoNext /\ UNCHANGED << playerVars, chanVars, songVars, Synth0, Others >>
     \/ part = "song" /\ SongNext /\ UNCHANGED << playerVars, chanVars, tempoVars, Synth0, Others >>
     \/ part = "snd" /\ SndNext /\ UNCHANGED << Players0, synVars, loadVars, fxVars, resampleVars, Others >>
     \/ part = "syn" /\ SynNext /\ UNCHANGED << Players0, sndVars, loadVars, fxVars, resampleVars, Others >>
     \/ part = "load" /\ LoadNext /\ UNCHANGED << Players0, sndVars, synVars, fxVars, resampleVars, Others >>
     \/ part = "fx" /\ FxNext /\ UNCHANGED << Players0, sndVars, synVars, loadVars, resampleVars, Others >>
     \/ part = "resample" /\ ResampleNext
          /\ UNCHANGED << Players0, sndVars, synVars, loadVars, fxVars, Others >>
     \/ part = "vi" /\ ViNext /\ UNCHANGED << Sound, screenVars, pakVars >>
     \/ part = "screen" /\ ScreenNext /\ UNCHANGED << Sound, viVars, pakVars >>
     \/ part = "pak" /\ PakNext /\ UNCHANGED << Sound, viVars, screenVars >>

Spec == MediaInit /\ [][MediaNext]_mediaVars

------------------------------------------------------------------------------
\* The notes end and the score goes on in the tempo there is, and its events are those of the score
\* (SeqTempo, SequenceReader); each filter gives the samples that are next, of the wave table,
\* whatever its loop, and of the delay line, and the resampler goes on where it was (AudioFilters);
\* a mode shows the lines of the frame (ViModes).  The other parts leave the screen in the first
\* state of this one.  The queue of a sequence player never gets short (SeqPlayer).
HeardAndShown ==
  /\ PlayerHasRoom /\ InTempo /\ ScoreFollowed /\ SamplesInOrder /\ DelaysKept /\ ResamplerInStep
  /\ part = "screen" => FrameShown
==================================================================================
