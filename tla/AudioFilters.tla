------------------------------- MODULE AudioFilters -------------------------------
(***************************************************************************)
(* The filters of the audio library that move samples: the load filter of  *)
(* a voice, the delay line of an effect and the resampler of a voice, and  *)
(* the signal processor's memory as their commands use it.  Each has its   *)
(* own variables and its own part of this module; the resampler's part     *)
(* counts the samples that the load filter brings.                         *)
(***************************************************************************)
EXTENDS Integers, Sequences, SequencesExt

(***************************************************************************)
(* The signal processor's memory as the audio commands use it.  A memory   *)
(* is a function from the places written to what they hold; a place is     *)
(* that of a sample.  The microcode moves between its memory and the main  *)
(* memory in whole words, from the start of a word.                        *)
(***************************************************************************)
CONSTANT WordSize   \* samples of 8 bytes

ASSUME WordAssumption == WordSize \in Nat \ {0}

Junk == -2

RoundUp(n, size)   == ((n + size - 1) \div size) * size
RoundDown(n, size) == (n \div size) * size
AtLeast0(n) == IF n < 0 THEN 0 ELSE n
Lesser(a, b) == IF a < b THEN a ELSE b

Empty == [i \in {} |-> Junk]
Held(mem, i) == IF i \in DOMAIN mem THEN mem[i] ELSE Junk
Span(mem, at, n) == [i \in 1..n |-> Held(mem, at + i - 1)]
WriteAt(mem, at, seq) ==
  [i \in DOMAIN mem \cup (at .. at + Len(seq) - 1) |->
    IF i \in at .. at + Len(seq) - 1 THEN seq[i - at + 1] ELSE mem[i]]

\* aDMEMMove
Move(mem, from, to, n) == WriteAt(mem, to, Span(mem, from, n))

------------------------------------------------------------------------------
(***************************************************************************)
(* The load filter of a voice (load.c): it brings the next samples of a    *)
(* sound into the signal processor's memory, for as many as the resampler  *)
(* asks.  Compressed sounds are decoded frame by frame: a decoder command  *)
(* writes the frame it decoded last and then whole frames, so that the     *)
(* filter finds the samples it has not used yet in front of the new ones.  *)
(* Raw sounds are loaded in words.  At the end of a loop the part after it *)
(* is made behind the part before it and moved up to it.                   *)
(*                                                                         *)
(* A sample is its place in the sound; addresses count samples, in memory  *)
(* from the place the filter is told to use.  The commands are modelled by *)
(* what the signal processor does with them.                               *)
(***************************************************************************)
CONSTANTS
  FrameSize,      \* ADPCMFSIZE: samples of a frame
  Waves, NoWave,  \* [type, base, len, start, end, count] of each sound
  Pulls,          \* numbers of samples that are asked for
  TinyLoops,      \* loops may be shorter than what is asked for at once
  Unstopped,      \* a voice may start a sound without having stopped the last one
  MaxPlayed       \* bound on the samples of a sound that are asked for

ASSUME LoaderAssumption ==
  /\ FrameSize \in Nat \ {0} /\ Pulls \subseteq Nat \ {0} /\ MaxPlayed \in Nat
  /\ {TinyLoops, Unstopped} \subseteq BOOLEAN /\ NoWave \notin Waves
  /\ \A w \in Waves :
       /\ w.type = "adpcm" => w.len % FrameSize = 0
       /\ w.count # 0 => w.start < w.end /\ w.end <= w.len

VARIABLES
  wave,       \* table
  load,       \* the rest of ALLoadFilter; memin counts from the start of the table
  delivered,  \* the samples of the last call
  played,     \* how many samples of the sound were asked for
  playing     \* the envelope mixer pulls

loadVars == << wave, load, delivered, played, playing >>

\* No sample of the sound
Silence == -1

Silent == [i \in 1..FrameSize |-> Silence]

LoadInit ==
  /\ wave = NoWave /\ delivered = << >> /\ played = 0 /\ playing = FALSE
  /\ load = [memin |-> 0, sample |-> 0, lastsam |-> 0, first |-> TRUE, count |-> 0, state |-> Silent]

------------------------------------------------------------------------------
(* The commands *)

\* aClearBuffer
Clear(mem, at, n) == WriteAt(mem, at, [i \in 1..n |-> Silence])

\* What the sound's memory has from a place on
Source(w, from, n) ==
  [i \in 1..n |-> IF from + i - 1 \in 0 .. w.len - 1 THEN from + i - 1 ELSE Junk]

\* aADPCMdec: the state, then the frames that hold n samples; the state is the last of them.
Decode(w, mem, at, n, frame, state) ==
  LET out == state \o Source(w, frame * FrameSize, RoundUp(AtLeast0(n), FrameSize))
  IN [mem |-> WriteAt(mem, at, out), state |-> SubSeq(out, Len(out) - FrameSize + 1, Len(out))]

\* aSetBuffer and aLoadBuffer of n samples: whole words, to and from the start of a word,
\* and one word more when they are whole already.
LoadBuffer(w, mem, at, from, n) ==
  WriteAt(mem, RoundDown(at, WordSize), Source(w, from, n + WordSize - (n % WordSize)))

------------------------------------------------------------------------------
(* The parts of a call that passes the end of the loop *)

\* What is left after the first part, cut at each further end of the loop
Sections(w, left) ==
  LET length == w.end - w.start
  IN [i \in 1 .. (RoundUp(left, length) \div length) |-> Lesser(length, left - ((i - 1) * length))]

\* loop.count after this number of turns; -1 is a loop for ever.
CountAfter(count, turns) == IF count = -1 THEN -1 ELSE AtLeast0(count - turns)

Loops(f, w, n) == n + f.sample > w.end /\ f.count # 0

State(f) == IF f.first THEN Silent ELSE f.state

\* Where the samples are, behind those of the state that were used
OutAt(f) == IF f.lastsam # 0 THEN f.lastsam ELSE FrameSize

Unused(f) == IF f.lastsam # 0 THEN FrameSize - f.lastsam ELSE 0

\* The loop's own decoder state is the frame it starts in.
LoopState(w) == Source(w, RoundDown(w.start, FrameSize), FrameSize)

\* Mutant: what is left of the frame the loop starts in is not taken off.
LoopTakesAll(w, n) == AtLeast0(n - FrameSize)

\* tsam of a part after a loop
LoopTakes(w, n) == AtLeast0(n - FrameSize + (w.start % FrameSize))

\* alAdpcmPull, past the end of the loop
AdpcmLooped(f, w, n) ==
  LET last   == w.start % FrameSize
      memin  == (w.start \div FrameSize) + 1
      frames(tsam) == RoundUp(tsam, FrameSize) \div FrameSize
      nSam   == w.end - f.sample
      tsam   == AtLeast0(nSam - Unused(f))
      first  == Decode(w, Empty, 0, tsam, f.memin, State(f))
      Next_(a, k) ==
        LET op   == RoundDown(a.bEnd + ((a.nframes + 1) * FrameSize), FrameSize)
            bEnd == a.bEnd + a.nSam
            more == LoopTakes(w, k)
            part == Decode(w, a.mem, op, more, memin, LoopState(w))
        IN [mem |-> Move(part.mem, op + last, bEnd, k), state |-> part.state,
            bEnd |-> bEnd, nSam |-> k, nframes |-> frames(more)]
      parts  == Sections(w, n - nSam)
      done   == FoldLeft(Next_, [mem |-> first.mem, state |-> first.state, bEnd |-> OutAt(f),
                                 nSam |-> nSam, nframes |-> frames(tsam)], parts)
  IN [out |-> Span(done.mem, OutAt(f), n),
      load |-> [memin |-> memin + done.nframes, sample |-> w.start + done.nSam,
                lastsam |-> (done.nSam + last) % FrameSize, first |-> FALSE,
                count |-> CountAfter(f.count, Len(parts)), state |-> done.state]]

\* alAdpcmPull, before it: frames past the end of the sound are silent.
AdpcmOn(f, w, n) ==
  LET nframes  == RoundUp(AtLeast0(n - Unused(f)), FrameSize) \div FrameSize
      nSam     == nframes * FrameSize
      overFlow == AtLeast0(f.memin + nframes - (w.len \div FrameSize))
      nOver    == Lesser(overFlow * FrameSize, nSam + Unused(f))
      decoded  == nOver - (nOver % FrameSize) < n
      chunk    == Decode(w, Empty, 0, nSam - nOver, f.memin, State(f))
      at       == IF decoded THEN OutAt(f) ELSE 0
      zero     == IF decoded THEN at + Unused(f) + nSam - nOver ELSE at
      mem      == Clear(IF decoded THEN chunk.mem ELSE Empty, zero, nOver)
  IN [out |-> Span(mem, at, n),
      load |-> [f EXCEPT !.lastsam = IF nOver > 0 \/ ~decoded THEN 0 ELSE (n + @) % FrameSize,
                         !.memin = @ + nframes,
                         !.sample = IF decoded THEN @ + n ELSE @,
                         !.first = @ /\ ~decoded,
                         !.state = IF decoded THEN chunk.state ELSE @]]

\* alRaw16Pull, past the end of the loop
RawLooped(f, w, n) ==
  LET nSam == w.end - f.sample
      off(from) == (w.base + from) % WordSize
      align(op) == RoundUp(op, WordSize) - op
      Load(mem, op, from, k) == LoadBuffer(w, mem, op, from - off(from), k + off(from))
      at   == IF nSam > 0 THEN off(f.memin) ELSE 0
      Next_(a, k) ==
        LET op  == a.op + a.nSam
            mem == Load(a.mem, op + align(op), w.start, k)
        IN [mem |-> Move(mem, op + off(w.start) + align(op), op, k), op |-> op, nSam |-> k]
      parts == Sections(w, n - nSam)
      done  == FoldLeft(Next_, [mem |-> IF nSam > 0 THEN Load(Empty, 0, f.memin, nSam) ELSE Empty,
                                op |-> at, nSam |-> nSam], parts)
  IN [out |-> Span(done.mem, at, n),
      load |-> [f EXCEPT !.sample = w.start + done.nSam, !.memin = w.start + done.nSam,
                         !.count = CountAfter(@, Len(parts))]]

\* alRaw16Pull, before it: samples past the end of the sound are silent.
RawOn(f, w, n) ==
  LET overFlow == Lesser(AtLeast0(f.memin + n - w.len), n)
      some == overFlow < n
      off  == IF some THEN (w.base + f.memin) % WordSize ELSE 0
      mem  == IF some THEN LoadBuffer(w, Empty, 0, f.memin - off, n - overFlow + off) ELSE Empty
  IN [out |-> Span(Clear(mem, off + n - overFlow, overFlow), off, n),
      load |-> [f EXCEPT !.memin = @ + n, !.sample = IF some THEN @ + n ELSE @]]

PulledFrom(f, w, n) ==
  CASE w.type = "adpcm" /\ Loops(f, w, n)  -> AdpcmLooped(f, w, n)
    [] w.type = "adpcm" /\ ~Loops(f, w, n) -> AdpcmOn(f, w, n)
    [] w.type = "raw" /\ Loops(f, w, n)    -> RawLooped(f, w, n)
    [] OTHER                               -> RawOn(f, w, n)

------------------------------------------------------------------------------
\* AL_FILTER_SET_WAVETABLE, when the envelope mixer starts the voice
SetWavetable(w) ==
  /\ Unstopped \/ ~playing
  /\ TinyLoops \/ w.count = 0 \/ \A n \in Pulls : n <= w.end - w.start
  /\ wave' = w /\ delivered' = << >> /\ played' = 0 /\ playing' = TRUE
  /\ load' = [load EXCEPT !.memin = 0, !.sample = 0, !.count = w.count]

\* AL_FILTER_RESET, when it stops it
Reset ==
  /\ playing /\ playing' = FALSE
  /\ load' = [load EXCEPT !.lastsam = 0, !.first = TRUE, !.sample = 0, !.memin = 0,
                          !.count = IF wave.count # 0 THEN wave.count ELSE @]
  /\ delivered' = << >> /\ played' = 0
  /\ UNCHANGED wave

LoadPull(n) ==
  /\ playing /\ played + n <= MaxPlayed
  /\ LET pulled == PulledFrom(load, wave, n)
     IN delivered' = pulled.out /\ load' = pulled.load
  /\ played' = played + n
  /\ UNCHANGED << wave, playing >>

LoadNext == (\E w \in Waves : SetWavetable(w)) \/ Reset \/ (\E n \in Pulls : LoadPull(n))

------------------------------------------------------------------------------
\* The sample that is heard as number n: the loop is played again count times, then the
\* sound goes on to its end, and after it there is silence.
Heard(w, n) ==
  LET turn == w.end - w.start
      at   == CASE w.count = 0 \/ n < w.end -> n
                [] w.count # 0 /\ n >= w.end /\ (w.count = -1 \/ n < w.end + (w.count * turn)) ->
                     w.start + ((n - w.end) % turn)
                [] OTHER -> n - (w.count * turn)
  IN IF at < w.len THEN at ELSE Silence

\* alAdpcmPull gives up what is left of the last frame when it cannot decode another.
MayEndEarly(w, n) == w.type = "adpcm" /\ Heard(w, n) > w.len - FrameSize

\* Each call gives the samples that follow those of the calls before it, whatever their
\* numbers, the places of the loop in its frames and the alignment of the sound, but for
\* the end of a compressed sound (alAdpcmPull, alRaw16Pull).
SamplesInOrder ==
  \A i \in 1..Len(delivered) :
    LET n == played - Len(delivered) + i - 1
    IN delivered[i] = Heard(wave, n) \/ (delivered[i] = Silence /\ MayEndEarly(wave, n))

------------------------------------------------------------------------------
(***************************************************************************)
(* The delay line of an effect (reverb.c, alFxNew of drvrnew.c): a ring of *)
(* samples.  A call puts the next samples of the bus into it; each section *)
(* loads the line at two places, at its input and its output delay, mixes  *)
(* them and writes them back.  A chorus reads its output a little faster   *)
(* or slower than it passes.                                               *)
(*                                                                         *)
(* A sample is the time at which it came into the line; what the sections  *)
(* add to it is left out, and so are filters, gains and coefficients but   *)
(* for whether there is feedback.                                          *)
(***************************************************************************)
CONSTANTS
  LineLength,
  Sections0,     \* [input, output, chorus, fb] of each section
  FxPulls,       \* numbers of samples of the calls
  FxDelays,      \* delays that the program sets
  FxAlign,       \* a delay is rounded down to a multiple of this
  MaxTime        \* bound on the samples put into the line

ASSUME DelayLineAssumption ==
  /\ LineLength % WordSize = 0 /\ FxAlign % WordSize = 0
  /\ \A n \in FxPulls : n % WordSize = 0
  /\ FxDelays \subseteq Nat /\ MaxTime \in Nat

VARIABLES
  line,       \* what is in the ring
  input,      \* where the next sample goes: LineLength stands for the start as well
  delay,      \* the sections; rsdelta: how far the output of a chorus has moved
  fxTime,     \* the time of the next sample
  fetched,    \* what the last call loaded: from when on it should be, and the samples
  goesOn      \* when the next load of a chorus should begin

fxVars == << line, input, delay, fxTime, fetched, goesOn >>

\* alFxNew: the line holds the silence before the first sample.
FxInit ==
  /\ line = [i \in 0 .. LineLength - 1 |-> i - LineLength] /\ input = 0
  /\ delay = [s \in DOMAIN Sections0 |->
               [input |-> Sections0[s].input, output |-> Sections0[s].output,
                chorus |-> Sections0[s].chorus, fb |-> Sections0[s].fb, rsdelta |-> 0]]
  /\ fxTime = 0 /\ fetched = << >>
  /\ goesOn = [s \in DOMAIN Sections0 |-> -Sections0[s].output]

------------------------------------------------------------------------------
\* A place before the start of the line is one at its end.
InLine(at) == IF at < 0 THEN at + LineLength ELSE at

\* _loadBuffer: n samples from a place on, in two parts when they pass the end
LoadLine(ring, at, n) ==
  LET from   == InLine(at)
      before == Lesser(n, LineLength - from)
  IN Span(ring, RoundDown(from, WordSize), before) \o Span(ring, 0, n - before)

\* _saveBuffer
SaveLine(ring, at, seq) ==
  LET to     == InLine(at)
      before == Lesser(Len(seq), LineLength - to)
  IN WriteAt(WriteAt(ring, to, SubSeq(seq, 1, before)), 0, SubSeq(seq, before + 1, Len(seq)))

\* _loadOutputBuffer of a chorus: the samples before the start of a word are passed over.
ChorusFrom(ring, outPtr, count) ==
  LET ramalign == InLine(outPtr) % WordSize
  IN SubSeq(LoadLine(ring, outPtr - ramalign, count + ramalign), ramalign + 1, count + ramalign)

\* A section of alFxPull: w has the line, the sections, what was loaded, and where the
\* output of the last section was (prev_out_ptr).
Section(w, s, n, count) ==
  LET d      == w.delay[s]
      inPtr  == input - d.input
      outPtr == input - d.output + d.rsdelta
      reuse  == inPtr = w.prev
      buff1  == IF reuse THEN w.buff2 ELSE LoadLine(w.line, inPtr, n)
      buff2  == IF d.chorus THEN ChorusFrom(w.line, outPtr, count) ELSE LoadLine(w.line, outPtr, n)
      line1  == IF d.fb THEN SaveLine(w.line, inPtr, buff1) ELSE w.line
  IN [line |-> IF d.chorus THEN line1 ELSE SaveLine(line1, outPtr, buff2),
      delay |-> [w.delay EXCEPT ![s].rsdelta = IF d.chorus THEN @ + count - n ELSE @],
      got |-> w.got \o << [section |-> s, end |-> "input", from |-> fxTime - d.input, data |-> buff1],
                          [section |-> s, end |-> "output",
                           from |-> IF d.chorus THEN goesOn[s] ELSE fxTime - d.output, data |-> buff2] >>,
      prev |-> input + d.output, buff2 |-> buff2]

\* alFxPull: count, what a chorus takes for n samples, is n or near it.
FxPull(n) ==
  /\ fxTime + n <= MaxTime
  /\ \E count \in n - 1 .. n + 1 :
       LET new   == SaveLine(line, input, [i \in 1..n |-> fxTime + i - 1])
           start == [line |-> new, delay |-> delay, got |-> << >>, prev |-> -1, buff2 |-> << >>]
           done  == FoldLeft(LAMBDA w, s : Section(w, s, n, count), start,
                             [s \in DOMAIN delay |-> s])
       IN /\ \A s \in DOMAIN delay :
               delay[s].chorus => delay[s].rsdelta + count - n \in -1..1
          /\ line' = done.line /\ delay' = done.delay /\ fetched' = done.got
          /\ goesOn' = [s \in DOMAIN delay |-> goesOn[s] + count]
  /\ fxTime' = fxTime + n
  /\ input' = IF input + n > LineLength THEN input + n - LineLength ELSE input + n

\* alFxParamHdl
SetFXParam(s, field, val) ==
  /\ LET to == RoundDown(val, FxAlign)
     IN IF field = "input" THEN delay' = [delay EXCEPT ![s].input = to] /\ UNCHANGED goesOn
        ELSE /\ delay' = [delay EXCEPT ![s].output = to]
             /\ goesOn' = [goesOn EXCEPT ![s] = fxTime - to + delay[s].rsdelta]
  /\ fetched' = << >>
  /\ UNCHANGED << line, input, fxTime >>

FxNext ==
  \/ \E n \in FxPulls : FxPull(n)
  \/ \E s \in DOMAIN delay, field \in {"input", "output"}, val \in FxDelays : SetFXParam(s, field, val)

------------------------------------------------------------------------------
\* What a section loads went into the line as long ago as its delay says, wherever the
\* line's end falls in it, and a chorus goes on where it ended (_loadBuffer,
\* _saveBuffer, _loadOutputBuffer, alFxPull).
DelaysKept ==
  \A g \in 1..Len(fetched) :
    \A i \in 1..Len(fetched[g].data) : fetched[g].data[i] = fetched[g].from + i - 1

------------------------------------------------------------------------------
(***************************************************************************)
(* The resampler of a voice (resample.c): it asks the load filter for the  *)
(* samples that the microcode will pass over, and keeps what is left of    *)
(* one; the microcode keeps its own count of that.                         *)
(*                                                                         *)
(* A pitch is a number of halves of 1/UNITY_PITCH, so that it need not be  *)
(* one of the steps in which it is used; delta is a number of              *)
(* 1/UNITY_PITCH.  In f32 these are exact for the 160 samples that are     *)
(* asked for at once at the most.                                          *)
(***************************************************************************)
CONSTANTS
  UnityPitch,     \* UNITY_PITCH, 0x8000
  MaxRatio,       \* MAX_RATIO, a pitch
  VoicePitches,   \* that a voice is set to
  OutCounts,      \* numbers of samples the envelope mixer asks for
  MaxResampled    \* bound on the samples taken for a voice

ASSUME ResamplerAssumption ==
  /\ UnityPitch \in Nat \ {0} /\ MaxRatio \in Nat /\ VoicePitches \subseteq Nat
  /\ OutCounts \subseteq Nat /\ MaxResampled \in Nat

VARIABLES
  resampler,  \* [delta, first, upitch, ratio]
  rspAt,      \* how far the microcode is between two samples, in its state
  resampled,  \* [taken, passed, due]: samples asked for, samples the microcode passed over, and
              \* how far the sound should be in 1/UNITY_PITCH, since the reset  (history)
  note        \* [on, unity, pitch], as the player asked                        (history)

resampleVars == << resampler, rspAt, resampled, note >>

NoSamples == [taken |-> 0, passed |-> 0, due |-> 0]

\* alResampleNew; what is in the microcode's state matters to nobody yet.
ResampleInit ==
  /\ resampler = [delta |-> 0, first |-> TRUE, upitch |-> FALSE, ratio |-> 2 * UnityPitch]
  /\ rspAt \in 0 .. UnityPitch - 1 /\ resampled = NoSamples
  /\ note = [on |-> FALSE, unity |-> FALSE, pitch |-> 2 * UnityPitch]

\* The steps of 1/UNITY_PITCH of a pitch, after it is clipped
Steps(pitch) == Lesser(pitch, MaxRatio) \div 2

\* AL_FILTER_START_VOICE, which leaves the pitch, and AL_FILTER_START_VOICE_ALT
StartResample(unity, pitch) ==
  /\ Unstopped \/ ~note.on
  /\ resampler' = [resampler EXCEPT !.upitch = unity \/ @, !.ratio = pitch]
  /\ note' = [on |-> TRUE, unity |-> unity, pitch |-> pitch]
  /\ UNCHANGED << rspAt, resampled >>

\* AL_FILTER_SET_PITCH
SetPitch(pitch) ==
  /\ resampler' = [resampler EXCEPT !.ratio = pitch] /\ note' = [note EXCEPT !.pitch = pitch]
  /\ UNCHANGED << rspAt, resampled >>

\* AL_FILTER_RESET, when the voice is stopped
ResetResampler ==
  /\ note.on /\ note' = [note EXCEPT !.on = FALSE]
  /\ resampler' = [resampler EXCEPT !.delta = 0, !.first = TRUE, !.upitch = FALSE]
  /\ resampled' = NoSamples /\ UNCHANGED rspAt

\* How far n samples bring the microcode: from its state, or from the start with A_INIT
Passes(first, steps, n) == (IF first THEN 0 ELSE rspAt) + (steps * n)

\* alResamplePull; without a resampler the samples are moved as they are.
ResamplePull(n) ==
  /\ note.on /\ n # 0 /\ resampled.taken < MaxResampled
  /\ LET steps  == Steps(resampler.ratio)
         incr   == steps * n
         finCount == resampler.delta + incr
         far    == Passes(resampler.first, steps, n)
         asked  == n * (IF note.unity THEN UnityPitch ELSE Steps(note.pitch))
     IN IF resampler.upitch
        THEN /\ resampled' = [taken |-> resampled.taken + n, passed |-> resampled.passed + n,
                              due |-> resampled.due + asked]
             /\ UNCHANGED << resampler, rspAt >>
        ELSE /\ resampler' = [resampler EXCEPT !.ratio = 2 * steps, !.first = FALSE,
                                               !.delta = finCount % UnityPitch]
             /\ rspAt' = far % UnityPitch
             /\ resampled' = [taken |-> resampled.taken + (finCount \div UnityPitch),
                              passed |-> resampled.passed + (far \div UnityPitch),
                              due |-> resampled.due + asked]
  /\ UNCHANGED note

ResampleNext ==
  \/ \E unity \in BOOLEAN, pitch \in VoicePitches \cup {resampler.ratio} : StartResample(unity, pitch)
  \/ \E pitch \in VoicePitches : SetPitch(pitch)
  \/ ResetResampler
  \/ \E n \in OutCounts : ResamplePull(n)

ResampleSpec == ResampleInit /\ [][ResampleNext]_resampleVars

------------------------------------------------------------------------------
\* The load filter is asked for exactly the samples that the microcode passes over, however the
\* pitch changes and the calls are cut, and the sound goes on at the pitch it was given: what is
\* left of a sample is never lost nor counted twice (alResamplePull).
ResamplerInStep ==
  /\ resampled.passed = resampled.taken
  /\ (resampled.taken * UnityPitch) + resampler.delta = resampled.due
===================================================================================
